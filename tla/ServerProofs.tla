---------------------------- MODULE ServerProofs ----------------------------
(***************************************************************************)
(* Theorems of Ratings, of Accounts and of HashRing, for any numbers of    *)
(* rides, drivers, accounts, requests under way, members and virtual       *)
(* nodes, and of all that the services keep apart from trips together.     *)
(***************************************************************************)
EXTENDS MCServer, VehiclesProofs, TokenBucketProofs, FiniteSetTheorems, SequenceTheorems, TLAPS

-----------------------------------------------------------------------------
(* The arithmetic of the average: products are left alone by the solver, so  *)
(* that their order and the division are stated once.                        *)
LEMMA Division ==
    ASSUME NEW x \in Nat, NEW y \in Nat, y > 0
    PROVE  /\ x \div y \in Nat
           /\ y * (x \div y) <= x
           /\ x < y * (x \div y) + y
  BY SMT

LEMMA ProductOrder ==
    ASSUME NEW m \in Nat, NEW a \in Int, NEW b \in Int, a <= b
    PROVE  m * a <= m * b
  BY SMT

(* A rating moves the average times the count by its stars, up to half the   *)
(* new count, and does not leave the scale.                                  *)
LEMMA NewAverageBounds ==
    ASSUME NEW n \in Nat, NEW a \in 0 .. 500, NEW s \in 1 .. 5,
           NEW b, b = NewAverage([count |-> n, avg |-> a], s)
    PROVE  /\ b \in 0 .. 500
           /\ -(2 * (n + 1)) <= 4 * (b * (n + 1)) - 4 * (a * n + 100 * s)
           /\ 4 * (b * (n + 1)) - 4 * (a * n + 100 * s) <= 2 * (n + 1)
<1> DEFINE m == n + 1
           x == a * n + 100 * s
<1>1. m \in Nat /\ m > 0 /\ a * n \in Nat /\ x \in Nat
  BY SMT
<1>2. b = (2 * x + m) \div (2 * m)
  BY DEF NewAverage, Rounded
<1> HIDE DEF x
<1>3. /\ b \in Nat
      /\ (2 * m) * b <= 2 * x + m
      /\ 2 * x + m < (2 * m) * b + 2 * m
  <2>1. 2 * x + m \in Nat /\ 2 * m \in Nat /\ 2 * m > 0
    BY <1>1
  <2> HIDE DEF m
  <2> QED
    BY <1>2, <2>1, Division
<1> DEFINE p == b * m
<1>4. p \in Nat /\ (2 * m) * b = 2 * p
  BY <1>1, <1>3, SMT
<1>5. a * n <= 500 * n
  <2>1. n * a <= n * 500
    BY ProductOrder
  <2> QED
    BY <2>1
<1>6. x <= 500 * m
  BY <1>1, <1>5 DEF x
<1>7. b <= 500
  <2> SUFFICES ASSUME b >= 501 PROVE FALSE
    BY <1>3
  <2>1. m * 501 <= m * b
    BY <1>1, <1>3, ProductOrder
  <2>2. m * 501 <= p
    BY <1>1, <1>3, <2>1
  <2> HIDE DEF p
  <2> QED
    BY <1>1, <1>3, <1>4, <1>6, <2>2
<1>8. -(2 * m) <= 4 * p - 4 * x /\ 4 * p - 4 * x <= 2 * m
  <2> HIDE DEF p, m
  <2> QED
    BY <1>1, <1>3, <1>4
<1>9. b \in 0 .. 500
  BY <1>3, <1>7
<1> QED
  BY <1>8, <1>9, Zenon DEF x

-----------------------------------------------------------------------------
(* The inductive invariant of the ratings.                                   *)

(* A transaction that has inserted its row is the only one with its ride.    *)
Inserted == {"share", "trigger", "commit"}
RowsAreOwn ==
    \A q \in Rating : rating[q].pc \in Inserted =>
        /\ ratingOf[rating[q].ride] = 0
        /\ \A p \in Rating \ {q} :
              rating[p].pc \in Inserted => rating[p].ride # rating[q].ride

(* What the trigger has computed is still to the point when it is committed. *)
FreshAt(q) ==
    /\ rating[q].count = average[CabIn(q)].count + 1
    /\ rating[q].avg = NewAverage(average[CabIn(q)], rating[q].star)
    /\ \A p \in Rating \ {q} : rating[p].pc = "commit" => CabIn(p) # CabIn(q)
TriggersAreFresh == \A q \in Rating : rating[q].pc = "commit" => FreshAt(q)

FinitelyRated == \A d \in Cab : IsFiniteSet(RatedRides(d))

RatingsInv ==
    /\ RatingsTypeOK /\ RowsAreOwn /\ TriggersAreFresh
    /\ FinitelyRated /\ CountAgrees /\ AverageDrift /\ AnswersAreTrue

LEMMA NoRatingOK == NoRating \in RatingRecord
  BY RatingsAssumption DEF NoRating, RatingRecord

LEMMA RatingsInitInv == RatingsInit => RatingsInv
<1> SUFFICES ASSUME RatingsInit PROVE RatingsInv
  OBVIOUS
<1>1. RatingsTypeOK
  BY NoRatingOK DEF RatingsInit, RatingsTypeOK
<1>2. \A d \in Cab : RatedRides(d) = {}
  BY DEF RatingsInit, RatedRides
<1>3. FinitelyRated /\ CountAgrees
  BY <1>2, FS_EmptySet DEF RatingsInit, FinitelyRated, CountAgrees
<1>4. AverageDrift
  BY DEF RatingsInit, AverageDrift, Drift
<1>5. RowsAreOwn /\ TriggersAreFresh /\ AnswersAreTrue
  BY DEF RatingsInit, NoRating, RowsAreOwn, TriggersAreFresh, AnswersAreTrue, Truthful, Inserted
<1> QED
  BY <1>1, <1>3, <1>4, <1>5 DEF RatingsInv

(* One request moves on and nothing is committed.                            *)
LEMMA RatingMoves ==
    ASSUME RatingsInv, NEW q \in Rating, NEW k \in RatingRecord,
           rating' = [rating EXCEPT ![q] = k], NothingWritten, Truthful(k),
           k.pc \in Inserted =>
              /\ ratingOf[k.ride] = 0
              /\ \A p \in Rating \ {q} : rating[p].pc \in Inserted => rating[p].ride # k.ride,
           k.pc = "commit" =>
              /\ k.count = average[CabOf[k.ride]].count + 1
              /\ k.avg = NewAverage(average[CabOf[k.ride]], k.star)
              /\ \A p \in Rating \ {q} : rating[p].pc = "commit" => CabIn(p) # CabOf[k.ride]
    PROVE  RatingsInv'
<1>1. /\ rating' \in [Rating -> RatingRecord] /\ rating'[q] = k
      /\ \A p \in Rating \ {q} : rating'[p] = rating[p]
  BY DEF RatingsInv, RatingsTypeOK
<1>2. RatingsTypeOK'
  BY <1>1 DEF NothingWritten, RatingsInv, RatingsTypeOK
<1>3. RowsAreOwn'
  BY <1>1 DEF NothingWritten, RatingsInv, RowsAreOwn
<1>4. TriggersAreFresh'
  BY <1>1 DEF NothingWritten, RatingsInv, TriggersAreFresh, FreshAt, CabIn
<1>5. \A d \in Cab : RatedRides(d)' = RatedRides(d)
  BY DEF NothingWritten, RatedRides
<1>6. FinitelyRated' /\ CountAgrees' /\ AverageDrift'
  BY <1>5 DEF NothingWritten, RatingsInv, FinitelyRated, CountAgrees, AverageDrift, Drift
<1>7. AnswersAreTrue'
  BY <1>1 DEF NothingWritten, RatingsInv, AnswersAreTrue, Truthful, Rated
<1> QED
  BY <1>2, <1>3, <1>4, <1>6, <1>7 DEF RatingsInv

(* A request that is over is not lied to about, and one that is handed in    *)
(* has no answer any more.                                                   *)
LEMMA OverOK ==
    ASSUME NEW k \in RatingRecord, NEW answer \in {"ok", "conflict", "missing", "error"}
    PROVE  /\ Over(k, answer) \in RatingRecord
           /\ Over(k, answer).pc = "done" /\ Over(k, answer).answer = answer
           /\ Over(k, answer).ride = k.ride /\ Over(k, answer).star = k.star
<1>1. NoRating \in RatingRecord
  BY NoRatingOK
<1> QED
  BY <1>1 DEF RatingRecord, Over

LEMMA RatingOver ==
    ASSUME RatingsInv, NEW q \in Rating, NothingWritten,
           \/ Answered(q, "conflict") /\ Rated(rating[q].ride)
           \/ Answered(q, "missing") /\ rating[q].ride \notin Rateable
           \/ Answered(q, "error")
           \/ rating' = [rating EXCEPT ![q] = NoRating]
    PROVE  RatingsInv'
<1>1. ASSUME NEW answer \in {"conflict", "missing", "error"}, Answered(q, answer),
             answer = "conflict" => Rated(rating[q].ride),
             answer = "missing" => rating[q].ride \notin Rateable
      PROVE  RatingsInv'
  <2> DEFINE k == Over(rating[q], answer)
  <2>1. rating[q] \in RatingRecord
    BY DEF RatingsInv, RatingsTypeOK
  <2>2. k \in RatingRecord /\ k.pc = "done" /\ k.answer = answer /\ k.ride = rating[q].ride
    BY <2>1, OverOK
  <2>3. rating' = [rating EXCEPT ![q] = k]
    BY <1>1 DEF Answered
  <2> HIDE DEF k
  <2>4. Truthful(k)
    BY <1>1, <2>2 DEF Truthful
  <2> QED
    BY <2>2, <2>3, <2>4, RatingMoves DEF Inserted
<1>2. NoRating.pc = "idle" /\ Truthful(NoRating)
  BY DEF NoRating, Truthful
<1> QED
  BY <1>1, <1>2, NoRatingOK, RatingMoves DEF Inserted

LEMMA AskRatingInv ==
    ASSUME RatingsInv, NEW q \in Rating, NEW r \in Ride, NEW s \in Star, AskRating(q, r, s)
    PROVE  RatingsInv'
<1> DEFINE k == [NoRating EXCEPT !.pc = "select", !.ride = r, !.star = s]
<1>1. k \in RatingRecord /\ k.pc = "select" /\ Truthful(k)
  BY NoRatingOK DEF RatingRecord, NoRating, Truthful
<1>2. rating' = [rating EXCEPT ![q] = k]
  BY DEF AskRating, RatingsInv, RatingsTypeOK
<1> QED
  BY <1>1, <1>2, RatingMoves DEF AskRating, Inserted

(* A step of a request to another point, with the same ride.                 *)
LEMMA GotoInv ==
    ASSUME RatingsInv, NEW q \in Rating, NothingWritten,
           NEW pc \in {"insert", "share", "trigger"}, Goto(q, pc),
           pc = "insert" \/ rating[q].pc \in Inserted
             \/ ( /\ ratingOf[rating[q].ride] = 0
                  /\ \A p \in Rating \ {q} :
                        rating[p].pc \in Inserted => rating[p].ride # rating[q].ride )
    PROVE  RatingsInv'
<1> DEFINE k == [rating[q] EXCEPT !.pc = pc]
<1>1. k \in RatingRecord /\ k.pc = pc /\ k.ride = rating[q].ride
  BY DEF RatingRecord, RatingsInv, RatingsTypeOK
<1>2. rating' = [rating EXCEPT ![q] = k]
  BY DEF Goto, RatingsInv, RatingsTypeOK
<1>3. pc \in Inserted =>
        /\ ratingOf[rating[q].ride] = 0
        /\ \A p \in Rating \ {q} : rating[p].pc \in Inserted => rating[p].ride # rating[q].ride
  BY DEF Inserted, RatingsInv, RowsAreOwn
<1>4. Truthful(k)
  BY DEF RatingRecord, RatingsInv, RatingsTypeOK, AnswersAreTrue, Truthful
<1> HIDE DEF k
<1> QED
  BY <1>1, <1>2, <1>3, <1>4, RatingMoves

LEMMA InsertRatingInv ==
    ASSUME RatingsInv, NEW q \in Rating, InsertRating(q)
    PROVE  RatingsInv'
<1>1. CASE Rated(rating[q].ride) /\ Answered(q, Refusal("unique_violation"))
  BY <1>1, RatingOver DEF InsertRating, Refusal
<1>2. CASE ~Rated(rating[q].ride) /\ Goto(q, "share")
  <2>1. ratingOf[rating[q].ride] = 0
    BY <1>2 DEF Rated
  <2>2. \A p \in Rating \ {q} : rating[p].pc \in Inserted => rating[p].ride # rating[q].ride
    BY DEF InsertRating, Others, Inserted
  <2> QED
    BY <1>2, <2>1, <2>2, GotoInv DEF InsertRating
<1> QED
  BY <1>1, <1>2 DEF InsertRating

LEMMA TriggerInv ==
    ASSUME RatingsInv, NEW q \in Rating, Trigger(q)
    PROVE  RatingsInv'
<1> DEFINE old == average[CabIn(q)]
           b == NewAverage(old, rating[q].star)
           k == [rating[q] EXCEPT !.pc = "commit", !.count = old.count + 1, !.avg = b]
<1>1. rating[q] \in RatingRecord /\ CabIn(q) \in Cab
  BY RatingsAssumption DEF RatingsInv, RatingsTypeOK, RatingRecord, CabIn
<1>2. old.count \in Nat /\ old.avg \in 0 .. 500 /\ rating[q].star \in 1 .. 5
  <2>1. rating[q].star \in Star
    BY <1>1 DEF RatingRecord
  <2>2. rating[q].star \in 1 .. 5
    BY <2>1, RatingsAssumption
  <2>3. average[CabIn(q)] \in [count : Nat, avg : 0 .. 500]
    BY <1>1 DEF RatingsInv, RatingsTypeOK
  <2> QED
    BY <2>2, <2>3
<1>3. b \in Nat
  <2>1. old = [count |-> old.count, avg |-> old.avg]
    BY <1>1 DEF RatingsInv, RatingsTypeOK
  <2>2. b = NewAverage([count |-> old.count, avg |-> old.avg], rating[q].star)
    BY <2>1
  <2> HIDE DEF b, old
  <2>3. b \in 0 .. 500
    BY <1>2, <2>2, NewAverageBounds
  <2> QED
    BY <2>3
<1>4. rating' = [rating EXCEPT ![q] = k]
  BY DEF Trigger, RatingsInv, RatingsTypeOK
<1> HIDE DEF b
<1>5. /\ k \in RatingRecord /\ k.pc = "commit" /\ k.ride = rating[q].ride
      /\ k.star = rating[q].star /\ k.count = old.count + 1 /\ k.avg = b
      /\ k.answer = rating[q].answer
  <2> DEFINE c == old.count + 1
  <2>1. c \in Nat
    BY <1>2
  <2> HIDE DEF c
  <2>2. k = [rating[q] EXCEPT !.pc = "commit", !.count = c, !.avg = b]
    BY DEF c
  <2>3. /\ k \in RatingRecord /\ k.pc = "commit" /\ k.ride = rating[q].ride
        /\ k.star = rating[q].star /\ k.count = c /\ k.avg = b
        /\ k.answer = rating[q].answer
    BY <1>1, <1>3, <2>1, <2>2 DEF RatingRecord
  <2> QED
    BY <2>3 DEF c
<1>6. \A p \in Rating \ {q} : rating[p].pc = "commit" => CabIn(p) # CabIn(q)
  BY DEF Trigger, LockFree, Rivals, Others
<1>7. /\ ratingOf[rating[q].ride] = 0
      /\ \A p \in Rating \ {q} : rating[p].pc \in Inserted => rating[p].ride # rating[q].ride
  BY DEF Trigger, RatingsInv, RowsAreOwn, Inserted
<1>8. /\ CabOf[k.ride] = CabIn(q)
      /\ k.avg = NewAverage(average[CabOf[k.ride]], k.star)
      /\ k.count = average[CabOf[k.ride]].count + 1
  BY <1>5 DEF CabIn, b
<1> HIDE DEF k
<1>9. /\ ratingOf[k.ride] = 0
      /\ \A p \in Rating \ {q} : rating[p].pc \in Inserted => rating[p].ride # k.ride
      /\ \A p \in Rating \ {q} : rating[p].pc = "commit" => CabIn(p) # CabOf[k.ride]
  BY <1>5, <1>6, <1>7, <1>8
<1>10. NothingWritten
  BY DEF Trigger
<1>11. Truthful(k)
  BY <1>5 DEF RatingsInv, AnswersAreTrue, Truthful
<1> HIDE DEF b, old
<1> QED
  BY <1>4, <1>5, <1>8, <1>9, <1>10, <1>11, RatingMoves

LEMMA CommitRatingInv ==
    ASSUME RatingsInv, NEW q \in Rating, CommitRating(q)
    PROVE  RatingsInv'
<1> DEFINE r == rating[q].ride
           d == CabIn(q)
           s == rating[q].star
           n == average[d].count
           a == average[d].avg
           b == rating[q].avg
           k(answer) == Over(rating[q], answer)
<1>1. /\ rating[q] \in RatingRecord /\ r \in Ride /\ d \in Cab /\ s \in Star /\ s \in 1 .. 5
      /\ n \in Nat /\ a \in 0 .. 500 /\ average[d] = [count |-> n, avg |-> a]
  <2>1. rating[q] \in RatingRecord
    BY DEF RatingsInv, RatingsTypeOK
  <2>2. r \in Ride /\ s \in Star /\ s \in 1 .. 5
    BY <2>1, RatingsAssumption DEF RatingRecord
  <2>3. d \in Cab
    BY <2>2, RatingsAssumption DEF CabIn
  <2>4. average[d] \in [count : Nat, avg : 0 .. 500]
    BY <2>3 DEF RatingsInv, RatingsTypeOK
  <2> QED
    BY <2>1, <2>2, <2>3, <2>4
<1>2. FreshAt(q)
  BY DEF CommitRating, RatingsInv, TriggersAreFresh
<1>3. rating[q].count = n + 1 /\ b = NewAverage([count |-> n, avg |-> a], s)
  BY <1>1, <1>2 DEF FreshAt
<1>4. /\ b \in 0 .. 500
      /\ -(2 * (n + 1)) <= 4 * (b * (n + 1)) - 4 * (a * n + 100 * s)
      /\ 4 * (b * (n + 1)) - 4 * (a * n + 100 * s) <= 2 * (n + 1)
  BY <1>1, <1>3, NewAverageBounds
<1>5. \A answer \in {"ok", "error"} :
         /\ k(answer) \in RatingRecord /\ k(answer).pc = "done" /\ k(answer).answer = answer
         /\ k(answer).ride = r /\ k(answer).star = s
  BY <1>1, OverOK
<1>6. /\ rating' \in [Rating -> RatingRecord] /\ rating'[q].pc = "done"
      /\ rating'[q].answer \in {"ok", "error"} /\ rating'[q].ride = r /\ rating'[q].star = s
      /\ \A p \in Rating \ {q} : rating'[p] = rating[p]
  BY <1>5 DEF CommitRating, Answered, RatingsInv, RatingsTypeOK
<1>7. /\ average' \in [Cab -> [count : Nat, avg : 0 .. 500]]
      /\ average'[d] = [count |-> n + 1, avg |-> b]
      /\ \A e \in Cab \ {d} : average'[e] = average[e]
  <2>1. average' = [average EXCEPT ![d] = [count |-> rating[q].count, avg |-> b]]
    BY DEF CommitRating
  <2>2. average \in [Cab -> [count : Nat, avg : 0 .. 500]]
    BY DEF RatingsInv, RatingsTypeOK
  <2>3. PICK c : c = [count |-> rating[q].count, avg |-> b]
    OBVIOUS
  <2>4. c = [count |-> n + 1, avg |-> b] /\ c \in [count : Nat, avg : 0 .. 500]
    BY <1>1, <1>3, <1>4, <2>3
  <2>5. average' = [average EXCEPT ![d] = c]
    BY <2>1, <2>3
  <2> QED
    BY <1>1, <2>2, <2>4, <2>5
<1>8. /\ total' \in [Cab -> Nat] /\ total'[d] = total[d] + s
      /\ \A e \in Cab \ {d} : total'[e] = total[e]
  BY <1>1 DEF CommitRating, RatingsInv, RatingsTypeOK
<1>9. /\ ratingOf' \in [Ride -> {0} \cup Star] /\ ratingOf'[r] = s
      /\ \A o \in Ride \ {r} : ratingOf'[o] = ratingOf[o]
  BY <1>1 DEF CommitRating, RatingsInv, RatingsTypeOK
<1>10. RatingsTypeOK'
  BY <1>6, <1>7, <1>8, <1>9 DEF RatingsTypeOK
<1>11. /\ ratingOf[r] = 0
       /\ \A p \in Rating \ {q} : rating[p].pc \in Inserted => rating[p].ride # r
  BY DEF CommitRating, RatingsInv, RowsAreOwn, Inserted
<1>12. RowsAreOwn'
  <2> SUFFICES ASSUME NEW p \in Rating, rating'[p].pc \in Inserted
               PROVE  /\ ratingOf'[rating'[p].ride] = 0
                      /\ \A o \in Rating \ {p} :
                            rating'[o].pc \in Inserted => rating'[o].ride # rating'[p].ride
    BY DEF RowsAreOwn
  <2>1. p # q /\ rating'[p] = rating[p]
    BY <1>6 DEF Inserted
  <2>2. rating[p].ride \in Ride \ {r}
    BY <1>11, <2>1 DEF RatingsInv, RatingsTypeOK, RatingRecord
  <2>3. \A o \in Rating \ {p} :
            rating'[o].pc \in Inserted => o # q /\ rating'[o] = rating[o]
    BY <1>6 DEF Inserted
  <2> QED
    BY <1>9, <2>1, <2>2, <2>3 DEF RatingsInv, RowsAreOwn
<1>13. TriggersAreFresh'
  <2> SUFFICES ASSUME NEW p \in Rating, rating'[p].pc = "commit" PROVE FreshAt(p)'
    BY DEF TriggersAreFresh
  <2>1. p # q /\ rating'[p] = rating[p] /\ rating[p].pc = "commit"
    BY <1>6
  <2>2. CabIn(p) \in Cab \ {d}
    BY <1>2, <2>1, RatingsAssumption DEF FreshAt, RatingsInv, RatingsTypeOK, RatingRecord, CabIn
  <2>3. CabIn(p)' = CabIn(p) /\ average'[CabIn(p)] = average[CabIn(p)]
    BY <1>7, <2>1, <2>2 DEF CabIn
  <2>4. FreshAt(p)
    BY <2>1 DEF RatingsInv, TriggersAreFresh
  <2>5. \A o \in Rating \ {p} :
            rating'[o].pc = "commit" => rating[o].pc = "commit" /\ CabIn(o)' = CabIn(o)
    BY <1>6 DEF CabIn
  <2> QED
    BY <2>1, <2>3, <2>4, <2>5 DEF FreshAt
<1>14. FinitelyRated' /\ CountAgrees'
  <2> SUFFICES ASSUME NEW e \in Cab
               PROVE  /\ IsFiniteSet(RatedRides(e)')
                      /\ average'[e].count = Cardinality(RatedRides(e)')
    BY DEF FinitelyRated, CountAgrees
  <2>1. IsFiniteSet(RatedRides(e)) /\ average[e].count = Cardinality(RatedRides(e))
    BY DEF RatingsInv, FinitelyRated, CountAgrees
  <2>2. CASE e = d
    <3>1. s # 0
      BY <1>1
    <3>2. r \notin RatedRides(e)
      BY <1>11 DEF RatedRides
    <3>3. CabOf[r] = e
      BY <2>2 DEF CabIn
    <3>4. RatedRides(e)' = RatedRides(e) \cup {r}
      BY <1>1, <1>9, <3>1, <3>3 DEF RatedRides
    <3>5. /\ IsFiniteSet(RatedRides(e) \cup {r})
          /\ Cardinality(RatedRides(e) \cup {r}) = Cardinality(RatedRides(e)) + 1
      BY <2>1, <3>2, FS_AddElement
    <3>6. average'[e].count = n + 1 /\ n = average[e].count
      BY <1>7, <2>2
    <3> HIDE DEF r, n
    <3> QED
      BY <2>1, <3>4, <3>5, <3>6
  <2>3. CASE e # d
    <3>1. RatedRides(e)' = RatedRides(e)
      BY <1>9, <2>3 DEF RatedRides, CabIn
    <3> QED
      BY <1>7, <2>1, <2>3, <3>1
  <2> QED
    BY <2>2, <2>3
<1>15. AverageDrift'
  <2> SUFFICES ASSUME NEW e \in Cab
               PROVE  LET c == average'[e].count
                      IN  -(c * (c + 1)) <= Drift(e)' /\ Drift(e)' <= c * (c + 1)
    BY DEF AverageDrift
  <2>1. CASE e = d
    <3> DEFINE u == a * n
               w == b * (n + 1)
               h == n * (n + 1)
               t == total[d]
    <3>1. u \in Int /\ w \in Int /\ h \in Int /\ t \in Int
      BY <1>1, <1>4 DEF RatingsInv, RatingsTypeOK
    <3>2. -h <= 4 * (u - 100 * t) /\ 4 * (u - 100 * t) <= h
      BY <1>1 DEF RatingsInv, AverageDrift, Drift
    <3>3. (n + 1) * (n + 2) = h + 2 * (n + 1)
      BY <1>1
    <3>4. average'[e].count = n + 1 /\ Drift(e)' = 4 * (w - 100 * (t + s))
      BY <1>1, <1>7, <1>8, <2>1 DEF Drift
    <3>5. (n + 1) + 1 = n + 2
      BY <1>1
    <3>6. -(2 * (n + 1)) <= 4 * w - 4 * (u + 100 * s) /\ 4 * w - 4 * (u + 100 * s) <= 2 * (n + 1)
      BY <1>4
    <3> HIDE DEF u, w, h, t, n, a, b, s
    <3>7. -(h + 2 * (n + 1)) <= 4 * (w - 100 * (t + s)) /\ 4 * (w - 100 * (t + s)) <= h + 2 * (n + 1)
      BY <1>1, <3>1, <3>2, <3>6
    <3> QED
      BY <3>3, <3>4, <3>5, <3>7
  <2>2. CASE e # d
    <3>1. average'[e] = average[e] /\ total'[e] = total[e]
      BY <1>7, <1>8, <2>2
    <3> QED
      BY <3>1 DEF RatingsInv, AverageDrift, Drift
  <2> QED
    BY <2>1, <2>2
<1>16. AnswersAreTrue'
  <2> SUFFICES ASSUME NEW p \in Rating PROVE Truthful(rating[p])'
    BY DEF AnswersAreTrue
  <2>1. CASE p = q
    BY <1>6, <1>9, <2>1 DEF Truthful
  <2>2. CASE p # q
    <3>1. rating'[p] = rating[p] /\ rating[p].ride \in Ride /\ rating[p].star \in 1 .. 5
      BY <1>6, <2>2, RatingsAssumption DEF RatingsInv, RatingsTypeOK, RatingRecord
    <3>2. Truthful(rating[p])
      BY DEF RatingsInv, AnswersAreTrue
    <3> QED
      BY <1>1, <1>9, <1>11, <3>1, <3>2 DEF Truthful, Rated
  <2> QED
    BY <2>1, <2>2
<1> QED
  BY <1>10, <1>12, <1>13, <1>14, <1>15, <1>16 DEF RatingsInv

LEMMA RatingsStepInv == RatingsInv /\ [RatingsNext]_ratingsVars => RatingsInv'
<1> SUFFICES ASSUME RatingsInv, [RatingsNext]_ratingsVars PROVE RatingsInv'
  OBVIOUS
<1>1. ASSUME NEW q \in Rating, RatingStep(q) PROVE RatingsInv'
  <2>1. CASE Select(q)
    BY <2>1, RatingOver, GotoInv DEF Select
  <2>2. CASE Share(q)
    BY <2>2, GotoInv DEF Share, Inserted
  <2>3. CASE Deadlocked(q)
    BY <2>3, RatingOver DEF Deadlocked, Refusal
  <2> QED
    BY <1>1, <2>1, <2>2, <2>3, InsertRatingInv, TriggerInv, CommitRatingInv DEF RatingStep
<1>2. ASSUME NEW q \in Rating, FailRating(q) \/ RatingAnswer(q) PROVE RatingsInv'
  BY <1>2, RatingOver DEF FailRating, RatingAnswer, Refusal
<1>3. CASE UNCHANGED ratingsVars
  <2>1. \A d \in Cab : RatedRides(d)' = RatedRides(d)
    BY <1>3 DEF ratingsVars, RatedRides
  <2>2. FinitelyRated' /\ CountAgrees' /\ AverageDrift'
    BY <1>3, <2>1 DEF ratingsVars, RatingsInv, FinitelyRated, CountAgrees, AverageDrift, Drift
  <2>3. RatingsTypeOK' /\ RowsAreOwn' /\ TriggersAreFresh' /\ AnswersAreTrue'
    BY <1>3 DEF ratingsVars, RatingsInv, RatingsTypeOK, RowsAreOwn, TriggersAreFresh, FreshAt, CabIn,
                AnswersAreTrue, Truthful, Rated
  <2> QED
    BY <2>2, <2>3 DEF RatingsInv
<1> QED
  BY <1>1, <1>2, <1>3, AskRatingInv DEF RatingsNext

LEMMA RatingsInvHolds == RatingsSpec => []RatingsInv
  BY RatingsInitInv, RatingsStepInv, PTL DEF RatingsSpec

-----------------------------------------------------------------------------
(* The variables of the ratings keep their types; in particular a stored     *)
(* average stays between zero and five stars.                                *)
THEOREM RatingsTypeCorrect == RatingsSpec => []RatingsTypeOK
  BY RatingsInvHolds, PTL DEF RatingsInv

(* Any number of concurrent ratings, repeated ratings and rollbacks leave    *)
(* every committed rating in the count of its driver, once.                  *)
THEOREM CountIsExact == RatingsSpec => []CountAgrees
  BY RatingsInvHolds, PTL DEF RatingsInv

(* After n ratings the stored average times n is within n(n+1)/4 hundredths  *)
(* of their sum, for every n.                                                *)
THEOREM DriftIsBounded == RatingsSpec => []AverageDrift
  BY RatingsInvHolds, PTL DEF RatingsInv

(* Of any number of riders who rate at the same time none is told something  *)
(* else than what the ride's row says, whether the transaction committed,    *)
(* met another rating of the ride, or lost to a deadlock or a crash.         *)
THEOREM RidersAreToldTheTruth == RatingsSpec => []AnswersAreTrue
  BY RatingsInvHolds, PTL DEF RatingsInv

-----------------------------------------------------------------------------
(* The inductive invariant of the accounts.                                  *)

(* The unique columns hold against transactions that are open, too: nobody   *)
(* else has, or is about to commit, what an open transaction has inserted.   *)
Holding == {"profile", "commit"}
HolderOK(s) ==
    LET f == signup[s].form
        a == signup[s].account
    IN  /\ f \in Form /\ a \in Account \ Existing
        /\ ~Taken(f)
        /\ \A o \in Signup \ {s} : signup[o].pc \in Holding =>
              signup[o].account # a /\ ~Shares(signup[o].form, f)
        /\ signup[s].profiled = (signup[s].pc = "commit" /\ f.role = "driver")
        /\ signup[s].pc = "profile" => f.role = "driver"
HoldersOK == \A s \in Signup : signup[s].pc \in Holding => HolderOK(s)

(* A request that is not as far has a form, and no account and no profile.   *)
EarlyOK(k) ==
    /\ k.pc \notin Holding => k.account = NoAccount /\ k.profiled = FALSE
    /\ k.pc \in {"check", "insert"} => k.form \in Form
EarlierOK == \A s \in Signup : EarlyOK(signup[s])

AccountsInv == AccountsTypeOK /\ HoldersOK /\ EarlierOK /\ OneWholeAccount

LEMMA NoSignupOK == NoSignup \in SignupRecord /\ EarlyOK(NoSignup) /\ NoSignup.pc = "idle"
  BY DEF NoSignup, SignupRecord, EarlyOK, Holding

LEMMA AccountsInitInv == AccountsInit => AccountsInv
<1> SUFFICES ASSUME AccountsInit PROVE AccountsInv
  OBVIOUS
<1>1. AccountsTypeOK
  BY NoSignupOK DEF AccountsInit, AccountsTypeOK
<1>2. Existing = {}
  BY DEF AccountsInit, Existing
<1>3. HoldersOK /\ EarlierOK
  BY NoSignupOK DEF AccountsInit, HoldersOK, EarlierOK, Holding
<1> QED
  BY <1>1, <1>2, <1>3 DEF AccountsInit, AccountsInv, OneWholeAccount

(* One request moves on and nothing is committed.                            *)
LEMMA SignupMoves ==
    ASSUME AccountsInv, NEW s \in Signup, NEW k \in SignupRecord, EarlyOK(k),
           signup' = [signup EXCEPT ![s] = k], NoRowWritten,
           k.pc \in Holding =>
              /\ k.form \in Form /\ k.account \in Account \ Existing
              /\ ~Taken(k.form)
              /\ \A o \in Signup \ {s} : signup[o].pc \in Holding =>
                    signup[o].account # k.account /\ ~Shares(signup[o].form, k.form)
              /\ k.profiled = (k.pc = "commit" /\ k.form.role = "driver")
              /\ k.pc = "profile" => k.form.role = "driver"
    PROVE  AccountsInv'
<1>1. /\ signup' \in [Signup -> SignupRecord] /\ signup'[s] = k
      /\ \A o \in Signup \ {s} : signup'[o] = signup[o]
  BY DEF AccountsInv, AccountsTypeOK
<1>2. UNCHANGED <<user, profile>> /\ Existing' = Existing
  BY DEF NoRowWritten, Existing
<1>3. AccountsTypeOK' /\ EarlierOK'
  BY <1>1, <1>2 DEF AccountsInv, AccountsTypeOK, EarlierOK
<1>4. OneWholeAccount'
  BY <1>2 DEF AccountsInv, OneWholeAccount
<1>5. HoldersOK'
  <2> SUFFICES ASSUME NEW o \in Signup, signup'[o].pc \in Holding PROVE HolderOK(o)'
    BY DEF HoldersOK
  <2>1. \A f : Taken(f)' = Taken(f)
    BY <1>2 DEF Taken
  <2>2. CASE o = s
    BY <1>1, <1>2, <2>1, <2>2 DEF HolderOK
  <2>3. CASE o # s
    <3>1. HolderOK(o) /\ signup'[o] = signup[o]
      BY <1>1, <2>3 DEF AccountsInv, HoldersOK
    <3>2. signup'[s].pc \in Holding =>
            signup'[s].account # signup[o].account /\ ~Shares(signup'[s].form, signup[o].form)
      BY <1>1, <2>3, <3>1 DEF Shares
    <3> QED
      BY <1>1, <1>2, <2>1, <3>1, <3>2 DEF HolderOK
  <2> QED
    BY <2>2, <2>3
<1> QED
  BY <1>3, <1>4, <1>5 DEF AccountsInv

LEMMA SignupOver ==
    ASSUME AccountsInv, NEW s \in Signup, NoRowWritten,
           \/ SignupDone(s, "conflict") \/ SignupDone(s, "error")
           \/ signup' = [signup EXCEPT ![s] = NoSignup]
    PROVE  AccountsInv'
<1>1. ASSUME NEW answer \in {"conflict", "error"}, SignupDone(s, answer) PROVE AccountsInv'
  <2> DEFINE k == [NoSignup EXCEPT !.pc = "done", !.answer = answer]
  <2>1. k \in SignupRecord /\ EarlyOK(k) /\ k.pc = "done"
    BY DEF NoSignup, SignupRecord, EarlyOK, Holding
  <2> QED
    BY <1>1, <2>1, SignupMoves DEF SignupDone, Holding
<1> QED
  BY <1>1, NoSignupOK, SignupMoves DEF Holding

LEMMA SendFormInv ==
    ASSUME AccountsInv, NEW s \in Signup, NEW f \in Form, SendForm(s, f)
    PROVE  AccountsInv'
<1> DEFINE k == [signup[s] EXCEPT !.pc = "check", !.form = f]
<1>1. signup[s] \in SignupRecord /\ EarlyOK(signup[s])
  BY DEF AccountsInv, AccountsTypeOK, EarlierOK
<1>2. k \in SignupRecord /\ EarlyOK(k) /\ k.pc = "check"
  BY <1>1 DEF SendForm, SignupRecord, EarlyOK, Holding
<1>3. signup' = [signup EXCEPT ![s] = k]
  BY DEF SendForm, AccountsInv, AccountsTypeOK
<1> QED
  BY <1>2, <1>3, SignupMoves DEF SendForm, Holding

LEMMA CheckFormInv ==
    ASSUME AccountsInv, NEW s \in Signup, CheckForm(s)
    PROVE  AccountsInv'
<1> DEFINE k == [signup[s] EXCEPT !.pc = "insert"]
<1>1. signup[s] \in SignupRecord /\ EarlyOK(signup[s])
  BY DEF AccountsInv, AccountsTypeOK, EarlierOK
<1>2. k \in SignupRecord /\ EarlyOK(k) /\ k.pc = "insert"
  BY <1>1 DEF CheckForm, SignupRecord, EarlyOK, Holding
<1>3. CASE signup' = [signup EXCEPT ![s].pc = "insert"]
  <2>1. signup' = [signup EXCEPT ![s] = k]
    BY <1>3 DEF AccountsInv, AccountsTypeOK
  <2> QED
    BY <1>2, <2>1, SignupMoves DEF CheckForm, Holding
<1> QED
  BY <1>3, SignupOver DEF CheckForm

LEMMA InsertUserInv ==
    ASSUME AccountsInv, NEW s \in Signup, InsertUser(s)
    PROVE  AccountsInv'
<1> DEFINE f == signup[s].form
           pc == IF f.role = "driver" THEN "profile" ELSE "commit"
<1>1. signup[s] \in SignupRecord /\ EarlyOK(signup[s]) /\ signup[s].pc = "insert"
  BY DEF InsertUser, AccountsInv, AccountsTypeOK, EarlierOK
<1>2. f \in Form /\ signup[s].profiled = FALSE
  BY <1>1 DEF EarlyOK, Holding
<1>3. CASE SignupDone(s, "error")
  BY <1>3, SignupOver DEF InsertUser
<1>4. ASSUME NEW a \in Account \ Existing, ~Taken(f), \A o \in Signup : signup[o].account # a,
             signup' = [signup EXCEPT ![s].account = a, ![s].pc = pc]
      PROVE  AccountsInv'
  <2> DEFINE k == [signup[s] EXCEPT !.account = a, !.pc = pc]
  <2>1. pc \in Holding
    BY DEF Holding
  <2>2. signup' = [signup EXCEPT ![s] = k]
    BY <1>4 DEF AccountsInv, AccountsTypeOK
  <2>3. /\ k \in SignupRecord /\ k.pc = pc /\ k.form = f /\ k.account = a
        /\ k.profiled = FALSE
    BY <1>1, <1>2, <1>4 DEF SignupRecord
  <2>4. EarlyOK(k)
    BY <2>1, <2>3 DEF EarlyOK, Holding
  <2>5. \A o \in Signup \ {s} : signup[o].pc \in Holding =>
            signup[o].account # a /\ ~Shares(signup[o].form, f)
    BY <1>4 DEF InsertUser, Open, Holding
  <2>6. FALSE = (pc = "commit" /\ f.role = "driver") /\ (pc = "profile" => f.role = "driver")
    OBVIOUS
  <2>7. NoRowWritten
    BY DEF InsertUser
  <2> HIDE DEF k, pc, f
  <2> QED
    BY <1>2, <1>4, <2>2, <2>3, <2>4, <2>5, <2>6, <2>7, SignupMoves
<1> QED
  BY <1>3, <1>4 DEF InsertUser

LEMMA InsertProfileInv ==
    ASSUME AccountsInv, NEW s \in Signup, InsertProfile(s)
    PROVE  AccountsInv'
<1> DEFINE k == [signup[s] EXCEPT !.profiled = TRUE, !.pc = "commit"]
<1>1. signup[s] \in SignupRecord /\ signup[s].pc = "profile"
  BY DEF InsertProfile, AccountsInv, AccountsTypeOK
<1>2. HolderOK(s)
  BY <1>1 DEF AccountsInv, HoldersOK, Holding
<1>3. CASE SignupDone(s, "error")
  BY <1>3, SignupOver DEF InsertProfile
<1>4. CASE signup' = [signup EXCEPT ![s].profiled = TRUE, ![s].pc = "commit"]
  <2>1. signup' = [signup EXCEPT ![s] = k]
    BY <1>4 DEF AccountsInv, AccountsTypeOK
  <2>2. /\ k \in SignupRecord /\ k.pc = "commit" /\ k.form = signup[s].form
        /\ k.account = signup[s].account /\ k.profiled = TRUE
    BY <1>1 DEF SignupRecord
  <2>3. EarlyOK(k)
    BY <2>2 DEF EarlyOK, Holding
  <2>4. NoRowWritten
    BY DEF InsertProfile
  <2>5. k.form.role = "driver"
    BY <1>1, <1>2, <2>2 DEF HolderOK
  <2> HIDE DEF k
  <2> QED
    BY <1>2, <2>1, <2>2, <2>3, <2>4, <2>5, SignupMoves DEF HolderOK
<1> QED
  BY <1>3, <1>4 DEF InsertProfile

LEMMA CommitSignupInv ==
    ASSUME AccountsInv, NEW s \in Signup, CommitSignup(s)
    PROVE  AccountsInv'
<1> DEFINE f == signup[s].form
           a == signup[s].account
<1>1. HolderOK(s) /\ signup[s].pc = "commit"
  BY DEF CommitSignup, AccountsInv, HoldersOK, Holding
<1>2. /\ f \in Form /\ f # NoForm /\ a \in Account \ Existing /\ ~Taken(f)
      /\ signup[s].profiled = (f.role = "driver")
  BY <1>1, AccountsAssumption DEF HolderOK
<1>3. PICK answer \in {"ok", "error"} : SignupDone(s, answer)
  BY DEF CommitSignup
<1> DEFINE k == [NoSignup EXCEPT !.pc = "done", !.answer = answer]
<1>4. k \in SignupRecord /\ EarlyOK(k) /\ k.pc = "done"
  BY DEF NoSignup, SignupRecord, EarlyOK, Holding
<1>5. /\ signup' \in [Signup -> SignupRecord] /\ signup'[s] = k
      /\ \A o \in Signup \ {s} : signup'[o] = signup[o]
  BY <1>3, <1>4 DEF SignupDone, AccountsInv, AccountsTypeOK
<1>6. /\ user' \in [Account -> Form \cup {NoForm}] /\ user'[a] = f
      /\ \A b \in Account \ {a} : user'[b] = user[b]
  BY <1>2 DEF CommitSignup, AccountsInv, AccountsTypeOK
<1>7. Existing' = Existing \cup {a}
  BY <1>2, <1>6 DEF Existing
<1>8. profile' = IF f.role = "driver" THEN profile \cup {a} ELSE profile
  BY <1>2 DEF CommitSignup
<1>9. AccountsTypeOK' /\ EarlierOK'
  BY <1>2, <1>4, <1>5, <1>6, <1>8 DEF AccountsInv, AccountsTypeOK, EarlierOK
<1> HIDE DEF k
<1>10. OneWholeAccount'
  <2>1. \A b \in Existing : user'[b] = user[b] /\ ~Shares(user[b], f) /\ b # a
    BY <1>2, <1>6 DEF Taken, Existing
  <2>2. ASSUME NEW b \in Existing', NEW c \in Existing', Shares(user'[b], user'[c]) PROVE b = c
    <3>1. CASE b \in Existing /\ c \in Existing
      BY <2>1, <2>2, <3>1 DEF AccountsInv, OneWholeAccount
    <3>2. CASE b = a /\ c \in Existing
      BY <1>6, <2>1, <2>2, <3>2 DEF Shares
    <3>3. CASE b \in Existing /\ c = a
      BY <1>6, <2>1, <2>2, <3>3 DEF Shares
    <3> QED
      BY <1>7, <3>1, <3>2, <3>3
  <2>3. profile = {b \in Existing : user[b].role = "driver"}
    BY DEF AccountsInv, OneWholeAccount
  <2>4. profile' = {b \in Existing' : user'[b].role = "driver"}
    BY <1>6, <1>7, <1>8, <2>1, <2>3
  <2> QED
    BY <2>2, <2>4 DEF OneWholeAccount
<1>11. HoldersOK'
  <2> SUFFICES ASSUME NEW o \in Signup, signup'[o].pc \in Holding PROVE HolderOK(o)'
    BY DEF HoldersOK
  <2>1. o # s /\ signup'[o] = signup[o] /\ signup[o].pc \in Holding
    BY <1>4, <1>5 DEF Holding
  <2>2. HolderOK(o)
    BY <2>1 DEF AccountsInv, HoldersOK
  <2>3. signup[o].account # a /\ ~Shares(f, signup[o].form)
    BY <1>1, <2>1 DEF HolderOK, Shares
  <2>4. signup[o].account \in Account \ Existing'
    BY <1>7, <2>2, <2>3 DEF HolderOK
  <2>5. ~Taken(signup[o].form)'
    <3>1. \A b \in Existing : user'[b] = user[b]
      BY <1>2, <1>6 DEF Existing
    <3>2. \A b \in Existing : ~Shares(user[b], signup[o].form)
      BY <2>2 DEF HolderOK, Taken
    <3> QED
      BY <1>6, <1>7, <2>1, <2>3, <3>1, <3>2 DEF Taken
  <2>6. \A p \in Signup \ {o} : signup'[p].pc \in Holding =>
            p # s /\ signup'[p] = signup[p] /\ signup[p].pc \in Holding
    BY <1>4, <1>5 DEF Holding
  <2> QED
    BY <2>1, <2>2, <2>4, <2>5, <2>6 DEF HolderOK
<1> QED
  BY <1>9, <1>10, <1>11 DEF AccountsInv

LEMMA AccountsStepInv == AccountsInv /\ [AccountsNext]_accountsVars => AccountsInv'
<1> SUFFICES ASSUME AccountsInv, [AccountsNext]_accountsVars PROVE AccountsInv'
  OBVIOUS
<1>1. ASSUME NEW s \in Signup, FailSignup(s) \/ SignupAnswered(s) PROVE AccountsInv'
  BY <1>1, SignupOver DEF FailSignup, SignupAnswered
<1>2. CASE UNCHANGED accountsVars
  <2>1. Existing' = Existing /\ \A f : Taken(f)' = Taken(f)
    BY <1>2 DEF accountsVars, Existing, Taken
  <2>2. HoldersOK'
    BY <1>2, <2>1 DEF accountsVars, AccountsInv, HoldersOK, HolderOK
  <2> QED
    BY <1>2, <2>1, <2>2 DEF accountsVars, AccountsInv, AccountsTypeOK, EarlierOK, OneWholeAccount
<1> QED
  BY <1>1, <1>2, SendFormInv, CheckFormInv, InsertUserInv, InsertProfileInv, CommitSignupInv
     DEF AccountsNext

LEMMA AccountsInvHolds == AccountsSpec => []AccountsInv
  BY AccountsInitInv, AccountsStepInv, PTL DEF AccountsSpec

-----------------------------------------------------------------------------
(* The variables of the accounts keep their types.                           *)
THEOREM AccountsTypeCorrect == AccountsSpec => []AccountsTypeOK
  BY AccountsInvHolds, PTL DEF AccountsInv

(* Any number of requests that pass the check together leave no two accounts *)
(* with one phone or email, and no driver without a profile.                 *)
THEOREM AccountsAreWhole == AccountsSpec => []OneWholeAccount
  BY AccountsInvHolds, PTL DEF AccountsInv
-----------------------------------------------------------------------------
(***************************************************************************)
(* The hash ring.  Induction over the numbers, for a set of them: what a   *)
(* recursive function computes is shown with the set of the arguments for  *)
(* which it computes the right thing.                                      *)
(***************************************************************************)
LEMMA EveryNumber ==
    ASSUME NEW S, 0 \in S, \A n \in Nat : n \in S => n + 1 \in S
    PROVE  Nat \subseteq S
<1> SUFFICES ASSUME Nat \ S # {} PROVE FALSE
  OBVIOUS
<1>1. PICK x \in Nat \ S : \A y \in Nat \ S : x <= y
  BY LeastExists
<1>2. x # 0 /\ x - 1 \in Nat /\ (x - 1) + 1 = x
  BY <1>1
<1>3. x - 1 \in S
  BY <1>1, <1>2
<1> QED
  BY <1>1, <1>2, <1>3

Sorted(s) == \A i, j \in 1 .. Len(s) : i <= j => s[i].hash <= s[j].hash

\* The binary search: the function that LowerBound applies to the whole ring.
IsSearch(search, s, h) ==
    search = [b \in (0 .. Len(s)) \X (0 .. Len(s)) |->
        IF b[1] >= b[2] THEN b[1]
        ELSE IF At(s, (b[1] + b[2]) \div 2).hash < h
             THEN search[<<(b[1] + b[2]) \div 2 + 1, b[2]>>]
             ELSE search[<<b[1], (b[1] + b[2]) \div 2>>]]

\* What it looks for between lo and hi.
Bounds(s, h, lo, hi, i) ==
    /\ i \in lo .. hi
    /\ \A j \in lo .. i - 1 : s[j + 1].hash < h
    /\ i < hi => h <= s[i + 1].hash

LEMMA BoundExists ==
    ASSUME NEW s \in Seq(Position), NEW h \in Hash,
           NEW lo \in 0 .. Len(s), NEW hi \in lo .. Len(s)
    PROVE  \E i \in 0 .. Len(s) : Bounds(s, h, lo, hi, i)
<1> DEFINE n == Len(s)
           T == {i \in lo .. hi : i < hi => h <= s[i + 1].hash}
<1>0. n \in Nat /\ lo \in Nat /\ hi \in Nat /\ lo <= hi /\ hi <= n
  BY LenProperties
<1>1. T \subseteq Nat /\ hi \in T
  BY <1>0
<1>2. PICK i \in T : \A j \in T : i <= j
  BY <1>1, LeastExists
<1>3. ASSUME NEW j \in lo .. i - 1 PROVE s[j + 1].hash < h
  <2>1. j \in Nat /\ lo <= j /\ j < i /\ i <= hi
    BY <1>0, <1>2
  <2>2. j + 1 \in 1 .. Len(s)
    BY <1>0, <2>1
  <2>3. s[j + 1] \in Position
    BY <2>2, ElementOfSeq
  <2>4. s[j + 1].hash \in Nat /\ h \in Nat
    BY <2>3 DEF Position, Hash
  <2>5. j \notin T
    BY <1>2, <2>1
  <2>6. ~(h <= s[j + 1].hash)
    BY <1>0, <2>1, <2>5
  <2> QED
    BY <2>4, <2>6
<1>4. i \in lo .. hi /\ i \in 0 .. n /\ (i < hi => h <= s[i + 1].hash)
  BY <1>0, <1>2
<1> HIDE DEF T
<1> QED
  BY <1>3, <1>4 DEF Bounds

LEMMA BoundUnique ==
    ASSUME NEW s \in Seq(Position), NEW h \in Hash,
           NEW lo \in 0 .. Len(s), NEW hi \in lo .. Len(s), NEW i, NEW j,
           Bounds(s, h, lo, hi, i), Bounds(s, h, lo, hi, j)
    PROVE  i = j
<1>0. Len(s) \in Nat /\ lo \in Nat /\ hi \in Nat /\ hi <= Len(s) /\ h \in Nat
      /\ i \in lo .. hi /\ j \in lo .. hi
  BY LenProperties DEF Hash, Bounds
<1>1. ASSUME NEW x \in lo .. hi, NEW y \in lo .. hi, Bounds(s, h, lo, hi, x),
             Bounds(s, h, lo, hi, y), x < y
      PROVE  FALSE
  <2>1. x + 1 \in 1 .. Len(s) /\ x \in lo .. y - 1 /\ x < hi
    BY <1>0, <1>1
  <2>2. s[x + 1] \in Position
    BY <2>1, ElementOfSeq
  <2>3. s[x + 1].hash \in Nat
    BY <2>2 DEF Position, Hash
  <2>4. s[x + 1].hash < h /\ h <= s[x + 1].hash
    BY <1>1, <2>1 DEF Bounds
  <2> QED
    BY <1>0, <2>3, <2>4
<1> QED
  BY <1>0, <1>1

\* Half of the distance lies before its end.
LEMMA Middle ==
    ASSUME NEW lo \in Nat, NEW hi \in Nat, lo < hi
    PROVE  (lo + hi) \div 2 \in lo .. hi - 1
OBVIOUS

LEMMA SearchExists ==
    ASSUME NEW s \in Seq(Position), Sorted(s), NEW h \in Hash
    PROVE  \E search : IsSearch(search, s, h)
<1> DEFINE n == Len(s)
           D == (0 .. n) \X (0 .. n)
           g == [b \in D |-> IF b[1] >= b[2] THEN b[1]
                             ELSE CHOOSE i \in 0 .. n : Bounds(s, h, b[1], b[2], i)]
<1>0. n \in Nat /\ h \in Nat
  BY LenProperties DEF Hash
<1>1. ASSUME NEW lo \in 0 .. n, NEW hi \in 0 .. n, lo < hi
      PROVE  g[<<lo, hi>>] \in 0 .. n /\ Bounds(s, h, lo, hi, g[<<lo, hi>>])
  <2>1. \E i \in 0 .. n : Bounds(s, h, lo, hi, i)
    BY <1>0, <1>1, BoundExists
  <2>2. <<lo, hi>> \in D /\ ~(lo >= hi)
    BY <1>0, <1>1
  <2>3. g[<<lo, hi>>] = CHOOSE i \in 0 .. n : Bounds(s, h, lo, hi, i)
    BY <2>2
  <2> QED
    BY <2>1, <2>3
<1>2. ASSUME NEW lo \in 0 .. n, NEW hi \in 0 .. n, lo >= hi
      PROVE  g[<<lo, hi>>] = lo
  BY <1>2
<1> HIDE DEF g
<1>3. ASSUME NEW lo \in 0 .. n, NEW hi \in 0 .. n, lo <= hi
      PROVE  g[<<lo, hi>>] \in lo .. hi /\ Bounds(s, h, lo, hi, g[<<lo, hi>>])
  <2>1. CASE lo < hi
    BY <1>1, <2>1 DEF Bounds
  <2>2. CASE lo = hi
    BY <1>0, <1>2, <2>2 DEF Bounds
  <2> QED
    BY <1>0, <1>3, <2>1, <2>2
<1>4. ASSUME NEW lo \in 0 .. n, NEW hi \in 0 .. n, lo < hi
      PROVE  g[<<lo, hi>>] = IF At(s, (lo + hi) \div 2).hash < h
                             THEN g[<<(lo + hi) \div 2 + 1, hi>>]
                             ELSE g[<<lo, (lo + hi) \div 2>>]
  <2>1. PICK mid : mid = (lo + hi) \div 2
    OBVIOUS
  <2>2. mid \in lo .. hi - 1 /\ mid \in 0 .. n /\ mid + 1 \in 0 .. n /\ mid + 1 <= hi
    BY <1>0, <1>4, <2>1, Middle
  <2>3. \A j \in 0 .. n - 1 : s[j + 1].hash \in Nat
    <3> SUFFICES ASSUME NEW j \in 0 .. n - 1 PROVE s[j + 1].hash \in Nat
      OBVIOUS
    <3>1. s[j + 1] \in Position
      BY <1>0, ElementOfSeq
    <3> QED
      BY <3>1 DEF Position, Hash
  <2>4. \A j, k \in 0 .. n - 1 : j <= k => s[j + 1].hash <= s[k + 1].hash
    BY <1>0 DEF Sorted
  <2>5. CASE s[mid + 1].hash < h
    <3>1. PICK i : i = g[<<mid + 1, hi>>]
      OBVIOUS
    <3>2. i \in mid + 1 .. hi /\ Bounds(s, h, mid + 1, hi, i)
      BY <1>0, <1>3, <2>2, <3>1
    <3>3. ASSUME NEW j \in lo .. i - 1 PROVE s[j + 1].hash < h
      <4>1. CASE j <= mid
        <5>1. j \in 0 .. n - 1 /\ mid \in 0 .. n - 1
          BY <1>0, <2>2, <4>1
        <5>2. s[j + 1].hash <= s[mid + 1].hash
          BY <2>4, <4>1, <5>1
        <5> QED
          BY <1>0, <2>3, <2>5, <5>1, <5>2
      <4>2. CASE ~(j <= mid)
        <5>1. j \in mid + 1 .. i - 1
          BY <2>2, <4>2
        <5> QED
          BY <3>2, <5>1 DEF Bounds
      <4> QED
        BY <4>1, <4>2
    <3>4. Bounds(s, h, lo, hi, i)
      BY <1>0, <2>2, <3>2, <3>3 DEF Bounds
    <3>5. g[<<lo, hi>>] = i
      BY <1>0, <1>1, <1>4, <3>4, BoundUnique
    <3> QED
      BY <2>1, <2>5, <3>1, <3>5 DEF At
  <2>6. CASE ~(s[mid + 1].hash < h)
    <3>1. PICK i : i = g[<<lo, mid>>]
      OBVIOUS
    <3>2. i \in lo .. mid /\ Bounds(s, h, lo, mid, i)
      BY <1>0, <1>3, <2>2, <3>1
    <3>3. h <= s[i + 1].hash
      <4>1. CASE i < mid
        BY <3>2, <4>1 DEF Bounds
      <4>2. CASE ~(i < mid)
        <5>1. i = mid
          BY <1>0, <2>2, <3>2, <4>2
        <5>2. s[mid + 1].hash \in Nat
          BY <1>0, <2>2, <2>3
        <5> QED
          BY <1>0, <2>6, <5>1, <5>2
      <4> QED
        BY <4>1, <4>2
    <3>4. Bounds(s, h, lo, hi, i)
      BY <1>0, <2>2, <3>2, <3>3 DEF Bounds
    <3>5. g[<<lo, hi>>] = i
      BY <1>0, <1>1, <1>4, <3>4, BoundUnique
    <3> QED
      BY <2>1, <2>6, <3>1, <3>5 DEF At
  <2> QED
    BY <2>5, <2>6
<1>5. g = [b \in D |->
        IF b[1] >= b[2] THEN b[1]
        ELSE IF At(s, (b[1] + b[2]) \div 2).hash < h
             THEN g[<<(b[1] + b[2]) \div 2 + 1, b[2]>>]
             ELSE g[<<b[1], (b[1] + b[2]) \div 2>>]]
  <2> DEFINE e(b) == IF b[1] >= b[2] THEN b[1]
                     ELSE IF At(s, (b[1] + b[2]) \div 2).hash < h
                          THEN g[<<(b[1] + b[2]) \div 2 + 1, b[2]>>]
                          ELSE g[<<b[1], (b[1] + b[2]) \div 2>>]
  <2>1. ASSUME NEW b \in D PROVE g[b] = e(b)
    <3>1. PICK lo \in 0 .. n, hi \in 0 .. n : b = <<lo, hi>>
      OBVIOUS
    <3>2. CASE lo >= hi
      BY <1>2, <3>1, <3>2
    <3>3. CASE lo < hi
      <4>1. ~(lo >= hi)
        BY <1>0, <3>3
      <4> QED
        BY <1>4, <3>1, <3>3, <4>1
    <3> QED
      BY <1>0, <3>2, <3>3
  <2> HIDE DEF e
  <2>2. g = [b \in D |-> g[b]]
    BY DEF g
  <2>3. g = [b \in D |-> e(b)]
    BY <2>1, <2>2
  <2> QED
    BY <2>3 DEF e
<1> QED
  BY <1>5 DEF IsSearch

\* Any such function finds it, by induction on the distance that is left.
LEMMA SearchFinds ==
    ASSUME NEW s \in Seq(Position), Sorted(s), NEW h \in Hash,
           NEW search, IsSearch(search, s, h)
    PROVE  Bounds(s, h, 0, Len(s), search[<<0, Len(s)>>])
<1> DEFINE n == Len(s)
           S == {d \in Nat : \A lo, hi \in 0 .. n :
                    lo <= hi /\ hi - lo <= d => Bounds(s, h, lo, hi, search[<<lo, hi>>])}
<1>0. n \in Nat /\ h \in Nat
  BY LenProperties DEF Hash
<1>1. ASSUME NEW lo \in 0 .. n, NEW hi \in 0 .. n
      PROVE  search[<<lo, hi>>] =
                IF lo >= hi THEN lo
                ELSE IF s[(lo + hi) \div 2 + 1].hash < h
                     THEN search[<<(lo + hi) \div 2 + 1, hi>>]
                     ELSE search[<<lo, (lo + hi) \div 2>>]
  <2>1. <<lo, hi>> \in (0 .. n) \X (0 .. n)
    OBVIOUS
  <2> QED
    BY <2>1 DEF IsSearch, At
<1>2. ASSUME NEW lo \in 0 .. n PROVE Bounds(s, h, lo, lo, search[<<lo, lo>>])
  <2>0. lo \in Nat /\ lo >= lo
    BY <1>0
  <2>1. search[<<lo, lo>>] = lo
    BY <1>1, <2>0
  <2>2. lo .. lo - 1 = {} /\ lo \in lo .. lo /\ ~(lo < lo)
    BY <2>0
  <2> QED
    BY <2>1, <2>2 DEF Bounds
<1>3. 0 \in S
  <2> SUFFICES ASSUME NEW lo \in 0 .. n, NEW hi \in 0 .. n, lo <= hi, hi - lo <= 0
               PROVE  Bounds(s, h, lo, hi, search[<<lo, hi>>])
    OBVIOUS
  <2>1. lo = hi
    BY <1>0
  <2> QED
    BY <1>0, <1>2, <2>1
<1>4. ASSUME NEW d \in Nat, d \in S PROVE d + 1 \in S
  <2> SUFFICES ASSUME NEW lo \in 0 .. n, NEW hi \in 0 .. n, lo <= hi, hi - lo <= d + 1
               PROVE  Bounds(s, h, lo, hi, search[<<lo, hi>>])
    OBVIOUS
  <2>1. CASE lo = hi
    BY <1>0, <1>2, <2>1
  <2>2. CASE lo < hi
    <3>1. PICK mid : mid = (lo + hi) \div 2
      OBVIOUS
    <3>2. /\ mid \in lo .. hi - 1 /\ mid \in 0 .. n /\ mid + 1 \in 0 .. n /\ mid + 1 <= hi
          /\ hi - (mid + 1) <= d /\ mid - lo <= d /\ lo <= mid
      BY <1>0, <2>2, <3>1, Middle
    <3>3. search[<<lo, hi>>] = IF s[mid + 1].hash < h THEN search[<<mid + 1, hi>>]
                                                     ELSE search[<<lo, mid>>]
      BY <1>0, <1>1, <2>2, <3>1
    <3>4. /\ Bounds(s, h, mid + 1, hi, search[<<mid + 1, hi>>])
          /\ Bounds(s, h, lo, mid, search[<<lo, mid>>])
      BY <1>4, <3>2
    <3>5. \A j \in 0 .. n - 1 : s[j + 1].hash \in Nat
      <4> SUFFICES ASSUME NEW j \in 0 .. n - 1 PROVE s[j + 1].hash \in Nat
        OBVIOUS
      <4>1. s[j + 1] \in Position
        BY <1>0, ElementOfSeq
      <4> QED
        BY <4>1 DEF Position, Hash
    <3>6. CASE s[mid + 1].hash < h
      <4>1. PICK i : i = search[<<mid + 1, hi>>]
        OBVIOUS
      <4>2. Bounds(s, h, mid + 1, hi, i) /\ i \in mid + 1 .. hi
        BY <3>4, <4>1 DEF Bounds
      <4>3. ASSUME NEW j \in lo .. i - 1 PROVE s[j + 1].hash < h
        <5>1. CASE j <= mid
          <6>1. j + 1 \in 1 .. n /\ mid + 1 \in 1 .. n /\ j + 1 <= mid + 1
            BY <1>0, <3>2, <5>1
          <6>2. s[j + 1].hash <= s[mid + 1].hash
            BY <6>1 DEF Sorted
          <6>3. s[j + 1].hash \in Nat /\ s[mid + 1].hash \in Nat
            BY <1>0, <3>2, <3>5, <5>1
          <6> QED
            BY <1>0, <3>6, <6>2, <6>3
        <5>2. CASE ~(j <= mid)
          <6>1. j \in mid + 1 .. i - 1
            BY <3>2, <5>2
          <6> QED
            BY <4>2, <6>1 DEF Bounds
        <5> QED
          BY <5>1, <5>2
      <4>4. Bounds(s, h, lo, hi, i)
        BY <1>0, <3>2, <4>2, <4>3 DEF Bounds
      <4> QED
        BY <3>3, <3>6, <4>1, <4>4
    <3>7. CASE ~(s[mid + 1].hash < h)
      <4>1. PICK i : i = search[<<lo, mid>>]
        OBVIOUS
      <4>2. Bounds(s, h, lo, mid, i) /\ i \in lo .. mid
        BY <3>4, <4>1 DEF Bounds
      <4>3. h <= s[i + 1].hash
        <5>1. CASE i < mid
          BY <4>2, <5>1 DEF Bounds
        <5>2. CASE ~(i < mid)
          <6>1. i = mid /\ s[mid + 1].hash \in Nat
            BY <1>0, <3>2, <3>5, <4>2, <5>2
          <6> QED
            BY <1>0, <3>7, <6>1
        <5> QED
          BY <5>1, <5>2
      <4>4. i \in lo .. hi
        BY <1>0, <3>2, <4>2
      <4>5. \A j \in lo .. i - 1 : s[j + 1].hash < h
        BY <4>2 DEF Bounds
      <4>6. Bounds(s, h, lo, hi, i)
        BY <4>3, <4>4, <4>5 DEF Bounds
      <4> QED
        BY <3>3, <3>7, <4>1, <4>6
    <3> QED
      BY <3>6, <3>7
  <2> QED
    BY <1>0, <2>1, <2>2
<1>5. n \in S
  <2> HIDE DEF S
  <2> QED
    BY <1>0, <1>3, <1>4, EveryNumber
<1> QED
  BY <1>0, <1>5

(***************************************************************************)
(* In a ring that is sorted the search finds the first position that is    *)
(* not before the hash.                                                    *)
(***************************************************************************)
LEMMA LowerBoundIs ==
    ASSUME NEW s \in Seq(Position), Sorted(s), NEW h \in Hash
    PROVE  /\ LowerBound(s, h) \in 0 .. Len(s)
           /\ \A j \in 1 .. LowerBound(s, h) : s[j].hash < h
           /\ \A j \in LowerBound(s, h) + 1 .. Len(s) : h <= s[j].hash
<1> DEFINE search == CHOOSE f : IsSearch(f, s, h)
           i == search[<<0, Len(s)>>]
<1>1. IsSearch(search, s, h)
  <2>1. \E f : IsSearch(f, s, h)
    BY SearchExists
  <2> QED
    BY <2>1, Zenon
<1>2. LowerBound(s, h) = i
  BY Zenon DEF LowerBound, IsSearch
<1> HIDE DEF search
<1>3. Bounds(s, h, 0, Len(s), i)
  BY <1>1, SearchFinds
<1> HIDE DEF i
<1>4. Len(s) \in Nat /\ i \in 0 .. Len(s) /\ h \in Nat
  BY <1>3, LenProperties DEF Bounds, Hash
<1>5. ASSUME NEW j \in 1 .. i PROVE s[j].hash < h
  <2>1. j - 1 \in 0 .. i - 1 /\ (j - 1) + 1 = j
    BY <1>4
  <2>2. s[(j - 1) + 1].hash < h
    BY <1>3, <2>1 DEF Bounds
  <2> QED
    BY <2>1, <2>2
<1>6. ASSUME NEW j \in i + 1 .. Len(s) PROVE h <= s[j].hash
  <2>1. i + 1 \in 1 .. Len(s) /\ j \in 1 .. Len(s) /\ i + 1 <= j /\ i < Len(s)
    BY <1>4
  <2>2. h <= s[i + 1].hash /\ s[i + 1].hash <= s[j].hash
    BY <1>3, <2>1 DEF Bounds, Sorted
  <2>3. s[i + 1] \in Position /\ s[j] \in Position
    BY <2>1, ElementOfSeq
  <2>4. s[i + 1].hash \in Nat /\ s[j].hash \in Nat
    BY <2>3 DEF Position, Hash
  <2> QED
    BY <1>4, <2>2, <2>4
<1> QED
  BY <1>2, <1>4, <1>5, <1>6

LEMMA ConcatIs ==
    ASSUME NEW S, NEW a \in Seq(S), NEW b \in Seq(S), NEW m, NEW k, Len(a) = m, Len(b) = k
    PROVE  /\ a \o b \in Seq(S) /\ Len(a \o b) = m + k
           /\ \A j \in 1 .. m + k : (a \o b)[j] = IF j <= m THEN a[j] ELSE b[j - m]
<1>1. a \o b \in Seq(S) /\ Len(a \o b) = Len(a) + Len(b)
  BY ConcatProperties, Zenon
<1>2. \A j \in 1 .. Len(a) + Len(b) :
         (a \o b)[j] = IF j <= Len(a) THEN a[j] ELSE b[j - Len(a)]
  BY ConcatProperties, Zenon
<1>3. \A j \in 1 .. m + k : (a \o b)[j] = IF j <= m THEN a[j] ELSE b[j - m]
  BY <1>2, Zenon
<1> QED
  BY <1>1, <1>3, Zenon

\* What is inserted goes where the search says, in front of the rest.
LEMMA SplicedIs ==
    ASSUME NEW s \in Seq(Position), Sorted(s), NEW p \in Position
    PROVE  /\ Spliced(s, p) \in Seq(Position)
           /\ Len(Spliced(s, p)) = Len(s) + 1
           /\ \A j \in 1 .. Len(s) + 1 :
                 Spliced(s, p)[j] = IF j <= LowerBound(s, p.hash) THEN s[j]
                                    ELSE IF j = LowerBound(s, p.hash) + 1 THEN p
                                    ELSE s[j - 1]
<1> DEFINE i == LowerBound(s, p.hash)
           n == Len(s)
           a == SubSeq(s, 1, i)
           b == <<p>>
           c == SubSeq(s, i + 1, n)
           r == (a \o b) \o c
<1>1. n \in Nat /\ i \in 0 .. n /\ \A j \in 1 .. n : s[j] \in Position
  BY LowerBoundIs, LenProperties, ElementOfSeq DEF Position
<1>2. Spliced(s, p) = r
  BY DEF Spliced
<1> HIDE DEF i, n
<1>3. a \in Seq(Position) /\ Len(a) = i /\ \A j \in 1 .. i : a[j] = s[j]
  <2>1. \A j \in 1 .. i : s[j] \in Position
    BY <1>1
  <2>2. /\ a \in Seq(Position) /\ Len(a) = (IF 1 <= i THEN i - 1 + 1 ELSE 0)
        /\ \A j \in 1 .. i - 1 + 1 : a[j] = s[1 + j - 1]
    BY <1>1, <2>1, SubSeqProperties
  <2> HIDE DEF a
  <2>3. \A j \in 1 .. i : 1 + j - 1 = j /\ j \in 1 .. i - 1 + 1
    BY <1>1
  <2>4. Len(a) = i
    BY <1>1, <2>2
  <2>5. \A j \in 1 .. i : a[j] = s[j]
    BY <2>2, <2>3
  <2> QED
    BY <2>2, <2>4, <2>5
<1>4. b \in Seq(Position) /\ Len(b) = 1 /\ b[1] = p
  OBVIOUS
<1>5. c \in Seq(Position) /\ Len(c) = n - i /\ \A j \in 1 .. n - i : c[j] = s[i + j]
  <2>1. \A j \in i + 1 .. n : s[j] \in Position
    BY <1>1
  <2>2. /\ c \in Seq(Position) /\ Len(c) = (IF i + 1 <= n THEN n - (i + 1) + 1 ELSE 0)
        /\ \A j \in 1 .. n - (i + 1) + 1 : c[j] = s[(i + 1) + j - 1]
    BY <1>1, <2>1, SubSeqProperties
  <2> HIDE DEF c
  <2>3. \A j \in 1 .. n - i : (i + 1) + j - 1 = i + j /\ j \in 1 .. n - (i + 1) + 1
    BY <1>1
  <2> QED
    BY <1>1, <2>2, <2>3
<1> HIDE DEF a, b, c
<1>6. /\ a \o b \in Seq(Position) /\ Len(a \o b) = i + 1
      /\ \A j \in 1 .. i + 1 : (a \o b)[j] = IF j <= i THEN a[j] ELSE b[j - i]
  <2>1. a \in Seq(Position) /\ b \in Seq(Position) /\ Len(a) = i /\ Len(b) = 1
    BY <1>3, <1>4
  <2>2. ASSUME NEW k, k = 1
        PROVE  /\ a \o b \in Seq(Position) /\ Len(a \o b) = i + k
               /\ \A j \in 1 .. i + k : (a \o b)[j] = IF j <= i THEN a[j] ELSE b[j - i]
    <3>1. Len(b) = k
      BY <2>1, <2>2
    <3> QED
      BY <2>1, <3>1, ConcatIs
  <2> QED
    BY <2>2
<1>7. /\ r \in Seq(Position) /\ Len(r) = (i + 1) + (n - i)
      /\ \A j \in 1 .. (i + 1) + (n - i) :
            r[j] = IF j <= i + 1 THEN (a \o b)[j] ELSE c[j - (i + 1)]
  <2> DEFINE d == a \o b
  <2>1. d \in Seq(Position) /\ Len(d) = i + 1
    BY <1>6
  <2> HIDE DEF d
  <2>2. /\ d \o c \in Seq(Position) /\ Len(d \o c) = (i + 1) + (n - i)
        /\ \A j \in 1 .. (i + 1) + (n - i) :
              (d \o c)[j] = IF j <= i + 1 THEN d[j] ELSE c[j - (i + 1)]
    BY <1>5, <2>1, ConcatIs
  <2> QED
    BY <2>2 DEF d
<1> HIDE DEF r
<1>8. ASSUME NEW j \in 1 .. n + 1
      PROVE  r[j] = IF j <= i THEN s[j] ELSE IF j = i + 1 THEN p ELSE s[j - 1]
  <2>0. j \in 1 .. (i + 1) + (n - i)
    BY <1>1
  <2>1. CASE j <= i
    <3>1. j \in 1 .. i /\ j \in 1 .. i + 1 /\ j <= i + 1
      BY <1>1, <2>1
    <3>2. r[j] = (a \o b)[j]
      BY <1>7, <2>0, <3>1
    <3>3. (a \o b)[j] = a[j]
      BY <1>6, <2>1, <3>1
    <3> QED
      BY <1>3, <2>1, <3>1, <3>2, <3>3
  <2>2. CASE j = i + 1
    <3>1. j \in 1 .. i + 1 /\ j <= i + 1 /\ ~(j <= i) /\ j - i = 1
      BY <1>1, <2>2
    <3>2. r[j] = (a \o b)[j]
      BY <1>7, <2>0, <3>1
    <3>3. (a \o b)[j] = b[j - i]
      BY <1>6, <3>1
    <3> QED
      BY <1>4, <2>2, <3>1, <3>2, <3>3
  <2>3. CASE j > i + 1
    <3>1. ~(j <= i + 1) /\ ~(j <= i) /\ j - (i + 1) \in 1 .. n - i /\ i + (j - (i + 1)) = j - 1
      BY <1>1, <2>3
    <3>2. r[j] = c[j - (i + 1)]
      BY <1>7, <2>0, <3>1
    <3>3. c[j - (i + 1)] = s[i + (j - (i + 1))]
      BY <1>5, <3>1
    <3> QED
      BY <3>1, <3>2, <3>3, <2>3
  <2> QED
    BY <1>1, <2>1, <2>2, <2>3
<1> QED
  BY <1>1, <1>2, <1>7, <1>8 DEF i, n

(***************************************************************************)
(* The order of a ring: by hash, and of two members at one position the    *)
(* one that was added later comes first.                                   *)
(***************************************************************************)
Later(q, a, b) == \E x, y \in 1 .. Len(q) : y < x /\ q[x] = a /\ q[y] = b

Before(q, a, b) ==
    \/ a.hash < b.hash
    \/ a.hash = b.hash /\ (a.node = b.node \/ Later(q, a.node, b.node))

Ordered(q, s) == \A i, j \in 1 .. Len(s) : i < j => Before(q, s[i], s[j])

Elements(s) == {s[i] : i \in 1 .. Len(s)}

LEMMA OrderedIsSorted ==
    ASSUME NEW q, NEW s \in Seq(Position), Ordered(q, s)
    PROVE  Sorted(s)
<1> SUFFICES ASSUME NEW i \in 1 .. Len(s), NEW j \in 1 .. Len(s), i <= j
             PROVE  s[i].hash <= s[j].hash
  BY DEF Sorted
<1>1. s[i] \in Position /\ s[j] \in Position
  BY ElementOfSeq
<1>2. s[i].hash \in Nat /\ s[j].hash \in Nat
  BY <1>1 DEF Position, Hash
<1>3. CASE i = j
  BY <1>2, <1>3
<1>4. CASE i < j
  BY <1>2, <1>4 DEF Ordered, Before
<1> QED
  BY <1>3, <1>4

\* Inserting keeps the order, if what is inserted comes before what has its hash.
LEMMA SplicedKeeps ==
    ASSUME NEW q, NEW s \in Seq(Position), Ordered(q, s), NEW p \in Position,
           \A e \in Elements(s) : p.hash = e.hash => Before(q, p, e)
    PROVE  /\ Spliced(s, p) \in Seq(Position)
           /\ Ordered(q, Spliced(s, p))
           /\ Elements(Spliced(s, p)) = Elements(s) \cup {p}
<1>1. PICK n : n = Len(s)
  OBVIOUS
<1>2. PICK k : k = LowerBound(s, p.hash)
  OBVIOUS
<1>3. PICK r : r = Spliced(s, p)
  OBVIOUS
<1>4. Sorted(s)
  BY OrderedIsSorted
<1>5. /\ n \in Nat /\ k \in 0 .. n /\ p.hash \in Nat
      /\ \A j \in 1 .. k : s[j].hash < p.hash
      /\ \A j \in k + 1 .. n : p.hash <= s[j].hash
  <2>1. p.hash \in Hash /\ n \in Nat
    BY <1>1, LenProperties DEF Position
  <2>2. /\ LowerBound(s, p.hash) \in 0 .. Len(s)
        /\ \A j \in 1 .. LowerBound(s, p.hash) : s[j].hash < p.hash
        /\ \A j \in LowerBound(s, p.hash) + 1 .. Len(s) : p.hash <= s[j].hash
    BY <1>4, <2>1, LowerBoundIs
  <2> QED
    BY <1>1, <1>2, <2>1, <2>2 DEF Hash
<1>6. /\ r \in Seq(Position) /\ Len(r) = n + 1
      /\ \A j \in 1 .. n + 1 : r[j] = IF j <= k THEN s[j]
                                      ELSE IF j = k + 1 THEN p ELSE s[j - 1]
  BY <1>1, <1>2, <1>3, <1>4, SplicedIs
<1>7. \A j \in 1 .. n : s[j] \in Elements(s) /\ s[j].hash \in Nat
  <2> SUFFICES ASSUME NEW j \in 1 .. n PROVE s[j] \in Elements(s) /\ s[j].hash \in Nat
    OBVIOUS
  <2>1. s[j] \in Position
    BY <1>1, ElementOfSeq
  <2> QED
    BY <1>1, <2>1 DEF Elements, Position, Hash
<1>8. ASSUME NEW i \in 1 .. n + 1, NEW j \in 1 .. n + 1, i < j
      PROVE  Before(q, r[i], r[j])
  <2>1. CASE j <= k
    <3>1. i \in 1 .. n /\ j \in 1 .. n /\ r[i] = s[i] /\ r[j] = s[j]
      BY <1>5, <1>6, <1>8, <2>1
    <3> QED
      BY <1>1, <1>8, <3>1 DEF Ordered
  <2>2. CASE j = k + 1
    <3>1. i \in 1 .. k /\ r[i] = s[i] /\ r[j] = p
      BY <1>5, <1>6, <1>8, <2>2
    <3> QED
      BY <1>5, <3>1 DEF Before
  <2>3. CASE j > k + 1
    <3>1. j - 1 \in k + 1 .. n /\ j - 1 \in 1 .. n /\ r[j] = s[j - 1]
      BY <1>5, <1>6, <2>3
    <3>2. CASE i <= k
      <4>1. i \in 1 .. n /\ r[i] = s[i] /\ i < j - 1
        BY <1>5, <1>6, <1>8, <2>3, <3>2
      <4> QED
        BY <1>1, <3>1, <4>1 DEF Ordered
    <3>3. CASE i = k + 1
      <4>1. r[i] = p /\ p.hash <= s[j - 1].hash
        BY <1>5, <1>6, <3>1, <3>3
      <4>2. s[j - 1] \in Elements(s) /\ s[j - 1].hash \in Nat
        BY <1>7, <3>1
      <4>3. CASE p.hash = s[j - 1].hash
        BY <3>1, <4>1, <4>2, <4>3
      <4>4. CASE p.hash < s[j - 1].hash
        BY <3>1, <4>1, <4>4 DEF Before
      <4> QED
        BY <1>5, <4>1, <4>2, <4>3, <4>4
    <3>4. CASE i > k + 1
      <4>1. i - 1 \in 1 .. n /\ r[i] = s[i - 1] /\ i - 1 < j - 1
        BY <1>5, <1>6, <1>8, <3>4
      <4> QED
        BY <1>1, <3>1, <4>1 DEF Ordered
    <3> QED
      BY <1>5, <3>2, <3>3, <3>4
  <2> QED
    BY <1>5, <2>1, <2>2, <2>3
<1>9. Elements(r) \subseteq Elements(s) \cup {p}
  <2> SUFFICES ASSUME NEW j \in 1 .. n + 1 PROVE r[j] \in Elements(s) \cup {p}
    BY <1>6 DEF Elements
  <2>1. CASE j <= k
    BY <1>5, <1>6, <1>7, <2>1
  <2>2. CASE j = k + 1
    BY <1>5, <1>6, <2>2
  <2>3. CASE j > k + 1
    <3>1. j - 1 \in 1 .. n /\ r[j] = s[j - 1]
      BY <1>5, <1>6, <2>3
    <3> QED
      BY <1>7, <3>1
  <2> QED
    BY <1>5, <2>1, <2>2, <2>3
<1>10. p \in Elements(r)
  <2>1. k + 1 \in 1 .. n + 1 /\ r[k + 1] = p
    BY <1>5, <1>6
  <2> QED
    BY <1>6, <2>1 DEF Elements
<1>11. ASSUME NEW j \in 1 .. n PROVE s[j] \in Elements(r)
  <2>1. CASE j <= k
    <3>1. j \in 1 .. n + 1 /\ r[j] = s[j]
      BY <1>5, <1>6, <2>1
    <3> QED
      BY <1>6, <3>1 DEF Elements
  <2>2. CASE j > k
    <3>1. j + 1 \in 1 .. n + 1 /\ ~(j + 1 <= k) /\ j + 1 # k + 1 /\ (j + 1) - 1 = j
      BY <1>5, <2>2
    <3>2. r[j + 1] = s[j]
      BY <1>6, <3>1
    <3> QED
      BY <1>6, <3>1, <3>2 DEF Elements
  <2> QED
    BY <1>5, <2>1, <2>2
<1>12. Elements(s) \subseteq Elements(r)
  BY <1>1, <1>11 DEF Elements
<1> QED
  BY <1>3, <1>6, <1>8, <1>9, <1>10, <1>12 DEF Ordered

(***************************************************************************)
(* The virtual nodes of a member that joins, one after the other.          *)
(***************************************************************************)
Virtual(node, v) == [hash |-> place[node][v], node |-> node]

IsPlacing(f, s, node, n) ==
    f = [i \in 0 .. n |-> IF i = 0 THEN s ELSE Spliced(f[i - 1], Virtual(node, i))]

LEMMA PlacingExists ==
    ASSUME NEW s, NEW node, NEW n \in Nat
    PROVE  \E f : IsPlacing(f, s, node, n)
<1> DEFINE S == {m \in Nat : \E f : IsPlacing(f, s, node, m)}
<1>1. 0 \in S
  <2>1. IsPlacing([i \in 0 .. 0 |-> s], s, node, 0)
    BY DEF IsPlacing
  <2> QED
    BY <2>1
<1>2. ASSUME NEW m \in Nat, m \in S PROVE m + 1 \in S
  <2>1. PICK f : IsPlacing(f, s, node, m)
    BY <1>2
  <2> DEFINE g == [i \in 0 .. m + 1 |->
                      IF i <= m THEN f[i] ELSE Spliced(f[m], Virtual(node, m + 1))]
  <2>2. \A i \in 0 .. m : g[i] = f[i]
    BY <1>2
  <2>3. \A i \in 0 .. m : f[i] = IF i = 0 THEN s ELSE Spliced(f[i - 1], Virtual(node, i))
    BY <2>1 DEF IsPlacing
  <2>4. ASSUME NEW i \in 0 .. m + 1
        PROVE  g[i] = IF i = 0 THEN s ELSE Spliced(g[i - 1], Virtual(node, i))
    <3>1. CASE i <= m
      <4>1. i \in 0 .. m /\ (i # 0 => i - 1 \in 0 .. m)
        BY <1>2, <3>1
      <4> HIDE DEF g
      <4> QED
        BY <2>2, <2>3, <4>1
    <3>2. CASE i = m + 1
      <4>1. i # 0 /\ i - 1 = m /\ i - 1 \in 0 .. m /\ ~(i <= m)
        BY <1>2, <3>2
      <4>2. g[i] = Spliced(f[m], Virtual(node, i))
        BY <3>2, <4>1
      <4> HIDE DEF g
      <4> QED
        BY <2>2, <4>1, <4>2
    <3> QED
      BY <1>2, <3>1, <3>2
  <2>5. g = [i \in 0 .. m + 1 |-> g[i]]
    OBVIOUS
  <2> HIDE DEF g
  <2>6. g = [i \in 0 .. m + 1 |-> IF i = 0 THEN s ELSE Spliced(g[i - 1], Virtual(node, i))]
    BY <2>4, <2>5
  <2>7. IsPlacing(g, s, node, m + 1)
    BY <2>6 DEF IsPlacing
  <2> QED
    BY <1>2, <2>7
<1>3. n \in S
  <2> HIDE DEF S
  <2> QED
    BY <1>1, <1>2, EveryNumber
<1> QED
  BY <1>3

(***************************************************************************)
(* A member joins: the ring keeps its order and has the member's positions *)
(* besides those it had.                                                   *)
(***************************************************************************)
LEMMA PlacedIs ==
    ASSUME place \in [Node -> [1 .. Vnodes -> Hash]], NEW q, NEW node \in Node,
           NEW s \in Seq(Position), Ordered(q, s),
           \A e \in Elements(s) : e.node = node \/ Later(q, node, e.node)
    PROVE  /\ Placed(s, node) \in Seq(Position)
           /\ Ordered(q, Placed(s, node))
           /\ Elements(Placed(s, node))
                 = Elements(s) \cup {Virtual(node, v) : v \in 1 .. Vnodes}
<1> DEFINE f == CHOOSE g : IsPlacing(g, s, node, Vnodes)
<1>0. Vnodes \in Nat
  BY HashRingAssumption
<1>1. IsPlacing(f, s, node, Vnodes)
  <2>1. \E g : IsPlacing(g, s, node, Vnodes)
    BY <1>0, PlacingExists
  <2> QED
    BY <2>1, Zenon
<1>2. Placed(s, node) = f[Vnodes]
  BY Zenon DEF Placed, IsPlacing, Virtual
<1> HIDE DEF f
<1>3. /\ f[0] = s
      /\ \A i \in 1 .. Vnodes : f[i] = Spliced(f[i - 1], Virtual(node, i))
  BY <1>0, <1>1 DEF IsPlacing
<1> DEFINE Good(i) == /\ f[i] \in Seq(Position)
                      /\ Ordered(q, f[i])
                      /\ Elements(f[i]) = Elements(s) \cup {Virtual(node, v) : v \in 1 .. i}
           S == {i \in Nat : i <= Vnodes => Good(i)}
<1>4. 0 \in S
  <2>1. {Virtual(node, v) : v \in 1 .. 0} = {}
    OBVIOUS
  <2> QED
    BY <1>3, <2>1
<1>5. ASSUME NEW i \in Nat, i \in S PROVE i + 1 \in S
  <2> SUFFICES ASSUME i + 1 <= Vnodes PROVE Good(i + 1)
    OBVIOUS
  <2>1. i + 1 \in 1 .. Vnodes /\ i <= Vnodes /\ (i + 1) - 1 = i
    BY <1>0
  <2>2. Good(i)
    BY <1>5, <2>1
  <2>3. PICK p : p = Virtual(node, i + 1)
    OBVIOUS
  <2>4. p \in Position /\ p.node = node
    BY <2>1, <2>3 DEF Position, Virtual
  <2>5. f[i + 1] = Spliced(f[i], p)
    BY <1>3, <2>1, <2>3
  <2>6. ASSUME NEW e \in Elements(f[i]), p.hash = e.hash PROVE Before(q, p, e)
    <3>1. e.node = node \/ Later(q, node, e.node)
      BY <2>2 DEF Virtual
    <3> QED
      BY <2>4, <2>6, <3>1 DEF Before
  <2>7. /\ f[i + 1] \in Seq(Position)
        /\ Ordered(q, f[i + 1])
        /\ Elements(f[i + 1]) = Elements(f[i]) \cup {p}
    BY <2>2, <2>4, <2>5, <2>6, SplicedKeeps
  <2>8. 1 .. i + 1 = (1 .. i) \cup {i + 1}
    OBVIOUS
  <2>9. Elements(f[i + 1]) = Elements(s) \cup {Virtual(node, v) : v \in 1 .. i + 1}
    BY <2>2, <2>3, <2>7, <2>8
  <2> QED
    BY <2>7, <2>9
<1>6. Vnodes \in S
  <2> HIDE DEF S
  <2> QED
    BY <1>0, <1>4, <1>5, EveryNumber
<1> QED
  BY <1>0, <1>2, <1>6

(***************************************************************************)
(* What is selected from a sequence are the elements at the indices in the *)
(* set, each once and in their order.                                      *)
(***************************************************************************)
IsKept(f, s, I, n) ==
    f = [i \in 0 .. n |-> IF i = 0 THEN <<>>
                          ELSE IF i \in I THEN Append(f[i - 1], s[i]) ELSE f[i - 1]]

LEMMA KeptExists ==
    ASSUME NEW s, NEW I, NEW n \in Nat
    PROVE  \E f : IsKept(f, s, I, n)
<1> DEFINE S == {m \in Nat : \E f : IsKept(f, s, I, m)}
<1>1. 0 \in S
  <2>1. IsKept([i \in 0 .. 0 |-> <<>>], s, I, 0)
    BY DEF IsKept
  <2> QED
    BY <2>1
<1>2. ASSUME NEW m \in Nat, m \in S PROVE m + 1 \in S
  <2>1. PICK f : IsKept(f, s, I, m)
    BY <1>2
  <2> DEFINE last == IF m + 1 \in I THEN Append(f[m], s[m + 1]) ELSE f[m]
             g == [i \in 0 .. m + 1 |-> IF i <= m THEN f[i] ELSE last]
  <2>2. \A i \in 0 .. m : g[i] = f[i]
    BY <1>2
  <2>3. \A i \in 0 .. m :
           f[i] = IF i = 0 THEN <<>>
                  ELSE IF i \in I THEN Append(f[i - 1], s[i]) ELSE f[i - 1]
    BY <2>1 DEF IsKept
  <2>4. ASSUME NEW i \in 0 .. m + 1
        PROVE  g[i] = IF i = 0 THEN <<>>
                      ELSE IF i \in I THEN Append(g[i - 1], s[i]) ELSE g[i - 1]
    <3>1. CASE i <= m
      <4>1. i \in 0 .. m /\ (i # 0 => i - 1 \in 0 .. m)
        BY <1>2, <3>1
      <4> HIDE DEF g
      <4> QED
        BY <2>2, <2>3, <4>1
    <3>2. CASE i = m + 1
      <4>1. i # 0 /\ i - 1 = m /\ i - 1 \in 0 .. m /\ ~(i <= m)
        BY <1>2, <3>2
      <4>2. g[i] = last
        BY <3>2, <4>1
      <4> HIDE DEF g
      <4> QED
        BY <2>2, <3>2, <4>1, <4>2
    <3> QED
      BY <1>2, <3>1, <3>2
  <2>5. g = [i \in 0 .. m + 1 |-> g[i]]
    OBVIOUS
  <2> HIDE DEF g
  <2>6. g = [i \in 0 .. m + 1 |->
                IF i = 0 THEN <<>>
                ELSE IF i \in I THEN Append(g[i - 1], s[i]) ELSE g[i - 1]]
    BY <2>4, <2>5
  <2>7. IsKept(g, s, I, m + 1)
    BY <2>6 DEF IsKept
  <2> QED
    BY <1>2, <2>7
<1>3. n \in S
  <2> HIDE DEF S
  <2> QED
    BY <1>1, <1>2, EveryNumber
<1> QED
  BY <1>3

\* at[i] is the index in s of the i-th element of r.
Takes(at, r, s, I) ==
    /\ at \in [1 .. Len(r) -> I]
    /\ \A i \in 1 .. Len(r) : r[i] = s[at[i]]
    /\ \A i, j \in 1 .. Len(r) : i < j => at[i] < at[j]
    /\ \A k \in I : \E i \in 1 .. Len(r) : at[i] = k

LEMMA SelectedIs ==
    ASSUME NEW T, NEW s \in Seq(T), NEW I, I \subseteq 1 .. Len(s)
    PROVE  /\ Selected(s, I) \in Seq(T)
           /\ Len(Selected(s, I)) <= Len(s)
           /\ \E at : Takes(at, Selected(s, I), s, I)
<1>a. PICK n : n = Len(s)
  OBVIOUS
<1>0. n \in Nat
  BY <1>a, LenProperties
<1> DEFINE f == CHOOSE g : IsKept(g, s, I, n)
<1>1. IsKept(f, s, I, n)
  <2>1. \E g : IsKept(g, s, I, n)
    BY <1>0, KeptExists
  <2> QED
    BY <2>1, Zenon
<1>2. Selected(s, I) = f[n]
  BY <1>a, Zenon DEF Selected, IsKept
<1> HIDE DEF f
<1>3. /\ f[0] = <<>>
      /\ \A i \in 1 .. n : f[i] = IF i \in I THEN Append(f[i - 1], s[i]) ELSE f[i - 1]
  <2>1. \A i \in 0 .. n :
           f[i] = IF i = 0 THEN <<>>
                  ELSE IF i \in I THEN Append(f[i - 1], s[i]) ELSE f[i - 1]
    BY <1>1, Zenon DEF IsKept
  <2>2. 0 \in 0 .. n /\ \A i \in 1 .. n : i \in 0 .. n /\ i # 0
    BY <1>0
  <2> QED
    BY <2>1, <2>2, Zenon
<1> DEFINE Good(i) == /\ f[i] \in Seq(T)
                      /\ Len(f[i]) <= i
                      /\ \E at : Takes(at, f[i], s, I \cap (1 .. i))
           S == {i \in Nat : i <= n => Good(i)}
<1>4. Good(0)
  <2>1. f[0] \in Seq(T) /\ Len(f[0]) = 0
    BY <1>3, EmptySeq
  <2>2. Takes([i \in 1 .. 0 |-> 0], f[0], s, I \cap (1 .. 0))
    BY <2>1 DEF Takes
  <2> QED
    BY <2>1, <2>2
<1>5. ASSUME NEW i \in Nat, Good(i), i + 1 <= n PROVE Good(i + 1)
  <2>1. i + 1 \in 1 .. n /\ i <= n /\ (i + 1) - 1 = i /\ s[i + 1] \in T
    BY <1>0, <1>5, <1>a, ElementOfSeq
  <2>2. f[i] \in Seq(T) /\ Len(f[i]) <= i /\ Len(f[i]) \in Nat
    BY <1>5, LenProperties
  <2>3. PICK at : Takes(at, f[i], s, I \cap (1 .. i))
    BY <1>5
  <2>4. CASE i + 1 \notin I
    <3>1. f[i + 1] = f[i]
      BY <1>3, <2>1, <2>4
    <3>2. I \cap (1 .. i + 1) = I \cap (1 .. i)
      BY <2>4
    <3>3. Takes(at, f[i + 1], s, I \cap (1 .. i + 1))
      BY <2>3, <3>1, <3>2, Zenon
    <3>4. f[i + 1] \in Seq(T)
      BY <2>2, <3>1, Zenon
    <3>5. Len(f[i + 1]) = Len(f[i])
      BY <3>1, Zenon
    <3>6. Len(f[i + 1]) <= i + 1
      BY <2>2, <3>5
    <3> QED
      BY <3>3, <3>4, <3>6, Zenon
  <2>5. CASE i + 1 \in I
    <3>1. PICK m : m = Len(f[i])
      OBVIOUS
    <3>2. PICK r : r = f[i + 1]
      OBVIOUS
    <3>3. r = Append(f[i], s[i + 1])
      BY <1>3, <2>1, <2>5, <3>2
    <3>4. /\ r \in Seq(T) /\ Len(r) = m + 1 /\ m \in Nat /\ m <= i
          /\ \A j \in 1 .. m : r[j] = f[i][j]
          /\ r[m + 1] = s[i + 1]
      BY <2>1, <2>2, <3>1, <3>3, AppendProperties
    <3> DEFINE to == [j \in 1 .. m + 1 |-> IF j <= m THEN at[j] ELSE i + 1]
               J == I \cap (1 .. i + 1)
    <3>5. /\ \A j \in 1 .. m : to[j] = at[j] /\ at[j] \in I \cap (1 .. i)
          /\ to[m + 1] = i + 1
      <4>1. \A j \in 1 .. m : at[j] \in I \cap (1 .. i)
        BY <2>3, <3>1 DEF Takes
      <4>2. \A j \in 1 .. m : to[j] = at[j]
        BY <3>4
      <4>3. to[m + 1] = i + 1
        BY <3>4
      <4> QED
        BY <4>1, <4>2, <4>3
    <3>6. \A j \in 1 .. m + 1 : j \in 1 .. m \/ j = m + 1
      BY <3>4
    <3>7. \A j \in 1 .. m + 1 : to[j] \in J
      <4>1. i + 1 \in J
        BY <2>5
      <4>2. \A j \in 1 .. m : to[j] \in J
        BY <3>5
      <4> QED
        BY <3>5, <3>6, <4>1, <4>2
    <3>8. to \in [1 .. m + 1 -> J]
      <4>1. to = [j \in 1 .. m + 1 |-> to[j]]
        OBVIOUS
      <4> HIDE DEF to, J
      <4> QED
        BY <3>7, <4>1
    <3> HIDE DEF to
    <3>9. \A j \in 1 .. m + 1 : r[j] = s[to[j]]
      <4>1. \A j \in 1 .. m : f[i][j] = s[at[j]]
        BY <2>3, <3>1 DEF Takes
      <4> QED
        BY <3>4, <3>5, <3>6, <4>1
    <3>10. ASSUME NEW j \in 1 .. m + 1, NEW k \in 1 .. m + 1, j < k PROVE to[j] < to[k]
      <4>1. j \in 1 .. m
        BY <3>4, <3>10
      <4>2. CASE k \in 1 .. m
        BY <2>3, <3>1, <3>5, <3>10, <4>1, <4>2 DEF Takes
      <4>3. CASE k = m + 1
        <5>1. at[j] \in 1 .. i /\ to[j] = at[j] /\ to[k] = i + 1
          BY <3>5, <4>1, <4>3
        <5> QED
          BY <5>1
      <4> QED
        BY <3>6, <4>2, <4>3
    <3>11. ASSUME NEW k \in J PROVE \E j \in 1 .. m + 1 : to[j] = k
      <4>1. CASE k = i + 1
        BY <3>4, <3>5, <4>1
      <4>2. CASE k # i + 1
        <5>1. k \in I \cap (1 .. i)
          BY <4>2
        <5>2. PICK j \in 1 .. m : at[j] = k
          BY <2>3, <3>1, <5>1 DEF Takes
        <5> QED
          BY <3>4, <3>5, <5>2
      <4> QED
        BY <4>1, <4>2
    <3> HIDE DEF J
    <3>12. Takes(to, r, s, J)
      BY <3>4, <3>8, <3>9, <3>10, <3>11 DEF Takes
    <3> QED
      BY <3>2, <3>4, <3>12 DEF J
  <2> QED
    BY <2>4, <2>5
<1>6. Good(n)
  <2> HIDE DEF Good
  <2>1. 0 \in S /\ \A i \in Nat : i \in S => i + 1 \in S
    BY <1>0, <1>4, <1>5
  <2>2. n \in S
    <3> HIDE DEF S
    <3> QED
      BY <1>0, <2>1, EveryNumber
  <2> QED
    BY <1>0, <2>2
<1>7. I \cap (1 .. n) = I
  BY <1>a
<1> QED
  BY <1>2, <1>6, <1>7, <1>a

(***************************************************************************)
(* A replica's ring: who was added is a member, once; the positions are    *)
(* the virtual nodes of the members, in their order.                       *)
(***************************************************************************)
IsRing(q, s, M) ==
    /\ Elements(q) = M
    /\ \A i, j \in 1 .. Len(q) : q[i] = q[j] => i = j
    /\ Ordered(q, s)
    /\ Elements(s) = {Virtual(n, v) : n \in M, v \in 1 .. Vnodes}

PlaceOK == place \in [Node -> [1 .. Vnodes -> Hash]]

LEMMA JoinKeeps ==
    ASSUME PlaceOK, NEW q \in Seq(Node), NEW s \in Seq(Position), NEW M, IsRing(q, s, M),
           NEW node \in Node, node \notin M
    PROVE  /\ Placed(s, node) \in Seq(Position)
           /\ IsRing(Append(q, node), Placed(s, node), M \cup {node})
<1>1. PICK n : n = Len(q)
  OBVIOUS
<1>2. PICK q2 : q2 = Append(q, node)
  OBVIOUS
<1>3. /\ n \in Nat /\ q2 \in Seq(Node) /\ Len(q2) = n + 1
      /\ \A i \in 1 .. n : q2[i] = q[i]
      /\ q2[n + 1] = node
  BY <1>1, <1>2, AppendProperties, LenProperties
<1>4. \A i \in 1 .. n : q[i] \in M
  BY <1>1 DEF IsRing, Elements
<1>5. \A a \in M : \E i \in 1 .. n : q[i] = a
  BY <1>1 DEF IsRing, Elements
<1>6. \A i \in 1 .. n + 1 : i \in 1 .. n \/ i = n + 1
  BY <1>3
<1>7. Elements(q2) = M \cup {node}
  <2>1. \A i \in 1 .. n : i \in 1 .. n + 1
    BY <1>3
  <2>2. n + 1 \in 1 .. n + 1
    BY <1>3
  <2> QED
    BY <1>3, <1>4, <1>5, <1>6, <2>1, <2>2 DEF Elements
<1>8. ASSUME NEW i \in 1 .. n + 1, NEW j \in 1 .. n + 1, q2[i] = q2[j] PROVE i = j
  <2>1. \A x, y \in 1 .. n : q[x] = q[y] => x = y
    BY <1>1 DEF IsRing
  <2> QED
    BY <1>3, <1>4, <1>6, <1>8, <2>1
<1>9. ASSUME NEW a, NEW b, Later(q, a, b) PROVE Later(q2, a, b)
  <2>1. PICK x \in 1 .. n, y \in 1 .. n : y < x /\ q[x] = a /\ q[y] = b
    BY <1>1, <1>9 DEF Later
  <2>2. x \in 1 .. n + 1 /\ y \in 1 .. n + 1
    BY <1>3
  <2> QED
    BY <1>3, <2>1, <2>2 DEF Later
<1>10. Ordered(q2, s)
  <2> SUFFICES ASSUME NEW i \in 1 .. Len(s), NEW j \in 1 .. Len(s), i < j
               PROVE  Before(q2, s[i], s[j])
    BY DEF Ordered
  <2>1. Before(q, s[i], s[j])
    BY DEF IsRing, Ordered
  <2> QED
    BY <1>9, <2>1, Zenon DEF Before
<1>11. ASSUME NEW e \in Elements(s) PROVE e.node = node \/ Later(q2, node, e.node)
  <2>1. e.node \in M
    BY DEF IsRing, Virtual
  <2>2. PICK y \in 1 .. n : q[y] = e.node
    BY <1>5, <2>1
  <2>3. y \in 1 .. n + 1 /\ n + 1 \in 1 .. n + 1 /\ y < n + 1 /\ q2[y] = e.node
    BY <1>3, <2>2
  <2> QED
    BY <1>3, <2>3 DEF Later
<1>12. /\ Placed(s, node) \in Seq(Position)
       /\ Ordered(q2, Placed(s, node))
       /\ Elements(Placed(s, node))
             = Elements(s) \cup {Virtual(node, v) : v \in 1 .. Vnodes}
  <2>1. place \in [Node -> [1 .. Vnodes -> Hash]]
    BY DEF PlaceOK
  <2> QED
    BY <1>10, <1>11, <2>1, PlacedIs
<1>13. Elements(Placed(s, node))
         = {Virtual(k, v) : k \in M \cup {node}, v \in 1 .. Vnodes}
  <2>1. Elements(s) = {Virtual(k, v) : k \in M, v \in 1 .. Vnodes}
    BY DEF IsRing
  <2> QED
    BY <1>12, <2>1
<1> QED
  BY <1>2, <1>3, <1>7, <1>8, <1>12, <1>13 DEF IsRing

\* What was taken is what the sequence has at the indices.
LEMMA TakenElements ==
    ASSUME NEW at, NEW r, NEW s, NEW I, Takes(at, r, s, I)
    PROVE  \A x : x \in Elements(r) <=> \E k \in I : x = s[k]
<1>1. \A i \in 1 .. Len(r) : at[i] \in I /\ r[i] = s[at[i]]
  BY DEF Takes
<1>2. \A k \in I : \E i \in 1 .. Len(r) : at[i] = k
  BY DEF Takes
<1> QED
  BY <1>1, <1>2 DEF Elements

LEMMA LeaveKeeps ==
    ASSUME PlaceOK, NEW q \in Seq(Node), NEW s \in Seq(Position), NEW M, IsRing(q, s, M),
           NEW node \in M,
           NEW q2, q2 = Selected(q, {i \in 1 .. Len(q) : q[i] # node})
    PROVE  /\ Without(s, node) \in Seq(Position)
           /\ q2 \in Seq(Node)
           /\ IsRing(q2, Without(s, node), M \ {node})
<1>i. PICK I : I = {i \in 1 .. Len(s) : s[i].node # node}
  OBVIOUS
<1>j. PICK J : J = {i \in 1 .. Len(q) : q[i] # node}
  OBVIOUS
<1>1. PICK r : r = Without(s, node)
  OBVIOUS
<1>2. r = Selected(s, I)
  BY <1>1, <1>i, Zenon DEF Without
<1>3. r \in Seq(Position) /\ \E at : Takes(at, r, s, I)
  <2>1. I \subseteq 1 .. Len(s)
    BY <1>i
  <2> QED
    BY <1>2, <2>1, SelectedIs, Zenon
<1>4. q2 \in Seq(Node) /\ \E to : Takes(to, q2, q, J)
  <2>1. J \subseteq 1 .. Len(q)
    BY <1>j
  <2>2. q2 = Selected(q, J)
    BY <1>j, Zenon
  <2> QED
    BY <2>1, <2>2, SelectedIs, Zenon
<1>5. PICK at : Takes(at, r, s, I)
  BY <1>3
<1>6. PICK to : Takes(to, q2, q, J)
  BY <1>4
<1>7. Elements(q2) = M \ {node}
  <2>1. \A x : x \in Elements(q2) <=> \E k \in J : x = q[k]
    BY <1>6, TakenElements
  <2>2. \A x : x \in M <=> \E k \in 1 .. Len(q) : x = q[k]
    BY DEF IsRing, Elements
  <2> QED
    BY <1>j, <2>1, <2>2
<1>8. \A i \in 1 .. Len(q2) : to[i] \in 1 .. Len(q) /\ q2[i] = q[to[i]]
  BY <1>j, <1>6 DEF Takes
<1>9. \A i, j \in 1 .. Len(q2) : i < j => to[i] < to[j]
  BY <1>j, <1>6 DEF Takes
<1>10. Len(q) \in Nat /\ Len(q2) \in Nat
  BY <1>4, LenProperties
<1>11. ASSUME NEW i \in 1 .. Len(q2), NEW j \in 1 .. Len(q2), to[i] <= to[j] PROVE i <= j
  <2> SUFFICES ASSUME j < i PROVE FALSE
    BY <1>10
  <2>1. to[j] < to[i] /\ to[i] \in 1 .. Len(q) /\ to[j] \in 1 .. Len(q)
    BY <1>8, <1>9
  <2> QED
    BY <1>10, <1>11, <2>1
<1>12. ASSUME NEW i \in 1 .. Len(q2), NEW j \in 1 .. Len(q2), q2[i] = q2[j] PROVE i = j
  <2>1. to[i] \in 1 .. Len(q) /\ to[j] \in 1 .. Len(q) /\ q[to[i]] = q[to[j]]
    BY <1>8, <1>12
  <2>2. to[i] = to[j]
    BY <2>1 DEF IsRing
  <2>3. i <= j /\ j <= i
    BY <1>10, <1>11, <2>1, <2>2
  <2> QED
    BY <1>10, <2>3
<1>13. ASSUME NEW a, NEW b, a # node, b # node, Later(q, a, b) PROVE Later(q2, a, b)
  <2>1. PICK x \in 1 .. Len(q), y \in 1 .. Len(q) : y < x /\ q[x] = a /\ q[y] = b
    BY <1>13 DEF Later
  <2>2. x \in J /\ y \in J
    BY <1>j, <1>13, <2>1
  <2>3. PICK i \in 1 .. Len(q2) : to[i] = x
    BY <1>6, <2>2 DEF Takes
  <2>4. PICK j \in 1 .. Len(q2) : to[j] = y
    BY <1>6, <2>2 DEF Takes
  <2>5. q2[i] = a /\ q2[j] = b
    BY <1>8, <2>1, <2>3, <2>4
  <2>6. j <= i /\ j # i
    BY <1>10, <1>11, <2>1, <2>3, <2>4
  <2>7. j < i
    BY <1>10, <2>6
  <2> QED
    BY <2>5, <2>7, Zenon DEF Later
<1>14. Ordered(q2, r)
  <2> SUFFICES ASSUME NEW i \in 1 .. Len(r), NEW j \in 1 .. Len(r), i < j
               PROVE  Before(q2, r[i], r[j])
    BY DEF Ordered
  <2>1. at[i] \in I /\ at[j] \in I /\ at[i] < at[j] /\ r[i] = s[at[i]] /\ r[j] = s[at[j]]
    BY <1>5 DEF Takes
  <2>2. /\ at[i] \in 1 .. Len(s) /\ at[j] \in 1 .. Len(s)
        /\ s[at[i]].node # node /\ s[at[j]].node # node
    BY <1>i, <2>1
  <2>3. Before(q, s[at[i]], s[at[j]])
    BY <2>1, <2>2 DEF IsRing, Ordered
  <2>4. Before(q, r[i], r[j]) /\ r[i].node # node /\ r[j].node # node
    BY <2>1, <2>2, <2>3
  <2> QED
    BY <1>13, <2>4, Zenon DEF Before
<1>15. Elements(r) = {Virtual(n, v) : n \in M \ {node}, v \in 1 .. Vnodes}
  <2>1. \A x : x \in Elements(r) <=> \E k \in I : x = s[k]
    BY <1>5, TakenElements, SMT
  <2>2. \A k \in 1 .. Len(s) : \E n \in M, v \in 1 .. Vnodes : s[k] = Virtual(n, v)
    <3>1. \A k \in 1 .. Len(s) : s[k] \in Elements(s)
      BY DEF Elements
    <3> QED
      BY <3>1 DEF IsRing
  <2>5. \A n \in M, v \in 1 .. Vnodes : \E k \in 1 .. Len(s) : s[k] = Virtual(n, v)
    <3>1. \A n \in M, v \in 1 .. Vnodes : Virtual(n, v) \in Elements(s)
      BY DEF IsRing
    <3> QED
      BY <3>1 DEF Elements
  <2>3. \A k \in I : s[k] \in {Virtual(n, v) : n \in M \ {node}, v \in 1 .. Vnodes}
    <3> SUFFICES ASSUME NEW k \in I
                 PROVE  s[k] \in {Virtual(n, v) : n \in M \ {node}, v \in 1 .. Vnodes}
      OBVIOUS
    <3>1. k \in 1 .. Len(s) /\ s[k].node # node
      BY <1>i
    <3>2. PICK n \in M, v \in 1 .. Vnodes : s[k] = Virtual(n, v)
      BY <2>2, <3>1
    <3>3. n # node
      BY <3>1, <3>2 DEF Virtual
    <3> QED
      BY <3>2, <3>3
  <2>4. \A n \in M \ {node}, v \in 1 .. Vnodes : \E k \in I : s[k] = Virtual(n, v)
    <3> SUFFICES ASSUME NEW n \in M \ {node}, NEW v \in 1 .. Vnodes
                 PROVE  \E k \in I : s[k] = Virtual(n, v)
      OBVIOUS
    <3>1. PICK k \in 1 .. Len(s) : s[k] = Virtual(n, v)
      BY <2>5
    <3>2. s[k].node = n
      BY <3>1 DEF Virtual
    <3> QED
      BY <1>i, <3>1, <3>2
  <2> QED
    BY <2>1, <2>3, <2>4
<1> QED
  <2>1. IsRing(q2, r, M \ {node})
    BY <1>7, <1>12, <1>14, <1>15 DEF IsRing
  <2> QED
    BY <1>1, <1>3, <1>4, <2>1, Zenon

LEMMA ModuloIs ==
    ASSUME NEW n \in Nat, n > 0, NEW a \in 0 .. n - 1
    PROVE  a % n = a /\ (a + n) % n = a
<1>1. a % n = a
  OBVIOUS
<1>2. (a + n) % n = a
  OBVIOUS
<1> QED
  BY <1>1, <1>2

\* Clockwise from h: up to the end of the circle, or past it.
LEMMA DistanceIs ==
    ASSUME NEW p, NEW h \in Hash, p.hash \in Hash
    PROVE  Distance(h, p) = IF h <= p.hash THEN p.hash - h ELSE p.hash + (MaxHash + 1) - h
<1>1. PICK x : x = p.hash
  OBVIOUS
<1>2. PICK c : c = MaxHash + 1
  OBVIOUS
<1>3. /\ MaxHash \in Nat /\ c \in Nat /\ c > 0 /\ x \in 0 .. c - 1 /\ h \in 0 .. c - 1
      /\ Distance(h, p) = (x + c - h) % c
  BY <1>1, <1>2, HashRingAssumption DEF Hash, Distance
<1>4. CASE h <= x
  <2>1. PICK a : a = x - h
    OBVIOUS
  <2>2. a \in 0 .. c - 1 /\ x + c - h = a + c
    BY <1>3, <1>4, <2>1
  <2>3. (a + c) % c = a
    BY <1>3, <2>2, ModuloIs
  <2> QED
    BY <1>1, <1>3, <1>4, <2>1, <2>2, <2>3
<1>5. CASE x < h
  <2>1. PICK a : a = x + c - h
    OBVIOUS
  <2>2. a \in 0 .. c - 1 /\ ~(h <= x)
    BY <1>3, <1>5, <2>1
  <2>3. a % c = a
    BY <1>3, <2>2, ModuloIs
  <2> QED
    BY <1>1, <1>2, <1>3, <2>1, <2>2, <2>3
<1> QED
  BY <1>3, <1>4, <1>5

LEMMA DistanceIn ==
    ASSUME NEW p, NEW h \in Hash, p.hash \in Hash
    PROVE  Distance(h, p) \in Nat
<1>1. PICK x : x = p.hash
  OBVIOUS
<1>2. h \in 0 .. MaxHash /\ x \in 0 .. MaxHash /\ MaxHash \in Nat
  BY <1>1, HashRingAssumption DEF Hash
<1>3. Distance(h, p) = IF h <= x THEN x - h ELSE x + (MaxHash + 1) - h
  BY <1>1, DistanceIs
<1>4. (IF h <= x THEN x - h ELSE x + (MaxHash + 1) - h) \in Nat
  BY <1>2
<1> QED
  BY <1>3, <1>4

(***************************************************************************)
(* A lookup finds the first of the positions that none is nearer than.     *)
(***************************************************************************)
LEMMA LookupIs ==
    ASSUME NEW s \in Seq(Position), Sorted(s), Len(s) > 0, NEW h \in Hash
    PROVE  \E k \in 1 .. Len(s) :
              /\ GetNode(s, h) = s[k].node
              /\ k = (LowerBound(s, h) % Len(s)) + 1
              /\ \A j \in 1 .. Len(s) : Distance(h, s[k]) <= Distance(h, s[j])
              /\ \A j \in 1 .. Len(s) : s[j].hash = s[k].hash => k <= j
<1>1. PICK n : n = Len(s)
  OBVIOUS
<1>2. PICK i : i = LowerBound(s, h)
  OBVIOUS
<1>3. PICK k : k = (i % n) + 1
  OBVIOUS
<1>4. /\ n \in Nat /\ n > 0 /\ i \in 0 .. n
      /\ \A j \in 1 .. i : s[j].hash < h
      /\ \A j \in i + 1 .. n : h <= s[j].hash
  BY <1>1, <1>2, LowerBoundIs, LenProperties
<1>5. GetNode(s, h) = s[k].node
  BY <1>1, <1>2, <1>3 DEF GetNode, At
<1>6. h \in Nat /\ h <= MaxHash /\ MaxHash \in Nat
  BY HashRingAssumption DEF Hash
<1>7. ASSUME NEW j \in 1 .. n
      PROVE  /\ s[j].hash \in Nat /\ s[j].hash <= MaxHash
             /\ Distance(h, s[j]) = IF h <= s[j].hash THEN s[j].hash - h
                                    ELSE s[j].hash + (MaxHash + 1) - h
  <2>1. s[j] \in Position
    BY <1>1, ElementOfSeq
  <2>2. s[j].hash \in Hash
    BY <2>1 DEF Position
  <2> QED
    BY <1>6, <2>2, DistanceIs DEF Hash
<1>8. \A a, b \in 1 .. n : a <= b => s[a].hash <= s[b].hash
  BY <1>1 DEF Sorted
<1>9. CASE i = n
  <2>1. n % n = 0
    <3>1. 0 \in 0 .. n - 1 /\ 0 + n = n
      BY <1>4
    <3>2. (0 + n) % n = 0
      BY <1>4, <3>1, ModuloIs
    <3> QED
      BY <3>1, <3>2
  <2>2. k = 1 /\ k \in 1 .. n
    BY <1>3, <1>4, <1>9, <2>1
  <2>3. ASSUME NEW j \in 1 .. n PROVE Distance(h, s[k]) <= Distance(h, s[j]) /\ k <= j
    <3>1. s[j].hash < h /\ s[k].hash < h /\ s[k].hash <= s[j].hash
      BY <1>4, <1>8, <1>9, <2>2
    <3> QED
      BY <1>4, <1>6, <1>7, <2>2, <3>1
  <2> QED
    BY <1>1, <1>2, <1>3, <1>5, <2>2, <2>3
<1>10. CASE i < n
  <2>1. i \in 0 .. n - 1
    BY <1>4, <1>10
  <2>2. k = i + 1 /\ k \in 1 .. n
    <3>1. i % n = i
      BY <1>4, <2>1, ModuloIs
    <3> QED
      BY <1>3, <1>4, <2>1, <3>1
  <2>3. h <= s[k].hash
    BY <1>4, <1>10, <2>2
  <2>4. ASSUME NEW j \in 1 .. n
        PROVE  /\ Distance(h, s[k]) <= Distance(h, s[j])
               /\ s[j].hash = s[k].hash => k <= j
    <3>1. CASE j < k
      <4>1. s[j].hash < h
        BY <1>4, <2>2, <3>1
      <4> QED
        BY <1>6, <1>7, <2>2, <2>3, <4>1
    <3>2. CASE k <= j
      <4>1. s[k].hash <= s[j].hash
        BY <1>8, <2>2, <3>2
      <4> QED
        BY <1>6, <1>7, <2>2, <2>3, <3>2, <4>1
    <3> QED
      BY <1>4, <2>2, <3>1, <3>2
  <2> QED
    BY <1>1, <1>2, <1>3, <1>5, <2>2, <2>4
<1> QED
  BY <1>4, <1>9, <1>10

\* Walking the whole ring passes every position.
LEMMA WalkIsOnto ==
    ASSUME NEW n \in Nat, n > 0, NEW start \in 0 .. n, NEW y \in 1 .. n
    PROVE  \E i \in 1 .. n : (start + i - 1) % n = y - 1
<1>1. CASE start <= y - 1
  <2>1. PICK i : i = y - start
    OBVIOUS
  <2>2. i \in 1 .. n /\ start + i - 1 = y - 1 /\ y - 1 \in 0 .. n - 1
    BY <1>1, <2>1
  <2>3. (y - 1) % n = y - 1
    BY <2>2, ModuloIs
  <2> QED
    BY <2>2, <2>3
<1>2. CASE y - 1 < start
  <2>1. PICK i : i = y - start + n
    OBVIOUS
  <2>2. i \in 1 .. n /\ start + i - 1 = (y - 1) + n /\ y - 1 \in 0 .. n - 1
    BY <1>2, <2>1
  <2>3. ((y - 1) + n) % n = y - 1
    BY <2>2, ModuloIs
  <2> QED
    BY <2>2, <2>3
<1> QED
  BY <1>1, <1>2

NodesOf(s) == {s[y].node : y \in 1 .. Len(s)}

(***************************************************************************)
(* The list of all the nodes starts with the one that a lookup finds, and  *)
(* has every node of the ring once.                                        *)
(***************************************************************************)
LEMMA NodesAre ==
    ASSUME NEW s \in Seq(Position), Sorted(s), Len(s) > 0, NEW h \in Hash,
           NEW all, all = GetNodes(s, h, Len(s))
    PROVE  /\ all[1] = GetNode(s, h)
           /\ Elements(all) = NodesOf(s)
           /\ \A i, j \in 1 .. Len(all) : all[i] = all[j] => i = j
<1> DEFINE n == Len(s)
           start == LowerBound(s, h)
           walk == [i \in 1 .. n |-> At(s, (start + i - 1) % n).node]
           ids == [i \in 1 .. n |-> i]
           I == {i \in 1 .. n : \A j \in 1 .. i - 1 : walk[j] # walk[i]}
           first == Selected(ids, I)
<1>1. n = Len(s) /\ start = LowerBound(s, h)
  OBVIOUS
<1>4. walk = [i \in 1 .. n |-> At(s, (start + i - 1) % n).node]
  OBVIOUS
<1>5. ids = [i \in 1 .. n |-> i]
  OBVIOUS
<1>8. all = [i \in 1 .. (IF n < Len(first) THEN n ELSE Len(first)) |-> walk[first[i]]]
  BY Zenon DEF GetNodes
<1> HIDE DEF n, start, walk, ids
<1>6. I = {i \in 1 .. n : \A j \in 1 .. i - 1 : walk[j] # walk[i]}
  OBVIOUS
<1> HIDE DEF I
<1>7. first = Selected(ids, I)
  OBVIOUS
<1> HIDE DEF first
<1>3. n \in Nat /\ n > 0 /\ start \in 0 .. n
  BY <1>1, LowerBoundIs, LenProperties
<1>9. ids \in Seq(Nat) /\ Len(ids) = n /\ \A i \in 1 .. n : ids[i] = i
  <2>1. ids \in [1 .. n -> Nat]
    BY <1>5
  <2>2. ids \in Seq(Nat)
    BY <1>3, <2>1, SeqDef
  <2>3. Len(ids) = n
    BY <1>3, <2>1, <2>2, LenProperties
  <2> QED
    BY <1>5, <2>2, <2>3
<1>10. first \in Seq(Nat) /\ Len(first) <= n /\ \E at : Takes(at, first, ids, I)
  <2>1. I \subseteq 1 .. Len(ids)
    BY <1>6, <1>9
  <2> QED
    BY <1>7, <1>9, <2>1, SelectedIs
<1>11. PICK at : Takes(at, first, ids, I)
  BY <1>10
<1>12. PICK c : c = Len(first)
  OBVIOUS
<1>13. /\ c \in Nat /\ c <= n
       /\ \A i \in 1 .. c : first[i] \in I /\ first[i] \in 1 .. n
       /\ \A i, j \in 1 .. c : i < j => first[i] < first[j]
       /\ \A k \in I : \E i \in 1 .. c : first[i] = k
  <2>1. c \in Nat /\ c <= n
    BY <1>10, <1>12, LenProperties
  <2>2. \A i \in 1 .. c : at[i] \in I /\ at[i] \in 1 .. n
    BY <1>6, <1>11, <1>12 DEF Takes
  <2>3. \A i \in 1 .. c : first[i] = at[i]
    BY <1>9, <1>11, <1>12, <2>2 DEF Takes
  <2>4. \A i, j \in 1 .. c : i < j => at[i] < at[j]
    BY <1>11, <1>12 DEF Takes
  <2>5. \A k \in I : \E i \in 1 .. c : at[i] = k
    BY <1>11, <1>12 DEF Takes
  <2> QED
    BY <2>1, <2>2, <2>3, <2>4, <2>5
<1>14. /\ all = [i \in 1 .. c |-> walk[first[i]]]
       /\ \A i \in 1 .. c : all[i] = walk[first[i]]
       /\ Len(all) = c
  <2>1. (IF n < c THEN n ELSE c) = c
    BY <1>3, <1>13
  <2>2. all = [i \in 1 .. c |-> walk[first[i]]]
    BY <1>8, <1>12, <2>1
  <2>3. all \in [1 .. c -> {walk[first[i]] : i \in 1 .. c}]
    BY <2>2
  <2>4. PICK V : V = {walk[first[i]] : i \in 1 .. c}
    OBVIOUS
  <2>a. all \in [1 .. c -> V]
    BY <2>3, <2>4
  <2>5. all \in Seq(V) /\ DOMAIN all = 1 .. c
    BY <1>13, <2>a, SeqDef
  <2>6. Len(all) = c
    BY <1>13, <2>5, LenProperties
  <2> QED
    BY <2>2, <2>6
<1>15. \A i \in 1 .. n : walk[i] = s[((start + i - 1) % n) + 1].node
  BY <1>4 DEF At
<1>16. all[1] = GetNode(s, h)
  <2>1. 1 \in I
    BY <1>3, <1>6
  <2>2. PICK i \in 1 .. c : first[i] = 1
    BY <1>13, <2>1
  <2>3. i = 1
    <3> SUFFICES ASSUME 1 < i PROVE FALSE
      BY <1>13
    <3>1. 1 \in 1 .. c
      BY <1>13
    <3>2. first[1] < first[i] /\ first[1] \in 1 .. n
      BY <1>13, <3>1
    <3> QED
      BY <1>3, <2>2, <3>2
  <2>4. all[1] = walk[1]
    BY <1>14, <2>2, <2>3
  <2>5. walk[1] = s[(start % n) + 1].node
    <3>1. 1 \in 1 .. n /\ start + 1 - 1 = start
      BY <1>3
    <3> QED
      BY <1>15, <3>1
  <2>6. GetNode(s, h) = s[(start % n) + 1].node
    BY <1>1 DEF GetNode, At
  <2> QED
    BY <2>4, <2>5, <2>6
<1>17. ASSUME NEW i \in 1 .. c PROVE \E y \in 1 .. n : s[y].node = all[i]
  <2>1. PICK k : k = first[i]
    OBVIOUS
  <2>2. k \in 1 .. n /\ all[i] = walk[k]
    BY <1>13, <1>14, <2>1
  <2>3. ((start + k - 1) % n) + 1 \in 1 .. n
    <3>1. PICK a : a = start + k - 1
      OBVIOUS
    <3>2. a \in Nat
      BY <1>3, <2>2, <3>1
    <3>3. a % n \in 0 .. n - 1
      BY <1>3, <3>2
    <3> QED
      BY <1>3, <3>1, <3>3
  <2> QED
    BY <1>15, <2>2, <2>3
<1>18. ASSUME NEW y \in 1 .. n PROVE \E i \in 1 .. c : all[i] = s[y].node
  <2>1. PICK k \in 1 .. n : (start + k - 1) % n = y - 1
    BY <1>3, WalkIsOnto
  <2>2. walk[k] = s[y].node
    BY <1>15, <2>1
  <2> DEFINE K == {j \in 1 .. n : walk[j] = s[y].node}
  <2>3. K \subseteq Nat /\ K # {}
    BY <2>2
  <2>4. PICK l \in K : \A j \in K : l <= j
    <3> HIDE DEF K
    <3> QED
      BY <2>3, LeastExists
  <2>5. l \in 1 .. n /\ walk[l] = s[y].node
    OBVIOUS
  <2>6. ASSUME NEW j \in 1 .. l - 1 PROVE walk[j] # walk[l]
    <3>1. j \in 1 .. n /\ ~(l <= j)
      BY <1>3, <2>5
    <3> QED
      BY <2>4, <2>5, <3>1
  <2>7. l \in I
    BY <1>6, <2>5, <2>6
  <2>8. PICK i \in 1 .. c : first[i] = l
    BY <1>13, <2>7
  <2> QED
    BY <1>14, <2>5, <2>8
<1>19. ASSUME NEW i \in 1 .. c, NEW j \in 1 .. c, all[i] = all[j] PROVE i = j
  <2>1. ASSUME NEW a \in 1 .. c, NEW b \in 1 .. c, a < b, all[a] = all[b] PROVE FALSE
    <3>1. first[a] \in 1 .. n /\ first[b] \in I /\ first[a] < first[b] /\ first[b] \in 1 .. n
      BY <1>13, <2>1
    <3>2. first[a] \in 1 .. first[b] - 1
      BY <1>3, <3>1
    <3>3. walk[first[a]] # walk[first[b]]
      BY <1>6, <3>1, <3>2
    <3> QED
      BY <1>14, <2>1, <3>3
  <2> QED
    BY <1>13, <1>19, <2>1
<1>23. n = Len(s) /\ c = Len(all)
  BY <1>1, <1>14
<1>20. ASSUME NEW x \in Elements(all) PROVE x \in NodesOf(s)
  <2>1. PICK i \in 1 .. Len(all) : x = all[i]
    BY DEF Elements
  <2>2. PICK y \in 1 .. n : s[y].node = all[i]
    BY <1>17, <1>23
  <2> QED
    BY <1>23, <2>1, <2>2 DEF NodesOf
<1>21. ASSUME NEW x \in NodesOf(s) PROVE x \in Elements(all)
  <2>1. PICK y \in 1 .. Len(s) : x = s[y].node
    BY DEF NodesOf
  <2>2. PICK i \in 1 .. c : all[i] = s[y].node
    BY <1>18, <1>23
  <2> QED
    BY <1>23, <2>1, <2>2 DEF Elements
<1>22. Elements(all) = NodesOf(s)
  BY <1>20, <1>21
<1> QED
  BY <1>14, <1>16, <1>19, <1>22

\* r has the members of both in the order of q.
InOrderOf(q, r, M, N) == \A a, b \in M \cap N : Later(r, a, b) => Later(q, a, b)

\* Neither changes the order of the others.
LEMMA JoinOrder ==
    ASSUME NEW q \in Seq(Node), NEW node \in Node, NEW a, NEW b, a # node, b # node,
           Later(Append(q, node), a, b)
    PROVE  Later(q, a, b)
<1>1. PICK r : r = Append(q, node)
  OBVIOUS
<1>2. PICK n : n = Len(q)
  OBVIOUS
<1>3. n \in Nat /\ Len(r) = n + 1 /\ r[n + 1] = node /\ \A i \in 1 .. n : r[i] = q[i]
  BY <1>1, <1>2, AppendProperties, LenProperties
<1>4. PICK x \in 1 .. n + 1, y \in 1 .. n + 1 : y < x /\ r[x] = a /\ r[y] = b
  BY <1>1, <1>3 DEF Later
<1>5. x \in 1 .. n /\ y \in 1 .. n
  BY <1>3, <1>4
<1> QED
  BY <1>2, <1>3, <1>4, <1>5 DEF Later

LEMMA LeaveOrder ==
    ASSUME NEW q \in Seq(Node), NEW J, J \subseteq 1 .. Len(q), NEW a, NEW b,
           Later(Selected(q, J), a, b)
    PROVE  Later(q, a, b)
<1>1. PICK r : r = Selected(q, J)
  OBVIOUS
<1>2. \E at : Takes(at, r, q, J)
  BY <1>1, SelectedIs, Zenon
<1>3. PICK at : Takes(at, r, q, J)
  BY <1>2
<1>4. PICK x \in 1 .. Len(r), y \in 1 .. Len(r) : y < x /\ r[x] = a /\ r[y] = b
  BY <1>1 DEF Later
<1>5. at[y] < at[x] /\ at[x] \in 1 .. Len(q) /\ at[y] \in 1 .. Len(q)
  BY <1>3, <1>4 DEF Takes
<1>6. q[at[x]] = a /\ q[at[y]] = b
  BY <1>3, <1>4 DEF Takes
<1> QED
  BY <1>5, <1>6 DEF Later

-----------------------------------------------------------------------------
(***************************************************************************)
(* The invariant of the rings.                                             *)
(***************************************************************************)
HashRingInv ==
    /\ HashRingTypeOK
    /\ \A m \in Matcher : IsRing(added[m], ring[m], member[m])

LEMMA HashRingInitInv == HashRingInit => HashRingInv
<1> SUFFICES ASSUME HashRingInit PROVE HashRingInv
  OBVIOUS
<1>1. /\ place \in [Node -> [1 .. Vnodes -> Hash]]
      /\ \A m \in Matcher : ring[m] = <<>> /\ member[m] = {} /\ added[m] = <<>>
  BY DEF HashRingInit
<1>2. HashRingTypeOK
  <2>1. ring \in [Matcher -> Seq(Position)] /\ added \in [Matcher -> Seq(Node)]
    BY EmptySeq DEF HashRingInit
  <2>2. member \in [Matcher -> SUBSET Node]
    BY DEF HashRingInit
  <2> QED
    BY <1>1, <2>1, <2>2 DEF HashRingTypeOK
<1>3. IsRing(<<>>, <<>>, {})
  <2>1. Len(<<>>) = 0
    BY EmptySeq
  <2>2. 1 .. 0 = {}
    OBVIOUS
  <2> QED
    BY <2>1, <2>2 DEF IsRing, Elements, Ordered
<1> QED
  BY <1>1, <1>2, <1>3 DEF HashRingInv

(***************************************************************************)
(* A member that joins or leaves changes one replica's ring, which stays   *)
(* one, and leaves the others of it in their order.                        *)
(***************************************************************************)
RingMoves(m, q2, s2, M2) ==
    /\ IsRing(q2, s2, M2)
    /\ added' = [added EXCEPT ![m] = q2]
    /\ ring' = [ring EXCEPT ![m] = s2]
    /\ member' = [member EXCEPT ![m] = M2]
    /\ InOrderOf(added[m], q2, member[m], M2)

LEMMA RingMove ==
    ASSUME HashRingInv, NEW m \in Matcher, NEW node \in Node,
           AddNode(m, node) \/ RemoveNode(m, node)
    PROVE  \E q2 \in Seq(Node), s2 \in Seq(Position), M2 \in SUBSET Node :
              RingMoves(m, q2, s2, M2)
<1>1. /\ place \in [Node -> [1 .. Vnodes -> Hash]] /\ place' = place
      /\ ring \in [Matcher -> Seq(Position)]
      /\ member \in [Matcher -> SUBSET Node]
      /\ added \in [Matcher -> Seq(Node)]
      /\ \A o \in Matcher : IsRing(added[o], ring[o], member[o])
  BY DEF HashRingInv, HashRingTypeOK, AddNode, RemoveNode
<1>2. PICK q : q = added[m]
  OBVIOUS
<1>3. PICK s : s = ring[m]
  OBVIOUS
<1>4. PICK M : M = member[m]
  OBVIOUS
<1>5. q \in Seq(Node) /\ s \in Seq(Position) /\ M \in SUBSET Node /\ IsRing(q, s, M)
  BY <1>1, <1>2, <1>3, <1>4
<1>6. PlaceOK
  BY <1>1 DEF PlaceOK
<1>7. CASE AddNode(m, node)
  <2>1. node \notin M
    BY <1>4, <1>7 DEF AddNode
  <2>2. /\ Placed(s, node) \in Seq(Position)
        /\ IsRing(Append(q, node), Placed(s, node), M \cup {node})
    BY <1>5, <1>6, <2>1, JoinKeeps
  <2>3. Append(q, node) \in Seq(Node) /\ M \cup {node} \in SUBSET Node
    BY <1>5, AppendProperties
  <2>4. /\ added' = [added EXCEPT ![m] = Append(q, node)]
        /\ ring' = [ring EXCEPT ![m] = Placed(s, node)]
        /\ member' = [member EXCEPT ![m] = M \cup {node}]
    BY <1>2, <1>3, <1>4, <1>7 DEF AddNode
  <2>5. ASSUME NEW a \in M, NEW b \in M, Later(Append(q, node), a, b) PROVE Later(q, a, b)
    BY <1>5, <2>1, <2>5, JoinOrder
  <2>6. InOrderOf(q, Append(q, node), M, M \cup {node})
    BY <2>5 DEF InOrderOf
  <2> QED
    BY <1>2, <1>4, <2>2, <2>3, <2>4, <2>6 DEF RingMoves
<1>8. CASE RemoveNode(m, node)
  <2>1. node \in M
    BY <1>4, <1>8 DEF RemoveNode
  <2>2. PICK J : J = {i \in 1 .. Len(q) : q[i] # node}
    OBVIOUS
  <2>3. PICK q2 : q2 = Selected(q, J)
    OBVIOUS
  <2>4. /\ Without(s, node) \in Seq(Position)
        /\ q2 \in Seq(Node)
        /\ IsRing(q2, Without(s, node), M \ {node})
    BY <1>5, <1>6, <2>1, <2>2, <2>3, LeaveKeeps
  <2>5. M \ {node} \in SUBSET Node
    BY <1>5
  <2>6. /\ added' = [added EXCEPT ![m] = q2]
        /\ ring' = [ring EXCEPT ![m] = Without(s, node)]
        /\ member' = [member EXCEPT ![m] = M \ {node}]
    BY <1>2, <1>3, <1>4, <1>8, <2>2, <2>3 DEF RemoveNode
  <2>7. ASSUME NEW a, NEW b, Later(q2, a, b) PROVE Later(q, a, b)
    <3>1. J \subseteq 1 .. Len(q)
      BY <2>2
    <3> QED
      BY <1>5, <2>3, <2>7, <3>1, LeaveOrder
  <2>8. InOrderOf(q, q2, M, M \ {node})
    BY <2>7 DEF InOrderOf
  <2> QED
    BY <1>2, <1>4, <2>4, <2>5, <2>6, <2>8 DEF RingMoves
<1> QED
  BY <1>7, <1>8

LEMMA HashRingStep ==
    ASSUME HashRingInv, NEW m \in Matcher, NEW node \in Node,
           AddNode(m, node) \/ RemoveNode(m, node)
    PROVE  HashRingInv'
<1>1. /\ place \in [Node -> [1 .. Vnodes -> Hash]] /\ place' = place
      /\ ring \in [Matcher -> Seq(Position)]
      /\ member \in [Matcher -> SUBSET Node]
      /\ added \in [Matcher -> Seq(Node)]
      /\ \A o \in Matcher : IsRing(added[o], ring[o], member[o])
  BY DEF HashRingInv, HashRingTypeOK, AddNode, RemoveNode
<1>7. PICK q2 \in Seq(Node), s2 \in Seq(Position), M2 \in SUBSET Node :
         /\ IsRing(q2, s2, M2)
         /\ added' = [added EXCEPT ![m] = q2]
         /\ ring' = [ring EXCEPT ![m] = s2]
         /\ member' = [member EXCEPT ![m] = M2]
  <2>1. PICK q2 \in Seq(Node), s2 \in Seq(Position), M2 \in SUBSET Node :
           RingMoves(m, q2, s2, M2)
    BY RingMove
  <2> QED
    BY <2>1 DEF RingMoves
<1>11. place' = place
  BY <1>1
<1>8. HashRingTypeOK'
  BY <1>1, <1>7 DEF HashRingTypeOK
<1>9. ASSUME NEW o \in Matcher PROVE IsRing(added[o], ring[o], member[o])'
  <2>1. CASE o = m
    <3>1. added'[o] = q2 /\ ring'[o] = s2 /\ member'[o] = M2
      BY <1>1, <1>7, <2>1
    <3>2. IsRing(q2, s2, M2)
      BY <1>7
    <3> QED
      BY <1>11, <3>1, <3>2 DEF IsRing, Virtual
  <2>2. CASE o # m
    <3>1. PICK q3 : q3 = added[o]
      OBVIOUS
    <3>2. PICK s3 : s3 = ring[o]
      OBVIOUS
    <3>3. PICK M3 : M3 = member[o]
      OBVIOUS
    <3>4. IsRing(q3, s3, M3)
      BY <1>1, <3>1, <3>2, <3>3
    <3>5. added'[o] = q3 /\ ring'[o] = s3 /\ member'[o] = M3
      BY <1>1, <1>7, <2>2, <3>1, <3>2, <3>3
    <3> QED
      BY <1>11, <3>4, <3>5 DEF IsRing, Virtual
  <2> QED
    BY <2>1, <2>2
<1> QED
  BY <1>8, <1>9 DEF HashRingInv

LEMMA HashRingInvHolds == HashRingSpec => []HashRingInv
<1>1. HashRingInv /\ [HashRingNext]_ringVars => HashRingInv'
  <2> SUFFICES ASSUME HashRingInv, [HashRingNext]_ringVars PROVE HashRingInv'
    OBVIOUS
  <2>1. CASE HashRingNext
    BY <2>1, HashRingStep DEF HashRingNext
  <2>2. CASE UNCHANGED ringVars
    BY <2>2 DEF ringVars, HashRingInv, HashRingTypeOK, IsRing, Virtual
  <2> QED
    BY <2>1, <2>2
<1> QED
  BY HashRingInitInv, <1>1, PTL DEF HashRingSpec

\* The variables of the rings have their types.
THEOREM HashRingTypeCorrect == HashRingSpec => []HashRingTypeOK
<1>1. HashRingInv => HashRingTypeOK
  BY DEF HashRingInv
<1> QED
  BY <1>1, HashRingInvHolds, PTL

\* A ring that has members has positions, and they are those of its members.
LEMMA RingHasMembers ==
    ASSUME PlaceOK, NEW q, NEW s \in Seq(Position), NEW M, IsRing(q, s, M)
    PROVE  /\ Sorted(s)
           /\ M # {} => Len(s) > 0
           /\ NodesOf(s) = M
           /\ \A y \in 1 .. Len(s) : \E n \in M, v \in 1 .. Vnodes : s[y] = Virtual(n, v)
<1>1. Sorted(s)
  BY OrderedIsSorted DEF IsRing
<1>2. ASSUME NEW n \in M PROVE \E y \in 1 .. Len(s) : s[y].node = n
  <2>1. 1 \in 1 .. Vnodes
    BY HashRingAssumption
  <2>2. Virtual(n, 1) \in Elements(s)
    BY <2>1 DEF IsRing
  <2>3. PICK y \in 1 .. Len(s) : s[y] = Virtual(n, 1)
    BY <2>2 DEF Elements
  <2> QED
    BY <2>3 DEF Virtual
<1>a. ASSUME NEW y \in 1 .. Len(s)
      PROVE  \E n \in M, v \in 1 .. Vnodes : s[y] = Virtual(n, v)
  <2>1. s[y] \in Elements(s)
    BY DEF Elements
  <2> QED
    BY <2>1 DEF IsRing
<1>3. ASSUME NEW y \in 1 .. Len(s) PROVE s[y].node \in M
  <2>1. PICK n \in M, v \in 1 .. Vnodes : s[y] = Virtual(n, v)
    BY <1>a
  <2> QED
    BY <2>1 DEF Virtual
<1>5. NodesOf(s) = M
  BY <1>2, <1>3 DEF NodesOf
<1>4. M # {} => Len(s) > 0
  <2> SUFFICES ASSUME M # {} PROVE Len(s) > 0
    OBVIOUS
  <2>1. PICK n \in M : TRUE
    OBVIOUS
  <2>2. PICK y \in 1 .. Len(s) : s[y].node = n
    BY <1>2
  <2> QED
    BY <2>2, LenProperties
<1> QED
  BY <1>1, <1>4, <1>5, <1>a

(***************************************************************************)
(* Whatever the hashes and whoever came and went: a lookup finds a node    *)
(* that none is nearer than clockwise, also past the end of the ring, and  *)
(* the list of the nodes starts with it and has every member once          *)
(* (ConsistentHashRing's getNode and getNodes).                            *)
(***************************************************************************)
THEOREM LookupIsClockwise == HashRingSpec => []Clockwise
<1>1. HashRingInv => Clockwise
  <2> SUFFICES ASSUME HashRingInv, NEW m \in Matcher, member[m] # {}
               PROVE  /\ Len(ring[m]) > 0
                      /\ \A h \in Hash :
                            LET all == GetNodes(ring[m], h, Len(ring[m])) IN
                            /\ GetNode(ring[m], h) \in Nearest(m, h)
                            /\ all[1] = GetNode(ring[m], h)
                            /\ {all[i] : i \in 1 .. Len(all)} = member[m]
                            /\ \A i, j \in 1 .. Len(all) : all[i] = all[j] => i = j
    BY DEF Clockwise
  <2>1. PICK s : s = ring[m]
    OBVIOUS
  <2>2. PICK M : M = member[m]
    OBVIOUS
  <2>3. PlaceOK /\ s \in Seq(Position) /\ IsRing(added[m], s, M) /\ M # {}
    BY <2>1, <2>2 DEF HashRingInv, HashRingTypeOK, PlaceOK
  <2>4. Sorted(s) /\ Len(s) > 0 /\ NodesOf(s) = M
    BY <2>3, RingHasMembers, Zenon
  <2>5. ASSUME NEW h \in Hash
        PROVE  LET all == GetNodes(ring[m], h, Len(ring[m])) IN
               /\ GetNode(ring[m], h) \in Nearest(m, h)
               /\ all[1] = GetNode(ring[m], h)
               /\ {all[i] : i \in 1 .. Len(all)} = member[m]
               /\ \A i, j \in 1 .. Len(all) : all[i] = all[j] => i = j
    <3>1. PICK all : all = GetNodes(s, h, Len(s))
      OBVIOUS
    <3>2. /\ all[1] = GetNode(s, h)
          /\ Elements(all) = NodesOf(s)
          /\ \A i, j \in 1 .. Len(all) : all[i] = all[j] => i = j
      BY <2>3, <2>4, <3>1, NodesAre
    <3>4. PICK k \in 1 .. Len(s) :
             /\ GetNode(s, h) = s[k].node
             /\ \A j \in 1 .. Len(s) : Distance(h, s[k]) <= Distance(h, s[j])
      BY <2>3, <2>4, LookupIs
    <3>5. GetNode(s, h) \in Nearest(m, h)
      BY <2>1, <3>4 DEF Nearest
    <3> QED
      BY <2>1, <2>2, <2>4, <3>1, <3>2, <3>5 DEF Elements
  <2> QED
    BY <2>1, <2>4, <2>5
<1> QED
  BY <1>1, HashRingInvHolds, PTL

\* The distance tells the hashes apart.
LEMMA DistanceTells ==
    ASSUME NEW h \in Hash, NEW e, NEW f, e.hash \in Hash, f.hash \in Hash,
           Distance(h, e) = Distance(h, f)
    PROVE  e.hash = f.hash
<1>1. PICK x : x = e.hash
  OBVIOUS
<1>2. PICK y : y = f.hash
  OBVIOUS
<1>3. (IF h <= x THEN x - h ELSE x + (MaxHash + 1) - h)
        = (IF h <= y THEN y - h ELSE y + (MaxHash + 1) - h)
  BY <1>1, <1>2, DistanceIs
<1>4. h \in 0 .. MaxHash /\ x \in 0 .. MaxHash /\ y \in 0 .. MaxHash /\ MaxHash \in Nat
  BY <1>1, <1>2, HashRingAssumption DEF Hash
<1>5. x = y
  BY <1>3, <1>4
<1> QED
  BY <1>1, <1>2, <1>5

\* What is found is a member.
LEMMA FoundIsMember ==
    ASSUME PlaceOK, NEW h \in Hash, NEW q, NEW s \in Seq(Position), NEW M, IsRing(q, s, M),
           M # {}
    PROVE  GetNode(s, h) \in M
<1>1. Sorted(s) /\ Len(s) > 0 /\ NodesOf(s) = M
  BY RingHasMembers, Zenon
<1>2. PICK k \in 1 .. Len(s) : GetNode(s, h) = s[k].node
  BY <1>1, LookupIs
<1> QED
  BY <1>1, <1>2 DEF NodesOf

(***************************************************************************)
(* Two rings find one node, if what either of them finds is a member of    *)
(* the other, and they have the order of their members in common.          *)
(***************************************************************************)
LEMMA FoundIsOne ==
    ASSUME PlaceOK, NEW h \in Hash,
           NEW q, NEW s \in Seq(Position), NEW M, M \subseteq Node, IsRing(q, s, M), M # {},
           NEW r, NEW t \in Seq(Position), NEW N, N \subseteq Node, IsRing(r, t, N), N # {},
           GetNode(s, h) \in N, GetNode(t, h) \in M,
           NoCollision \/ InOrderOf(q, r, M, N)
    PROVE  GetNode(s, h) = GetNode(t, h)
<1>1. PICK k \in 1 .. Len(s) :
         /\ GetNode(s, h) = s[k].node
         /\ \A j \in 1 .. Len(s) : Distance(h, s[k]) <= Distance(h, s[j])
         /\ \A j \in 1 .. Len(s) : s[j].hash = s[k].hash => k <= j
  BY RingHasMembers, LookupIs
<1>2. PICK l \in 1 .. Len(t) :
         /\ GetNode(t, h) = t[l].node
         /\ \A j \in 1 .. Len(t) : Distance(h, t[l]) <= Distance(h, t[j])
         /\ \A j \in 1 .. Len(t) : t[j].hash = t[l].hash => l <= j
  BY RingHasMembers, LookupIs
<1>10. PICK a \in M, v \in 1 .. Vnodes : s[k] = Virtual(a, v)
  <2>1. \A y \in 1 .. Len(s) : \E n \in M, u \in 1 .. Vnodes : s[y] = Virtual(n, u)
    BY RingHasMembers, Zenon
  <2> QED
    BY <2>1
<1>11. PICK b \in N, w \in 1 .. Vnodes : t[l] = Virtual(b, w)
  <2>1. \A y \in 1 .. Len(t) : \E n \in N, u \in 1 .. Vnodes : t[y] = Virtual(n, u)
    BY RingHasMembers, Zenon
  <2> QED
    BY <2>1
<1>3. a \in N /\ b \in M
  BY <1>1, <1>2, <1>10, <1>11 DEF Virtual
<1>4. PICK j \in 1 .. Len(s) : s[j] = t[l]
  <2>1. t[l] \in Elements(s)
    BY <1>3, <1>11 DEF IsRing
  <2> QED
    BY <2>1 DEF Elements
<1>5. PICK i \in 1 .. Len(t) : t[i] = s[k]
  <2>1. s[k] \in Elements(t)
    BY <1>3, <1>10 DEF IsRing
  <2> QED
    BY <2>1 DEF Elements
<1>6. s[k] \in Position /\ t[l] \in Position
  BY ElementOfSeq
<1>7. s[k].hash = t[l].hash
  <2>1. Distance(h, s[k]) <= Distance(h, t[l]) /\ Distance(h, t[l]) <= Distance(h, s[k])
    BY <1>1, <1>2, <1>4, <1>5
  <2>2. s[k].hash \in Hash /\ t[l].hash \in Hash
    BY <1>6 DEF Position
  <2>3. Distance(h, s[k]) \in Nat /\ Distance(h, t[l]) \in Nat
    BY <2>2, DistanceIn
  <2>4. Distance(h, s[k]) = Distance(h, t[l])
    BY <2>1, <2>3
  <2> QED
    BY <2>2, <2>4, DistanceTells
<1>8. Before(q, s[k], t[l]) \/ s[k] = t[l]
  <2>1. k <= j /\ k \in Nat /\ j \in Nat
    BY <1>1, <1>4, <1>7
  <2>2. CASE k = j
    BY <1>4, <2>2
  <2>3. CASE k < j
    BY <1>4, <2>3 DEF IsRing, Ordered
  <2> QED
    BY <2>1, <2>2, <2>3
<1>9. Before(r, t[l], s[k]) \/ s[k] = t[l]
  <2>1. l <= i /\ l \in Nat /\ i \in Nat
    BY <1>2, <1>5, <1>7
  <2>2. CASE l = i
    BY <1>5, <2>2
  <2>3. CASE l < i
    BY <1>5, <2>3 DEF IsRing, Ordered
  <2> QED
    BY <2>1, <2>2, <2>3
<1>12. s[k].node = a /\ t[l].node = b /\ place[a][v] = place[b][w]
  BY <1>7, <1>10, <1>11 DEF Virtual
<1>13. ASSUME a # b PROVE FALSE
  <2>1. ~ NoCollision
    BY <1>12, <1>13 DEF NoCollision
  <2>2. s[k].hash \in Nat
    BY <1>6 DEF Position, Hash
  <2>6. Later(q, a, b) /\ Later(r, b, a)
    BY <1>7, <1>8, <1>9, <1>12, <1>13, <2>2 DEF Before
  <2>3. Later(q, a, b) /\ Later(q, b, a)
    BY <1>3, <2>1, <2>6 DEF InOrderOf
  <2>4. PICK x \in 1 .. Len(q), y \in 1 .. Len(q) : y < x /\ q[x] = a /\ q[y] = b
    BY <2>3 DEF Later
  <2>5. PICK x2 \in 1 .. Len(q), y2 \in 1 .. Len(q) : y2 < x2 /\ q[x2] = b /\ q[y2] = a
    BY <2>3 DEF Later
  <2>7. x = y2 /\ y = x2
    BY <2>4, <2>5 DEF IsRing
  <2> QED
    BY <2>4, <2>5, <2>7
<1> QED
  BY <1>1, <1>2, <1>12, <1>13

(***************************************************************************)
(* Two replicas with the same members, who were added in the same order or *)
(* whose positions do not collide, find the same node for every driver,    *)
(* so that one of them at most handles a ping (the matcher's consumer of   *)
(* the pings, which drops those of drivers that are not its own).          *)
(***************************************************************************)
THEOREM RingsDoAgree == HashRingSpec => []RingsAgree
<1>1. HashRingInv => RingsAgree
  <2> SUFFICES ASSUME HashRingInv, NEW m \in Matcher, NEW o \in Matcher,
                      member[m] = member[o], member[m] # {},
                      added[m] = added[o] \/ NoCollision, NEW h \in Hash
               PROVE  /\ GetNode(ring[m], h) = GetNode(ring[o], h)
                      /\ m # o => ~(Handles(m, h) /\ Handles(o, h))
    BY DEF RingsAgree
  <2>1. /\ PlaceOK /\ member[m] \subseteq Node
        /\ ring[m] \in Seq(Position) /\ ring[o] \in Seq(Position)
        /\ IsRing(added[m], ring[m], member[m]) /\ IsRing(added[o], ring[o], member[m])
    BY DEF HashRingInv, HashRingTypeOK, PlaceOK
  <2>2. PICK q : q = added[m]
    OBVIOUS
  <2>3. PICK r : r = added[o]
    OBVIOUS
  <2>4. PICK M : M = member[m]
    OBVIOUS
  <2>5. PICK s : s = ring[m]
    OBVIOUS
  <2>6. PICK t : t = ring[o]
    OBVIOUS
  <2>7. /\ s \in Seq(Position) /\ IsRing(q, s, M) /\ M \subseteq Node /\ M # {}
        /\ t \in Seq(Position) /\ IsRing(r, t, M)
        /\ NoCollision \/ InOrderOf(q, r, M, M)
    BY <2>1, <2>2, <2>3, <2>4, <2>5, <2>6 DEF InOrderOf
  <2>a. PlaceOK
    BY <2>1
  <2>8. GetNode(s, h) \in M /\ GetNode(t, h) \in M
    BY <2>a, <2>7, FoundIsMember
  <2>9. GetNode(s, h) = GetNode(t, h)
    <3>1. s \in Seq(Position) /\ t \in Seq(Position) /\ IsRing(q, s, M) /\ IsRing(r, t, M)
      BY <2>7
    <3>2. M \subseteq Node /\ M # {}
      BY <2>7
    <3>3. NoCollision \/ InOrderOf(q, r, M, M)
      BY <2>7
    <3>4. CASE NoCollision
      BY <2>a, <2>8, <3>1, <3>2, <3>4, FoundIsOne
    <3>5. CASE InOrderOf(q, r, M, M)
      BY <2>a, <2>8, <3>1, <3>2, <3>5, FoundIsOne
    <3> QED
      BY <3>3, <3>4, <3>5
  <2> QED
    BY <2>5, <2>6, <2>9 DEF Handles
<1> QED
  BY <1>1, HashRingInvHolds, PTL

(***************************************************************************)
(* Whoever joins or leaves, only the drivers that it takes over or gives   *)
(* up change hands: what the ring promises of a removal (ring.ts), and of  *)
(* an addition too, with collisions and without.                           *)
(***************************************************************************)
THEOREM OnlyItsDriversMove == HashRingSpec => OthersKeepTheirs
<1> DEFINE Kept(m, h) ==
             member[m] # {} /\ member'[m] # {} =>
                \/ GetNode(ring'[m], h) = GetNode(ring[m], h)
                \/ GetNode(ring'[m], h) \notin member[m]
                \/ GetNode(ring[m], h) \notin member'[m]
           A == \A m \in Matcher, h \in Hash : Kept(m, h)
<1>1. ASSUME HashRingInv, NEW o \in Matcher, NEW node \in Node,
             AddNode(o, node) \/ RemoveNode(o, node), NEW m \in Matcher, NEW h \in Hash
      PROVE  Kept(m, h)
  <2>1. PICK q2 \in Seq(Node), s2 \in Seq(Position), M2 \in SUBSET Node :
           RingMoves(o, q2, s2, M2)
    BY <1>1, RingMove
  <2>2. /\ PlaceOK /\ ring \in [Matcher -> Seq(Position)] /\ member \in [Matcher -> SUBSET Node]
        /\ IsRing(added[m], ring[m], member[m])
    BY <1>1 DEF HashRingInv, HashRingTypeOK, PlaceOK
  <2>3. CASE m # o
    <3>1. ring'[m] = ring[m]
      BY <1>1, <2>1, <2>2, <2>3 DEF RingMoves
    <3> QED
      BY <3>1
  <2>4. CASE m = o
    <3>1. PICK q : q = added[m]
      OBVIOUS
    <3>2. PICK s : s = ring[m]
      OBVIOUS
    <3>3. PICK M : M = member[m]
      OBVIOUS
    <3>4. /\ s \in Seq(Position) /\ M \in SUBSET Node /\ IsRing(q, s, M)
          /\ ring'[m] = s2 /\ member'[m] = M2 /\ IsRing(q2, s2, M2)
          /\ InOrderOf(q, q2, M, M2)
      BY <1>1, <2>1, <2>2, <2>4, <3>1, <3>2, <3>3 DEF RingMoves
    <3>5. ASSUME M # {}, M2 # {}, GetNode(s, h) \in M2, GetNode(s2, h) \in M
          PROVE  GetNode(s, h) = GetNode(s2, h)
      <4>1. s \in Seq(Position) /\ M \in SUBSET Node /\ IsRing(q, s, M) /\ IsRing(q2, s2, M2)
        BY <3>4
      <4>2. InOrderOf(q, q2, M, M2)
        BY <3>4
      <4>3. PlaceOK
        BY <2>2
      <4>4. M # {} /\ M2 # {} /\ GetNode(s, h) \in M2 /\ GetNode(s2, h) \in M
        BY <3>5
      <4>5. M \subseteq Node /\ M2 \subseteq Node
        BY <4>1
      <4> QED
        BY <4>1, <4>2, <4>3, <4>4, <4>5, FoundIsOne
    <3> QED
      BY <3>2, <3>3, <3>4, <3>5
  <2> QED
    BY <2>3, <2>4
<1>2. HashRingInv /\ [HashRingNext]_ringVars => [A]_ringVars
  BY <1>1 DEF HashRingNext
<1> QED
  BY <1>2, HashRingInvHolds, PTL DEF HashRingSpec, OthersKeepTheirs

-----------------------------------------------------------------------------
(***************************************************************************)
(* The parts of the services together.                                     *)
(***************************************************************************)
LEMMA ServerStep ==
    [ServerNext]_serverVars => /\ [VehiclesNext]_vehiclesVars
                               /\ [RatingsNext]_ratingsVars
                               /\ [AccountsNext]_accountsVars
                               /\ [HashRingNext]_ringVars
                               /\ [StoreNext]_storeVars
                               /\ [Next]_vars
  BY DEF ServerNext, serverVars, OnlyVehicles, OnlyRatings, OnlyAccounts, OnlyRing,
         OnlyStore, OnlyBucket

LEMMA ServerIsItsParts ==
    ServerSpec => VehiclesSpec /\ RatingsSpec /\ AccountsSpec /\ HashRingSpec /\ StoreSpec /\ Spec
<1>1. ServerInit => /\ VehiclesInit /\ RatingsInit /\ AccountsInit /\ HashRingInit
                    /\ StoreInit /\ Init
  BY DEF ServerInit
<1> QED
  BY <1>1, ServerStep, PTL
     DEF ServerSpec, VehiclesSpec, RatingsSpec, AccountsSpec, HashRingSpec, StoreSpec, Spec

(***************************************************************************)
(* The type invariant of everything that the services keep apart from      *)
(* trips, with the bounds that the bucket and the averages stay in.        *)
(***************************************************************************)
THEOREM ServerTypeCorrect == ServerSpec => []ServerTypeOK
<1>1. VehiclesTypeOK /\ RatingsTypeOK /\ AccountsTypeOK /\ HashRingTypeOK /\ StoreTypeOK
      /\ TypeOK => ServerTypeOK
  BY DEF ServerTypeOK
<1> QED
  BY <1>1, ServerIsItsParts, VehiclesTypeCorrect, RatingsTypeCorrect, AccountsTypeCorrect,
     HashRingTypeCorrect, StoreTypeCorrect, TypeCorrect, PTL
=============================================================================
