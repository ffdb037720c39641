------------------------------ MODULE Ratings ------------------------------
(***************************************************************************)
(* Ratings of completed rides and the average the database keeps of them.  *)
(* An inserted row first takes the key-share locks of its foreign keys, on *)
(* the driver too, and then runs the trigger, which wants that driver for  *)
(* update.  Two ratings of one driver that have both inserted wait for     *)
(* each other until Postgres aborts one of them.                           *)
(*                                                                         *)
(* The average is stored in hundredths and computed from the stored one,   *)
(* so that its rounding error grows with every rating.                     *)
(***************************************************************************)
EXTENDS Integers, FiniteSets

CONSTANTS
    Ride,       \* rides a rating may be asked for
    Rateable,   \* those that are completed and the rider's own
    Cab,        \* drivers
    CabOf,      \* who drove a ride
    Rating,     \* requests under way at a time
    Star        \* ratings a rider may give

ASSUME RatingsAssumption ==
    /\ Ride # {} /\ Rateable \subseteq Ride
    /\ CabOf \in [Ride -> Cab]
    /\ Star # {} /\ Star \subseteq 1 .. 5

VARIABLES
    ratingOf,   \* trip_ratings: the stars of a ride, 0 without a row
    average,    \* drivers.rating_count and rating_avg
    total,      \* history: the sum of the stars that were committed
    rating      \* the requests and their transactions

ratingsVars == <<ratingOf, average, total, rating>>

RatingRecord ==
    [pc : {"idle", "select", "insert", "share", "trigger", "commit", "done"},
     ride : Ride, star : Star,
     count : Nat, avg : Nat,    \* what the trigger has computed
     answer : {"none", "ok", "conflict", "missing", "error"}]

NoRating ==
    [pc |-> "idle", ride |-> CHOOSE r \in Ride : TRUE, star |-> CHOOSE s \in Star : TRUE,
     count |-> 0, avg |-> 0, answer |-> "none"]

RatingsInit ==
    /\ ratingOf = [r \in Ride |-> 0]
    /\ average = [d \in Cab |-> [count |-> 0, avg |-> 500]]
    /\ total = [d \in Cab |-> 0]
    /\ rating = [q \in Rating |-> NoRating]

Goto(q, pc) == rating' = [rating EXCEPT ![q].pc = pc]
\* The request is over; its answer is about the ride and the stars that were sent.
Over(k, answer) ==
    [NoRating EXCEPT !.pc = "done", !.answer = answer, !.ride = k.ride, !.star = k.star]
Answered(q, answer) == rating' = [rating EXCEPT ![q] = Over(rating[q], answer)]
NothingWritten == UNCHANGED <<ratingOf, average, total>>

CabIn(q) == CabOf[rating[q].ride]
\* Whose uncommitted rows and locks the transaction meets.
Others(q, pcs) == {p \in Rating \ {q} : rating[p].pc \in pcs}
Rivals(q, pcs) == {p \in Others(q, pcs) : CabIn(p) = CabIn(q)}

\* The page has the stars sent.  Nothing keeps a ride from being rated twice here.
AskRating(q, r, s) ==
    /\ rating[q].pc = "idle"
    /\ rating' = [rating EXCEPT ![q] = [NoRating EXCEPT !.pc = "select", !.ride = r, !.star = s]]
    /\ NothingWritten

Select(q) ==
    /\ rating[q].pc = "select"
    /\ IF rating[q].ride \in Rateable THEN Goto(q, "insert") ELSE Answered(q, "missing")
    /\ NothingWritten

\* What the catch makes of an error of the transaction.  Mutant: whatever it is, the
\* ride is said to be rated.
Refusal_Conflict(error) == "conflict"
Refusal(error) == IF error = "unique_violation" THEN "conflict" ELSE "error"

\* The primary key: the row of an open transaction is waited for.
Rated(r) == ratingOf[r] # 0

InsertRating(q) ==
    /\ rating[q].pc = "insert"
    /\ \A p \in Others(q, {"share", "trigger", "commit"}) : rating[p].ride # rating[q].ride
    /\ IF Rated(rating[q].ride) THEN Answered(q, Refusal("unique_violation"))
                               ELSE Goto(q, "share")
    /\ NothingWritten

\* The foreign key: FOR KEY SHARE on the driver.
Share(q) ==
    /\ rating[q].pc = "share"
    /\ Rivals(q, {"commit"}) = {}
    /\ Goto(q, "trigger")
    /\ NothingWritten

\* ROUND(x / y), for x and y that are not negative.
Rounded(x, y) == (2 * x + y) \div (2 * y)
\* Mutant: the mean of the old average and the rating.
NewAverage_Unweighted(old, star) == Rounded(old.avg + 100 * star, 2)
\* Mutant: divided by the old count.
NewAverage_OldCount(old, star) ==
    Rounded(old.avg * old.count + 100 * star, IF old.count = 0 THEN 1 ELSE old.count)
NewAverage(old, star) == Rounded(old.avg * old.count + 100 * star, old.count + 1)

\* The trigger's SELECT ... FOR UPDATE.  Mutant: without FOR UPDATE.
LockFree_NoLock(q) == TRUE
LockFree(q) == Rivals(q, {"trigger", "commit"}) = {}

Trigger(q) ==
    LET old == average[CabIn(q)] IN
    /\ rating[q].pc = "trigger"
    /\ LockFree(q)
    /\ rating' = [rating EXCEPT ![q].pc = "commit",
                                ![q].count = old.count + 1,
                                ![q].avg = NewAverage(old, rating[q].star)]
    /\ NothingWritten

\* The trigger's UPDATE, the event, and COMMIT; the publishing that follows may fail.
CommitRating(q) ==
    /\ rating[q].pc = "commit"
    /\ ratingOf' = [ratingOf EXCEPT ![rating[q].ride] = rating[q].star]
    /\ average' = [average EXCEPT ![CabIn(q)] = [count |-> rating[q].count,
                                                avg |-> rating[q].avg]]
    /\ total' = [total EXCEPT ![CabIn(q)] = @ + rating[q].star]
    /\ \E answer \in {"ok", "error"} : Answered(q, answer)

\* The deadlock detector rolls back a transaction that waits in a circle.
Deadlocked(q) ==
    /\ rating[q].pc = "trigger"
    /\ Rivals(q, {"trigger"}) # {}
    /\ Answered(q, Refusal("deadlock_detected"))
    /\ NothingWritten

\* The process or its connection dies before COMMIT.
FailRating(q) ==
    /\ rating[q].pc \notin {"idle", "done"}
    /\ Answered(q, Refusal("connection_lost"))
    /\ NothingWritten

RatingAnswer(q) ==
    /\ rating[q].pc = "done"
    /\ rating' = [rating EXCEPT ![q] = NoRating]
    /\ NothingWritten

RatingStep(q) ==
    Select(q) \/ InsertRating(q) \/ Share(q) \/ Trigger(q) \/ CommitRating(q) \/ Deadlocked(q)

RatingsNext ==
    \E q \in Rating :
        \/ \E r \in Ride, s \in Star : AskRating(q, r, s)
        \/ RatingStep(q) \/ FailRating(q) \/ RatingAnswer(q)

RatingsSpec == RatingsInit /\ [][RatingsNext]_ratingsVars

----------------------------------------------------------------------------
\* Type invariant.
RatingsTypeOK ==
    /\ ratingOf \in [Ride -> {0} \cup Star]
    /\ average \in [Cab -> [count : Nat, avg : 0 .. 500]]
    /\ total \in [Cab -> Nat]
    /\ rating \in [Rating -> RatingRecord]

(***************************************************************************)
(* Every committed rating is in its driver's count and sum exactly once,   *)
(* also when several are written at the same time, one of them is rolled   *)
(* back as a deadlock's victim, or a ride is rated twice.                  *)
(***************************************************************************)
RatedRides(d) == {r \in Ride : CabOf[r] = d /\ ratingOf[r] # 0}
CountAgrees == \A d \in Cab : average[d].count = Cardinality(RatedRides(d))

(***************************************************************************)
(* The stored average, times the count, is off the sum of the ratings by   *)
(* at most n(n+1)/4 hundredths: a rating adds half a hundredth times the   *)
(* count.  The code promises no more: from a hundred ratings on, an       *)
(* average half a star away from a rating is not moved by it any more.     *)
(***************************************************************************)
Drift(d) == 4 * (average[d].avg * average[d].count - 100 * total[d])
AverageDrift ==
    \A d \in Cab :
        LET n == average[d].count IN -(n * (n + 1)) <= Drift(d) /\ Drift(d) <= n * (n + 1)

(***************************************************************************)
(* The rider is told the truth: a rating that was accepted is the one the  *)
(* ride has, only a ride that has one is said to be rated already, and     *)
(* only one that cannot be rated to be missing.  Neither the loser of a    *)
(* deadlock nor one who waited for a rating that was rolled back is told   *)
(* that the ride is rated when it is not.                                  *)
(***************************************************************************)
Truthful(k) ==
    /\ k.answer = "ok" => ratingOf[k.ride] = k.star
    /\ k.answer = "conflict" => Rated(k.ride)
    /\ k.answer = "missing" => k.ride \notin Rateable
AnswersAreTrue == \A q \in Rating : Truthful(rating[q])
=============================================================================
