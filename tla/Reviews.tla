------------------------------ MODULE Reviews -------------------------------
(***************************************************************************)
(* The reviews of one customer about one order or repair                   *)
(* (reviews.service.ts): submitted, moderated, featured, deleted.  Every   *)
(* handler reads the row and writes it later, by its id and without a      *)
(* condition.  A review has the name of the call that submitted it.        *)
(***************************************************************************)
EXTENDS Naturals, FiniteSets

CONSTANT ReviewCalls   \* requests, each used once

VARIABLES reviews,  \* the rows
          task,     \* call -> its step, what it asks for and what it read
          crossed,  \* submissions overlapped, or a toggle and a moderation of one review (not in the code)
          restored, \* rejected reviews that were opened again later (not in the code)
          insisted  \* reviews featured by request with another status than approved (not in the code)

reviewVars == <<reviews, task, crossed, restored, insisted>>

ReviewStatuses == {"PENDING", "APPROVED", "REJECTED"}
NoReview == [status |-> "none", featured |-> FALSE]
ReviewRow == [status : ReviewStatuses \cup {"none", "deleted"}, featured : BOOLEAN]
Idle == [step |-> "idle", review |-> NoReview, of |-> {}, status |-> "none", featured |-> "absent"]

ReviewsTypeOK ==
  /\ reviews \in [ReviewCalls -> ReviewRow]
  /\ task \in [ReviewCalls -> [step : {"idle", "submit", "withdraw", "moderate", "toggle", "done"},
                               review : ReviewRow, of : SUBSET ReviewCalls,
                               status : ReviewStatuses \cup {"none"}, featured : {"absent", "yes", "no"}]]
  /\ crossed \in [submissions : BOOLEAN, toggles : BOOLEAN]
  /\ restored \subseteq ReviewCalls
  /\ insisted \subseteq ReviewCalls

ReviewsInit ==
  /\ reviews = [c \in ReviewCalls |-> NoReview]
  /\ task = [c \in ReviewCalls |-> Idle]
  /\ crossed = [submissions |-> FALSE, toggles |-> FALSE]
  /\ restored = {}
  /\ insisted = {}

Exists(r) == reviews[r].status \in ReviewStatuses
Open(r) == reviews[r].status \in {"PENDING", "APPROVED"}
Doing(step) == {c \in ReviewCalls : task[c].step = step}
On(r, step) == {c \in Doing(step) : r \in task[c].of}

\* The read half of a handler that names review r.
Take(c, step, r, status, featured) ==
  /\ task[c] = Idle
  /\ Exists(r)
  /\ task' = [task EXCEPT ![c] = [step |-> step, review |-> reviews[r], of |-> {r},
                                  status |-> status, featured |-> featured]]

Finish(c) == task' = [task EXCEPT ![c] = [Idle EXCEPT !.step = "done"]]

------------------------------------------------------------------------------
\* Mutant of CreateReview: approved reviews are not looked for.
CreateReviewIfNonePending(c) ==
  /\ task[c] = Idle
  /\ \A r \in ReviewCalls : reviews[r].status # "PENDING"
  /\ task' = [task EXCEPT ![c].step = "submit"]
  /\ crossed' = [crossed EXCEPT !.submissions = @ \/ Doing("submit") # {}]
  /\ UNCHANGED <<reviews, restored, insisted>>

CreateReview(c) ==
  /\ task[c] = Idle
  /\ \A r \in ReviewCalls : ~Open(r)
  /\ task' = [task EXCEPT ![c].step = "submit"]
  /\ crossed' = [crossed EXCEPT !.submissions = @ \/ Doing("submit") # {}]
  /\ UNCHANGED <<reviews, restored, insisted>>

\* A rejected review that is approved while a submission is under way opens beside it.
ReviewInserted(c) ==
  /\ task[c].step = "submit"
  /\ reviews' = [reviews EXCEPT ![c] = [status |-> "PENDING", featured |-> FALSE]]
  /\ Finish(c)
  /\ UNCHANGED <<crossed, restored, insisted>>

DeleteOwn(c, r) ==
  /\ reviews[r].status = "PENDING"
  /\ Take(c, "withdraw", r, "none", "absent")
  /\ UNCHANGED <<reviews, crossed, restored, insisted>>

\* The delete of a row that is gone fails.  adminDelete is the same without the status.
ReviewDeleted(c, r) ==
  /\ task[c].step = "withdraw" /\ r \in task[c].of
  /\ reviews' = [reviews EXCEPT ![r].status = "deleted"]
  /\ Finish(c)
  /\ UNCHANGED <<crossed, restored, insisted>>

AdminDelete(c, r) ==
  /\ Take(c, "withdraw", r, "none", "absent")
  /\ UNCHANGED <<reviews, crossed, restored, insisted>>

\* Any status, and any flag beside it: the DTO ties neither to the other.
Moderate(c, r, status, featured) ==
  /\ Take(c, "moderate", r, status, featured)
  /\ crossed' = [crossed EXCEPT !.toggles = @ \/ On(r, "toggle") # {}]
  /\ UNCHANGED <<reviews, restored, insisted>>

\* dto.featured ?? (dto.status === 'APPROVED' ? review.featured : false)
Featured(t) ==
  IF t.featured = "absent" THEN t.status = "APPROVED" /\ t.review.featured
                           ELSE t.featured = "yes"

\* An update of a row that is gone fails.
Moderated(c, r) ==
  /\ task[c].step = "moderate" /\ r \in task[c].of
  /\ reviews' = IF Exists(r)
                THEN [reviews EXCEPT ![r] = [status |-> task[c].status, featured |-> Featured(task[c])]]
                ELSE reviews
  /\ restored' = IF reviews[r].status = "REJECTED" /\ task[c].status # "REJECTED"
                 THEN restored \cup {r} ELSE restored
  /\ insisted' = IF ~Exists(r) THEN insisted
                 ELSE IF task[c].featured = "yes" /\ task[c].status # "APPROVED"
                      THEN insisted \cup {r} ELSE insisted \ {r}
  /\ Finish(c)
  /\ UNCHANGED crossed

ToggleFeatured(c, r) ==
  /\ reviews[r].status = "APPROVED"
  /\ Take(c, "toggle", r, "none", "absent")
  /\ crossed' = [crossed EXCEPT !.toggles = @ \/ On(r, "moderate") # {}]
  /\ UNCHANGED <<reviews, restored, insisted>>

Toggled(c, r) ==
  /\ task[c].step = "toggle" /\ r \in task[c].of
  /\ reviews' = IF Exists(r) THEN [reviews EXCEPT ![r].featured = ~task[c].review.featured] ELSE reviews
  /\ Finish(c)
  /\ UNCHANGED <<crossed, restored, insisted>>

ReviewCallLost(c) ==
  /\ task[c].step \notin {"idle", "done"}
  /\ Finish(c)
  /\ UNCHANGED <<reviews, crossed, restored, insisted>>

ReviewsNext ==
  \E c \in ReviewCalls :
    \/ CreateReview(c) \/ ReviewInserted(c) \/ ReviewCallLost(c)
    \/ \E r \in ReviewCalls :
         \/ DeleteOwn(c, r) \/ AdminDelete(c, r) \/ ReviewDeleted(c, r)
         \/ \E status \in ReviewStatuses, featured \in {"absent", "yes", "no"} : Moderate(c, r, status, featured)
         \/ Moderated(c, r) \/ ToggleFeatured(c, r) \/ Toggled(c, r)

ReviewsSpec == ReviewsInit /\ [][ReviewsNext]_reviewVars

------------------------------------------------------------------------------
(* Properties.                                                             *)

\* "One pending-or-approved review per customer per reference" (reviews.service.ts:12), as far
\* as it holds: a rejected review that is taken up again opens beside another, and no other
\* does unless two submissions overlapped.
OneOpenReview ==
  crossed.submissions \/ Cardinality({r \in ReviewCalls \ restored : Open(r)}) <= 1

\* What is featured is approved: a rejected or pending review has the flag only if the last
\* moderation of it asked for the flag in so many words, or a moderation overlapped a toggle
\* of it.  A rejection that says nothing of the flag takes it away.
FeaturedIsApproved ==
  crossed.toggles \/ \A r \in ReviewCalls \ insisted :
                       Exists(r) /\ reviews[r].featured => reviews[r].status = "APPROVED"

\* The two promises of moderation: a customer has one open review of a thing, and what is
\* featured is approved.
ReviewsModerated == OneOpenReview /\ FeaturedIsApproved
=============================================================================
