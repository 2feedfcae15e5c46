--------------------------------- MODULE Reviews --------------------------------
(***************************************************************************)
(* Reviews, abuse reports and categories.  A review is one row for each    *)
(* agent and user; submitting it again overwrites the row and raises a     *)
(* reputation event again, deleting it leaves the events.  Reports go      *)
(* through an administrator, one row at a time even in bulk, and the       *)
(* retention pass removes old ones that are no longer pending.             *)
(***************************************************************************)
EXTENDS Platform

CONSTANTS
  Report,    \* abuse report ids
  Category,  \* category ids
  Slug       \* category slugs (and names)

VARIABLES
  reviews,     \* the row of an agent and a user: its rating, or None
  reviewing,   \* a submission whose event is still to be raised
  raised,      \* events raised: <<agent, user, rating>>
  reports,     \* status of a report, or None
  oldReports,  \* reports older than the retention time
  categories,  \* slug of a category, or None
  agentCategories  \* agents' categories

revVars ==
  <<reviews, reviewing, raised, reports, oldReports, categories, agentCategories>>

(* Ratings of 4 and 5, of 3, of 1 and 2.                                    *)
Rating == {"good", "fair", "bad"}

ASSUME NoneIsNoRating == None \notin Rating

ReportStatus == {"pending", "reviewed", "dismissed", "actioned"}
NotReviewing == [agent |-> None, user |-> None, rating |-> None]

RevInit ==
  /\ reviews = [a \in Agent |-> [u \in User |-> None]]
  /\ reviewing = [h \in Handler |-> NotReviewing]
  /\ raised = {}
  /\ reports = [r \in Report |-> None]
  /\ oldReports = {}
  /\ categories = [c \in Category |-> None]
  /\ agentCategories = [a \in Agent |-> {}]

(* Variant: an edited review raises no event.                               *)
UpsertReviewOnce(h, a, u, rating) ==
  /\ reviewing[h] = NotReviewing
  /\ reviews' = [reviews EXCEPT ![a][u] = rating]
  /\ reviewing' = [reviewing EXCEPT ![h] =
       IF reviews[a][u] # None THEN NotReviewing
       ELSE [agent |-> a, user |-> u, rating |-> rating]]
  /\ UNCHANGED <<raised, reports, oldReports, categories, agentCategories, faults>>

(* SubmitReview, first the row.                                             *)
UpsertReview(h, a, u, rating) ==
  /\ reviewing[h] = NotReviewing
  /\ reviews' = [reviews EXCEPT ![a][u] = rating]
  /\ reviewing' = [reviewing EXCEPT ![h] = [agent |-> a, user |-> u, rating |-> rating]]
  /\ UNCHANGED <<raised, reports, oldReports, categories, agentCategories, faults>>

(* Then the event, of a rating that is not in the middle.                   *)
RaiseReviewEvent(h) ==
  LET r == reviewing[h] IN
  /\ r # NotReviewing
  /\ raised' = IF r.rating = "fair" THEN raised
               ELSE raised \cup {<<r.agent, r.user, r.rating>>}
  /\ reviewing' = [reviewing EXCEPT ![h] = NotReviewing]
  /\ UNCHANGED <<reviews, reports, oldReports, categories, agentCategories, faults>>

(* The event is only logged as failed; the review stands.                   *)
ReviewEventFails(h) ==
  /\ reviewing[h] # NotReviewing
  /\ reviewing' = [reviewing EXCEPT ![h] = NotReviewing]
  /\ Fault
  /\ UNCHANGED <<reviews, raised, reports, oldReports, categories, agentCategories>>

DeleteReview(a, u) ==
  /\ reviews[a][u] # None
  /\ reviews' = [reviews EXCEPT ![a][u] = None]
  /\ UNCHANGED <<reviewing, raised, reports, oldReports, categories, agentCategories,
                 faults>>

SubmitReport(r) ==
  /\ reports[r] = None /\ r \notin oldReports
  /\ reports' = [reports EXCEPT ![r] = "pending"]
  /\ UNCHANGED <<reviews, reviewing, raised, oldReports, categories, agentCategories,
                 faults>>

(* One update or deletion of an administrator; a bulk request is a series.  *)
UpdateReportStatus(r) ==
  /\ reports[r] # None
  /\ \E status \in ReportStatus : reports' = [reports EXCEPT ![r] = status]
  /\ UNCHANGED <<reviews, reviewing, raised, oldReports, categories, agentCategories,
                 faults>>

DeleteReport(r) ==
  /\ reports[r] # None
  /\ reports' = [reports EXCEPT ![r] = None]
  /\ oldReports' = oldReports \cup {r}
  /\ UNCHANGED <<reviews, reviewing, raised, categories, agentCategories, faults>>

ReportAges(r) ==
  /\ reports[r] # None /\ r \notin oldReports
  /\ oldReports' = oldReports \cup {r}
  /\ UNCHANGED <<reviews, reviewing, raised, reports, categories, agentCategories,
                 faults>>

(* The retention pass over the reports.                                     *)
PruneResolvedReports ==
  /\ \E r \in oldReports : reports[r] \in ReportStatus \ {"pending"}
  /\ reports' = [r \in Report |->
       IF r \in oldReports /\ reports[r] # "pending" THEN None ELSE reports[r]]
  /\ UNCHANGED <<reviews, reviewing, raised, oldReports, categories, agentCategories,
                 faults>>

(* UNIQUE columns: the statement fails when another category has the slug.  *)
SlugFree(c, s) == \A d \in Category \ {c} : categories[d] # s

CreateCategory(c, s) ==
  /\ categories[c] = None /\ SlugFree(c, s)
  /\ categories' = [categories EXCEPT ![c] = s]
  /\ UNCHANGED <<reviews, reviewing, raised, reports, oldReports, agentCategories,
                 faults>>

UpdateCategory(c, s) ==
  /\ categories[c] # None /\ SlugFree(c, s)
  /\ categories' = [categories EXCEPT ![c] = s]
  /\ UNCHANGED <<reviews, reviewing, raised, reports, oldReports, agentCategories,
                 faults>>

(* The category's rows in agent_categories stay.                            *)
DeleteCategory(c) ==
  /\ categories[c] # None
  /\ categories' = [categories EXCEPT ![c] = None]
  /\ UNCHANGED <<reviews, reviewing, raised, reports, oldReports, agentCategories,
                 faults>>

(* One transaction; nothing refers the ids to the categories table.         *)
SetAgentCategories(a) ==
  /\ \E cs \in SUBSET Category : agentCategories' = [agentCategories EXCEPT ![a] = cs]
  /\ UNCHANGED <<reviews, reviewing, raised, reports, oldReports, categories, faults>>

ReviewCrash ==
  /\ \E h \in Handler : reviewing[h] # NotReviewing
  /\ reviewing' = [h \in Handler |-> NotReviewing]
  /\ Fault
  /\ UNCHANGED <<reviews, raised, reports, oldReports, categories, agentCategories>>

SubmitReview(h) ==
  \/ \E a \in Agent, u \in User, rating \in Rating : UpsertReview(h, a, u, rating)
  \/ RaiseReviewEvent(h) \/ ReviewEventFails(h)

handleAdminBulkReports(r) == UpdateReportStatus(r) \/ DeleteReport(r)

RevNext ==
  \/ \E h \in Handler : SubmitReview(h)
  \/ \E a \in Agent, u \in User : DeleteReview(a, u)
  \/ \E r \in Report : SubmitReport(r) \/ handleAdminBulkReports(r) \/ ReportAges(r)
  \/ PruneResolvedReports
  \/ \E c \in Category :
       DeleteCategory(c) \/ (\E s \in Slug : CreateCategory(c, s) \/ UpdateCategory(c, s))
  \/ \E a \in Agent : SetAgentCategories(a)
  \/ ReviewCrash

RevSpec == RevInit /\ faults = 0 /\ [][RevNext]_<<revVars, faults>>

-----------------------------------------------------------------------------
(* Types; no two categories share a slug.                                   *)
RevTypeOK ==
  /\ reviews \in [Agent -> [User -> Rating \cup {None}]]
  /\ reviewing \in [Handler -> [agent : Agent \cup {None}, user : User \cup {None},
                                rating : Rating \cup {None}]]
  /\ raised \subseteq Agent \X User \X Rating
  /\ reports \in [Report -> ReportStatus \cup {None}]
  /\ oldReports \subseteq Report
  /\ categories \in [Category -> Slug \cup {None}]
  /\ agentCategories \in [Agent -> SUBSET Category]
  /\ \A c \in Category : categories[c] # None => SlugFree(c, categories[c])

(* A review that stands has moved the agent's reputation the way it rates:  *)
(* its event was raised or is about to be, whoever else reviews the agent   *)
(* meanwhile, unless a statement failed (review/service.go:51-66).          *)
StandingReviewsCount ==
  \A a \in Agent, u \in User :
    reviews[a][u] \in {"good", "bad"} =>
      \/ <<a, u, reviews[a][u]>> \in raised
      \/ \E h \in Handler :
           reviewing[h] = [agent |-> a, user |-> u, rating |-> reviews[a][u]]
      \/ faults > 0

=============================================================================
