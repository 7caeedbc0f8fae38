-------------------------------- MODULE HerDays --------------------------------
(***************************************************************************)
(* What is left of a persona's days: the pages the review of a day writes    *)
(* (DayReview) and the identity the review of a week draws from such pages    *)
(* (PersonaReview).  Between the two are days, and every page is written      *)
(* before the sweep that reads it, so that each has its own instance of the   *)
(* pages; this module states what the two promise together.                   *)
(***************************************************************************)
EXTENDS DayReview, PersonaReview

HerDaysSpec == DaySpec /\ PersonaSpec

\* Jottings are not lost behind the watermark, a page is not written over by a sweep,
\* and a day she lived gets a page (life/review.py, review_cron.py).  A page reaches her
\* identity, the owner's word stays in it, and a week changes it once (persona_review.py,
\* persona_chain.py).
HerDaysCanBeTrusted ==
    /\ JottingsAreAbsorbed /\ SweepsFillGapsOnly /\ EveryDayGetsItsPage
    /\ PagesAreDigested /\ OwnersWordStays /\ OneReviewAWeek
================================================================================
