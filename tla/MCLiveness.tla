------------------------------ MODULE MCLiveness -------------------------------
(* What must happen in the end, of the two kinds of edge, the life wake and     *)
(* the world's rounds.  They share no state here, so each is explored on its    *)
(* own: `part` says which one moves, and the others stay as they are.           *)
EXTENDS Naturals, FiniteSets

CONSTANTS p1, p2, None

VARIABLES
    part,
    edgeReady, edgeDlq, edgeReviewQ, edgeInflight,
    edgeDataRow, edgePc, edgeMsg, edgeHeld,
    edgeEmitted, edgeRuns, edgeSpent,
    fireLatest, fireCount, firePublishing, fireQueue,
    fireDlq, firePc, fireTrig, fireHeld,
    fireEmitted, fireBase, fireDone, fireTorn,
    fireSpent,
    lifeEnvelopes, lifeRead, lifeKnocking, lifeKnocked,
    lifeChats, lifeWatermark, lifeAged, lifeLock,
    lifeCd, lifeTranscript, lifeVer, lifePc,
    lifeRound, lifeNow, lifeCopy, lifeTodo,
    lifeOverrun, lifeShown, lifeSpent,
    begun, committed, row, markers, today, landed, reached, selfTicks, wakes,
    worldLock, at, rnd, mailed, arc, reports, narrated, done, twice, overtaken, used

edgeVars  == <<edgeReady, edgeDlq, edgeReviewQ, edgeInflight, edgeDataRow,
               edgePc, edgeMsg, edgeHeld, edgeEmitted, edgeRuns,
               edgeSpent>>
firesVars == <<fireLatest, fireCount, firePublishing, fireQueue, fireDlq,
               firePc, fireTrig, fireHeld, fireEmitted, fireBase,
               fireDone, fireTorn, fireSpent>>
lifeVars  == <<lifeEnvelopes, lifeRead, lifeKnocking, lifeKnocked, lifeChats,
               lifeWatermark, lifeAged, lifeLock, lifeCd, lifeTranscript,
               lifeVer, lifePc, lifeRound, lifeNow, lifeCopy,
               lifeTodo, lifeOverrun, lifeShown, lifeSpent>>
worldVars == <<begun, committed, row, markers, today, landed, reached, selfTicks, wakes,
               worldLock, at, rnd, mailed, arc, reports, narrated, done, twice,
               overtaken, used>>

Two == {p1, p2}

\* Duplicates, retries and one failing call; a dead letter moved back; a failing
\* model, a dropped connection and a lost knock; a world that dies once.
EdgeLimit ==
    [e \in {"publish", "fault", "crash", "loss", "clear", "replay"} |->
        CASE e = "publish" -> 3 [] e = "fault" -> 1 [] OTHER -> 0]
FireLimit ==
    [e \in {"fault", "crash", "loss", "expiry", "replay"} |->
        IF e = "replay" THEN 1 ELSE 0]
LifeLimit ==
    [e \in {"call", "model", "crash", "loss", "knock", "expiry", "cap"} |->
        IF e \in {"model", "loss", "knock"} THEN 1 ELSE 0]
WorldLimit ==
    [e \in {"fail", "reflect", "persist", "crash", "tell", "arc"} |->
        IF e = "crash" THEN 1 ELSE 0]

Edge == INSTANCE DurableEdge WITH
    Keys <- {1}, NoKey <- None, Workers <- Two, RetryN <- 2, OnError <- "dlq",
    IsAdoption <- FALSE, LeaseOutlivesRun <- TRUE, Limit <- EdgeLimit,
    ready <- edgeReady, dlq <- edgeDlq, reviewQ <- edgeReviewQ,
    inflight <- edgeInflight, dataRow <- edgeDataRow, pc <- edgePc,
    msg <- edgeMsg, held <- edgeHeld, emitted <- edgeEmitted,
    runs <- edgeRuns, spent <- edgeSpent

Fires == INSTANCE Debounce WITH
    Handlers <- Two, MaxBuffer <- 2, MaxEvents <- 3, MaxReschedules <- 1,
    Limit <- FireLimit,
    latest <- fireLatest, count <- fireCount, publishing <- firePublishing,
    queue <- fireQueue, dlq <- fireDlq, pc <- firePc,
    trig <- fireTrig, held <- fireHeld, emitted <- fireEmitted,
    base <- fireBase, done <- fireDone, torn <- fireTorn,
    spent <- fireSpent

Life == INSTANCE LifeWake WITH
    Runners <- Two, Events <- {1, 2}, Passive <- {}, InboxMax <- 1, MaxChats <- 0,
    Limit <- LifeLimit,
    envelopes <- lifeEnvelopes, read <- lifeRead, knocking <- lifeKnocking,
    knocked <- lifeKnocked, chats <- lifeChats, watermark <- lifeWatermark,
    aged <- lifeAged, lock <- lifeLock, cd <- lifeCd,
    transcript <- lifeTranscript, ver <- lifeVer, pc <- lifePc,
    round <- lifeRound, now <- lifeNow, copy <- lifeCopy,
    todo <- lifeTodo, overrun <- lifeOverrun, shown <- lifeShown,
    spent <- lifeSpent

World == INSTANCE WorldRound WITH
    Runners <- {p1}, Free <- None, Orphan <- p2, MaxActs <- 2, MaxDay <- 1,
    MaxWakes <- 0, PullLimit <- 1, Limit <- WorldLimit

vars == <<part, edgeVars, firesVars, lifeVars, worldVars>>

Init ==
    /\ part \in {"edge", "fires", "life", "world"}
    /\ Edge!Init
    /\ part # "edge" => edgeDataRow = {}
    /\ Fires!Init
    /\ Life!Init
    /\ World!WorldInit

Only(p) == part = p /\ UNCHANGED part

EdgeMoves  == Only("edge") /\ UNCHANGED <<firesVars, lifeVars, worldVars>>
FiresMove  == Only("fires") /\ UNCHANGED <<edgeVars, lifeVars, worldVars>>
LifeMoves  == Only("life") /\ UNCHANGED <<edgeVars, firesVars, worldVars>>
WorldMoves == Only("world") /\ UNCHANGED <<edgeVars, firesVars, lifeVars>>

Next ==
    \/ EdgeMoves /\ Edge!Next
    \/ FiresMove /\ Fires!Next
    \/ LifeMoves /\ Life!Next
    \/ WorldMoves /\ World!WorldNext

\* The fairness of each part while it is the one that moves.
FairSpec ==
    /\ Init /\ [][Next]_vars
    /\ \A w \in Two : WF_vars(EdgeMoves /\ Edge!WorkerStep(w))
    /\ \A t \in Fires!Trigger : WF_vars(FiresMove /\ Fires!Publish(t))
    /\ \A h \in Two : WF_vars(FiresMove /\ Fires!HandlerStep(h))
    /\ \A r \in Two : WF_vars(LifeMoves /\ Life!RunnerStep(r))
    /\ WF_vars(LifeMoves /\ Life!Renotify)
    /\ WF_vars(LifeMoves /\ Life!OrphanExpires)
    /\ WF_vars(LifeMoves /\ Life!CdExpires)
    /\ WF_vars(WorldMoves /\ World!Progress(p1))

\* Every published event is consumed or parked in the end (durable.py).
EventuallySettled == Edge!EventuallySettled

\* A durable edge does only what the contract of delivery allows, and keeps its promise
\* (durable.py).
EdgeImplementsContract == Edge!ImplementsContract

\* So does a debounced edge, whose events are covered by a later run or wait as dead
\* letters (debounce.py).
FiresImplementContract == Fires!ImplementsContract

\* An event that wakes her is input of a completed round in the end (life_wake.py).
EventuallySeen == Life!EventuallySeen

\* The world catches up, again and again, with every act that can be read (world/engine.py).
ActsAreDeliberated == World!ActsAreDeliberated
================================================================================
