--------------------------- MODULE DurableEdge_proofs --------------------------
(***************************************************************************)
(* Proofs about DurableEdge, for every number of keys, workers, attempts,  *)
(* every policy and every bound on the environment's events.               *)
(***************************************************************************)
EXTENDS DurableEdge, TLAPS

\* A busy handler works on a message of one of the keys.
LEMMA BusyHasKey ==
    ASSUME TypeOK, NEW w \in Workers, pc[w] # "idle"
    PROVE  msg[w] \in Message /\ KeyOf(w) \in Keys
BY DEF TypeOK, Message, KeyOf

--------------------------------------------------------------------------------
(* What the helpers do to the variables they touch. *)

LEMMA GotoEffect ==
    ASSUME TypeOK, NEW w \in Workers, NEW step \in PCs, Goto(w, step)
    PROVE  /\ pc' \in [Workers -> PCs]
           /\ pc'[w] = step
           /\ \A v \in Workers \ {w} : pc'[v] = pc[v]
BY DEF TypeOK, Goto

LEMMA SpendEffect ==
    ASSUME TypeOK, NEW e \in Events, Spend(e)
    PROVE  /\ spent' \in [Events -> Nat]
           /\ spent[e] < Limit[e]
           /\ spent'[e] = spent[e] + 1
           /\ \A d \in Events \ {e} : spent'[d] = spent[d]
BY DEF TypeOK, Spend

LEMMA CommittedEffect ==
    ASSUME TypeOK, NEW w \in Workers, NEW step \in PCs, Committed(w, step)
    PROVE  /\ pc' \in [Workers -> PCs]
           /\ pc'[w] \in {step, "nack"}
           /\ \A v \in Workers \ {w} : pc'[v] = pc[v]
           /\ spent' \in [Events -> Nat]
<1>1. "nack" \in PCs /\ "fault" \in Events
    BY DEF PCs, Events
<1>2. CASE Goto(w, step) /\ UNCHANGED spent
    BY <1>2, GotoEffect DEF TypeOK
<1>3. CASE Goto(w, "nack") /\ Spend("fault")
    BY <1>1, <1>3, GotoEffect, SpendEffect
<1> QED BY <1>2, <1>3 DEF Committed

LEMMA ConfirmEffect ==
    ASSUME TypeOK, NEW w \in Workers, NEW s \in PCs, NEW t \in PCs,
           NEW accepted \in BOOLEAN, Confirm(w, s, t, accepted)
    PROVE  /\ pc' \in [Workers -> PCs]
           /\ (pc'[w] = s /\ accepted) \/ pc'[w] = t
           /\ \A v \in Workers \ {w} : pc'[v] = pc[v]
           /\ spent' \in [Events -> Nat]
<1>1. "fault" \in Events
    BY DEF Events
<1>2. CASE accepted /\ Goto(w, s) /\ UNCHANGED spent
    BY <1>2, GotoEffect DEF TypeOK
<1>3. CASE Goto(w, t) /\ Spend("fault")
    BY <1>1, <1>3, GotoEffect, SpendEffect
<1> QED BY <1>2, <1>3 DEF Confirm

LEMMA SetRowEffect ==
    ASSUME TypeOK, NEW k \in Keys, NEW state \in RowStates, SetRow(k, state)
    PROVE  /\ inflight' \in [Keys -> RowStates]
           /\ inflight'[k] = IF inflight[k] = "none" THEN "none" ELSE state
           /\ \A j \in Keys \ {k} : inflight'[j] = inflight[j]
BY DEF TypeOK, SetRow

LEMMA ReleaseEffect ==
    ASSUME TypeOK, NEW w \in Workers, Release(w)
    PROVE  /\ pc' \in [Workers -> PCs]
           /\ msg' \in [Workers -> Message \cup {NoMessage}]
           /\ held' \in [Workers -> BOOLEAN]
           /\ pc'[w] = "idle" /\ msg'[w] = NoMessage /\ ~held'[w]
           /\ \A v \in Workers \ {w} :
                 pc'[v] = pc[v] /\ msg'[v] = msg[v] /\ held'[v] = held[v]
<1>1. "idle" \in PCs
    BY DEF PCs
<1>2. Goto(w, "idle")
    BY DEF Release
<1> QED BY <1>1, <1>2, GotoEffect DEF TypeOK, Release

LEMMA AddEffect ==
    ASSUME NEW S, NEW q \in [S -> Nat], NEW x
    PROVE  /\ Add(q, x) \in [S -> Nat]
           /\ \A y \in S : Add(q, x)[y] = IF y = x THEN q[y] + 1 ELSE q[y]
<1>1. \A y \in S : q[y] \in Nat /\ q[y] + 1 \in Nat
    OBVIOUS
<1>2. Add(q, x) = [y \in S |-> IF y = x THEN q[x] + 1 ELSE q[y]]
    BY DEF Add
<1> QED BY <1>1, <1>2

LEMMA RemoveEffect ==
    ASSUME NEW S, NEW q \in [S -> Nat], NEW x \in S, q[x] > 0
    PROVE  /\ Remove(q, x) \in [S -> Nat]
           /\ \A y \in S : Remove(q, x)[y] = IF y = x THEN q[y] - 1 ELSE q[y]
<1>1. q[x] \in Nat /\ q[x] - 1 \in Nat
    OBVIOUS
<1> QED BY <1>1 DEF Remove

--------------------------------------------------------------------------------
\* Every variable keeps its type: actions of the environment.
LEMMA TypeEnvironment == TypeOK /\ Environment => TypeOK'
<1> SUFFICES ASSUME TypeOK, Environment PROVE TypeOK'
    OBVIOUS
<1> USE DEF queues, handlers, history
<1>0. Events = {"publish", "fault", "crash", "loss", "clear", "replay"}
    BY DEF Events
<1>1. ASSUME NEW k \in Keys, Publish(k) PROVE TypeOK'
  <2>1. [key |-> k, count |-> 0] \in Message
      BY ConstantsAssumption DEF Message
  <2>2. ready' \in [Message -> Nat]
      BY <1>1, <2>1, AddEffect DEF Publish, TypeOK
  <2>3. spent' \in [Events -> Nat]
      BY <1>0, <1>1, SpendEffect DEF Publish
  <2> QED BY <1>1, <2>2, <2>3 DEF Publish, TypeOK
<1>2. ASSUME NEW k \in Keys, LeaseExpires(k) PROVE TypeOK'
  <2>1. inflight' \in [Keys -> RowStates]
      BY <1>2 DEF LeaseExpires, TypeOK, RowStates
  <2> QED BY <1>2, <2>1 DEF LeaseExpires, TypeOK
<1>3. ASSUME NEW w \in Workers, InfraError(w) PROVE TypeOK'
  <2>1. "nack" \in PCs /\ pc[w] # "idle"
      BY <1>3 DEF PCs, InfraError, Awaits, Owning
  <2>2. pc' \in [Workers -> PCs] /\ \A v \in Workers \ {w} : pc'[v] = pc[v]
      BY <1>3, <2>1, GotoEffect DEF InfraError
  <2>3. spent' \in [Events -> Nat]
      BY <1>0, <1>3, SpendEffect DEF InfraError
  <2> QED BY <1>3, <2>1, <2>2, <2>3 DEF InfraError, TypeOK
<1>4. ASSUME NEW w \in Workers, Requeue(w), pc[w] # "idle"
      PROVE  ready' \in [Message -> Nat]
    BY <1>4, AddEffect, BusyHasKey DEF Requeue, TypeOK
<1>5. ASSUME NEW w \in Workers, Crash(w) PROVE TypeOK'
  <2>1. spent' \in [Events -> Nat]
      BY <1>0, <1>5, SpendEffect DEF Crash
  <2>2. ready' \in [Message -> Nat]
      BY <1>4, <1>5 DEF Crash
  <2> QED BY <1>5, <2>1, <2>2, ReleaseEffect DEF Crash, TypeOK
<1>6. ASSUME NEW w \in Workers, ConnectionLoss(w) PROVE TypeOK'
  <2>1. spent' \in [Events -> Nat]
      BY <1>0, <1>6, SpendEffect DEF ConnectionLoss
  <2>2. ready' \in [Message -> Nat]
      BY <1>6, AddEffect DEF ConnectionLoss, Requeue, TypeOK
  <2> QED BY <1>6, <2>1, <2>2 DEF ConnectionLoss, TypeOK
<1>7. ASSUME NEW S \in SUBSET Keys, ClearInflight(S) PROVE TypeOK'
  <2>1. inflight' \in [Keys -> RowStates]
      BY <1>7 DEF ClearInflight, TypeOK, RowStates
  <2>2. spent' \in [Events -> Nat]
      BY <1>0, <1>7, SpendEffect DEF ClearInflight
  <2> QED BY <1>7, <2>1, <2>2 DEF ClearInflight, TypeOK
<1>8. ASSUME NEW m \in Message, Replay(m) PROVE TypeOK'
  <2>1. spent' \in [Events -> Nat]
      BY <1>0, <1>8, SpendEffect DEF Replay
  <2>2. ready' \in [Message -> Nat] /\ dlq' \in [Message -> Nat]
      BY <1>8, AddEffect, RemoveEffect DEF Replay, TypeOK
  <2> QED BY <1>8, <2>1, <2>2 DEF Replay, TypeOK
<1> QED
    BY <1>1, <1>2, <1>3, <1>5, <1>6, <1>7, <1>8 DEF Environment

\* Every variable keeps its type: steps of a worker.
LEMMA TypeWorker ==
    ASSUME TypeOK, NEW w \in Workers, WorkerStep(w)
    PROVE  TypeOK'
<1> USE DEF queues, handlers, history
<1> DEFINE Busy == pc[w] # "idle"
<1>1. ASSUME NEW m \in Message, Deliver(w, m) PROVE TypeOK'
  <2>1. "claim" \in PCs
      BY DEF PCs, Awaits
  <2>2. pc' \in [Workers -> PCs] /\ \A v \in Workers \ {w} : pc'[v] = pc[v]
      BY <1>1, <2>1, GotoEffect DEF Deliver
  <2>3. ready' \in [Message -> Nat]
      BY <1>1, RemoveEffect DEF Deliver, TypeOK
  <2> QED BY <1>1, <2>2, <2>3 DEF Deliver, TypeOK
\* A step that keeps the message and moves the handler is well-typed if the
\* other variables are.
<1>2. ASSUME Busy, UNCHANGED <<msg, held>>,
             pc' \in [Workers -> PCs], \A v \in Workers \ {w} : pc'[v] = pc[v],
             ready' \in [Message -> Nat], dlq' \in [Message -> Nat],
             reviewQ' \in [Keys -> Nat], inflight' \in [Keys -> RowStates],
             dataRow' \subseteq Keys, emitted' \subseteq Keys,
             runs' \in [Keys -> Nat], spent' \in [Events -> Nat]
      PROVE  TypeOK'
    BY <1>2 DEF TypeOK
<1>3. Busy => KeyOf(w) \in Keys /\ msg[w] \in Message
    BY BusyHasKey
<1>4. CASE ClaimRead(w)
  <2>1. {"ack", "claimInsert", "claimTakeover"} \subseteq PCs /\ Busy
      BY <1>4 DEF PCs, Awaits, ClaimRead
  <2>2. \E step \in {"ack", "claimInsert", "claimTakeover"} : Goto(w, step)
      BY <1>4 DEF ClaimRead
  <2>3. pc' \in [Workers -> PCs] /\ \A v \in Workers \ {w} : pc'[v] = pc[v]
      BY <2>1, <2>2, GotoEffect
  <2> QED BY <1>2, <1>4, <2>1, <2>3 DEF ClaimRead, TypeOK
<1>5. CASE ClaimInsert(w)
  <2>1. {"run", "insert"} \subseteq PCs /\ Busy
      BY <1>5 DEF PCs, Owning, ClaimInsert
  <2>2. inflight' \in [Keys -> RowStates]
      BY <1>5 DEF ClaimInsert, TypeOK, RowStates
  <2> QED BY <1>2, <1>5, <2>1, <2>2, CommittedEffect DEF ClaimInsert, TypeOK
<1>6. CASE ClaimTakeover(w)
  <2>1. "run" \in PCs /\ Busy /\ "processing" \in RowStates
      BY <1>6 DEF PCs, Owning, RowStates, ClaimTakeover
  <2>2. inflight' \in [Keys -> RowStates]
      BY <1>3, <1>6, <2>1, SetRowEffect DEF ClaimTakeover
  <2> QED BY <1>2, <1>6, <2>1, <2>2, CommittedEffect DEF ClaimTakeover, TypeOK
<1>7. CASE InsertIdempotent(w)
  <2>1. {"run", "backfill"} \subseteq PCs /\ Busy
      BY <1>7 DEF PCs, Owning, InsertIdempotent
  <2> QED
      BY <1>2, <1>3, <1>7, <2>1, CommittedEffect DEF InsertIdempotent, TypeOK
<1>8. CASE MarkHistoryBackfill(w)
  <2>1. "ack" \in PCs /\ Busy /\ "succeeded" \in RowStates
      BY <1>8 DEF PCs, RowStates, MarkHistoryBackfill
  <2>2. inflight' \in [Keys -> RowStates]
      BY <1>3, <1>8, <2>1, SetRowEffect DEF MarkHistoryBackfill
  <2> QED
      BY <1>2, <1>8, <2>1, <2>2, CommittedEffect DEF MarkHistoryBackfill, TypeOK
<1>9. CASE ConsumerReturns(w)
  <2>1. "succeed" \in PCs /\ Busy
      BY <1>9 DEF PCs, Owning, ConsumerReturns
  <2>2. runs' \in [Keys -> Nat]
      BY <1>9, AddEffect DEF ConsumerReturns, TypeOK
  <2> QED BY <1>2, <1>9, <2>1, <2>2, GotoEffect DEF ConsumerReturns, TypeOK
<1>10. CASE ConsumerRaises(w)
  <2>1. {"succeed", "review", "fail"} \subseteq PCs /\ Busy
      BY <1>10 DEF PCs, Owning, ConsumerRaises
  <2>2. \E step \in {"succeed", "review", "fail"} : Goto(w, step)
      BY <1>10 DEF ConsumerRaises, RouteOf
  <2>3. pc' \in [Workers -> PCs] /\ \A v \in Workers \ {w} : pc'[v] = pc[v]
      BY <2>1, <2>2, GotoEffect
  <2> QED BY <1>2, <1>10, <2>1, <2>3 DEF ConsumerRaises, TypeOK
<1>11. CASE MarkSucceeded(w)
  <2>1. "ack" \in PCs /\ Busy /\ "succeeded" \in RowStates
      BY <1>11 DEF PCs, RowStates, MarkSucceeded
  <2>2. inflight' \in [Keys -> RowStates]
      BY <1>3, <1>11, <2>1, SetRowEffect DEF MarkSucceeded
  <2> QED BY <1>2, <1>11, <2>1, <2>2, CommittedEffect DEF MarkSucceeded, TypeOK
<1>12. CASE MarkFailed(w)
  <2>1. AfterFailure(msg[w].count) \in PCs /\ Busy /\ "failed" \in RowStates
      BY <1>12 DEF PCs, Awaits, RowStates, MarkFailed, AfterFailure
  <2>2. inflight' \in [Keys -> RowStates]
      BY <1>3, <1>12, <2>1, SetRowEffect DEF MarkFailed
  <2> QED BY <1>2, <1>12, <2>1, <2>2, CommittedEffect DEF MarkFailed, TypeOK
<1>13. CASE RetryPublish(w)
  <2>1. {"ack", "nack"} \subseteq PCs /\ Busy
      BY <1>13 DEF PCs, RetryPublish
  <2>2. ready' \in [Message -> Nat]
      BY <1>13, AddEffect DEF RetryPublish, TypeOK
  <2>3. /\ pc' \in [Workers -> PCs] /\ \A v \in Workers \ {w} : pc'[v] = pc[v]
        /\ spent' \in [Events -> Nat]
      BY <1>13, <2>1, ConfirmEffect DEF RetryPublish
  <2> QED BY <1>2, <1>13, <2>1, <2>2, <2>3 DEF RetryPublish, TypeOK
<1>14. CASE ReviewPublish(w)
  <2>1. {"markReview", "failThenRaise", "markParked", "nack"} \subseteq PCs /\ Busy
      BY <1>14 DEF PCs, Owning, Awaits, ReviewPublish
  <2>2. reviewQ' \in [Keys -> Nat]
      BY <1>14, AddEffect DEF ReviewPublish, TypeOK
  <2> QED BY <1>2, <1>14, <2>1, <2>2, ConfirmEffect DEF ReviewPublish, TypeOK
<1>15. CASE MarkReview(w)
  <2>1. "ack" \in PCs /\ Busy /\ "review" \in RowStates
      BY <1>15 DEF PCs, RowStates, MarkReview
  <2>2. inflight' \in [Keys -> RowStates]
      BY <1>3, <1>15, <2>1, SetRowEffect DEF MarkReview
  <2> QED BY <1>2, <1>15, <2>1, <2>2, CommittedEffect DEF MarkReview, TypeOK
<1>16. CASE FailThenRaise(w)
  <2>1. "nack" \in PCs /\ Busy /\ "failed" \in RowStates
      BY <1>16 DEF PCs, RowStates, FailThenRaise
  <2>2. inflight' \in [Keys -> RowStates]
      BY <1>3, <1>16, <2>1, SetRowEffect DEF FailThenRaise
  <2> QED BY <1>2, <1>16, <2>1, <2>2, GotoEffect DEF FailThenRaise, TypeOK
<1>17. CASE Ack(w)
    BY <1>17, ReleaseEffect DEF Ack, TypeOK
<1>18. CASE Nack(w)
  <2>1. dlq' \in [Message -> Nat]
      BY <1>18, AddEffect DEF Nack, TypeOK
  <2> QED BY <1>18, <2>1, ReleaseEffect DEF Nack, TypeOK
<1> QED
    BY <1>1, <1>4, <1>5, <1>6, <1>7, <1>8, <1>9, <1>10, <1>11, <1>12, <1>13,
       <1>14, <1>15, <1>16, <1>17, <1>18 DEF WorkerStep, HandlerStep

\* Type correctness of the edge: every variable keeps its type for every number
\* of keys, workers and attempts, every policy and every environment.
THEOREM TypeCorrect == Spec => []TypeOK
<1>1. Init => TypeOK
  <2> SUFFICES ASSUME Init PROVE TypeOK
      OBVIOUS
  <2>1. "none" \in RowStates /\ "idle" \in PCs
      BY DEF RowStates, PCs
  <2> QED BY <2>1 DEF Init, TypeOK
<1>2. TypeOK /\ [Next]_vars => TypeOK'
  <2> SUFFICES ASSUME TypeOK, [Next]_vars PROVE TypeOK'
      OBVIOUS
  <2>1. CASE Environment
      BY <2>1, TypeEnvironment
  <2>2. CASE \E w \in Workers : WorkerStep(w)
      BY <2>2, TypeWorker
  <2>3. CASE UNCHANGED vars
      BY <2>3 DEF vars, queues, handlers, history, TypeOK
  <2> QED BY <2>1, <2>2, <2>3 DEF Next
<1> QED BY <1>1, <1>2, PTL DEF Spec

--------------------------------------------------------------------------------
(* What happened stays happened: the counters of the environment never go down. *)

Grew == \A e \in Events : spent'[e] \in Nat /\ spent'[e] >= spent[e]

LEMMA SpendGrows ==
    ASSUME TypeOK, NEW e \in Events, Spend(e)
    PROVE  Grew
BY SpendEffect DEF TypeOK, Grew

\* A step happens by itself or is one event of the environment.
LEMMA SpentByStep ==
    ASSUME TypeOK, [Next]_vars
    PROVE  UNCHANGED spent \/ \E e \in Events : Spend(e)
<1>0. Events = {"publish", "fault", "crash", "loss", "clear", "replay"}
    BY DEF Events
<1>1. CASE UNCHANGED vars
    BY <1>1 DEF vars
<1>2. CASE Environment
    BY <1>0, <1>2
    DEF Environment, Publish, LeaseExpires, InfraError, Crash, ConnectionLoss,
        ClearInflight, Replay
<1>3. ASSUME NEW w \in Workers, WorkerStep(w)
      PROVE  UNCHANGED spent \/ Spend("fault")
  <2>1. CASE RetryPublish(w) \/ ReviewPublish(w)
      BY <2>1 DEF RetryPublish, ReviewPublish, Confirm
  <2>2. CASE \/ ClaimInsert(w) \/ ClaimTakeover(w) \/ InsertIdempotent(w)
             \/ MarkHistoryBackfill(w) \/ MarkSucceeded(w) \/ MarkFailed(w)
             \/ MarkReview(w)
      BY <2>2
      DEF ClaimInsert, ClaimTakeover, InsertIdempotent, MarkHistoryBackfill,
          MarkSucceeded, MarkFailed, MarkReview, Committed
  <2>3. CASE \/ ClaimRead(w) \/ ConsumerReturns(w) \/ ConsumerRaises(w)
             \/ FailThenRaise(w) \/ Ack(w) \/ Nack(w)
             \/ \E m \in Message : Deliver(w, m)
      BY <2>3
      DEF history, ClaimRead, ConsumerReturns, ConsumerRaises, FailThenRaise,
          Ack, Nack, Deliver
  <2> QED BY <1>3, <2>1, <2>2, <2>3 DEF WorkerStep, HandlerStep
<1> QED BY <1>0, <1>1, <1>2, <1>3 DEF Next

LEMMA SpentGrows ==
    ASSUME TypeOK, [Next]_vars
    PROVE  Grew
<1>1. UNCHANGED spent => Grew
    BY DEF TypeOK, Grew
<1> QED BY <1>1, SpentByStep, SpendGrows

LEMMA LeasedBefore ==
    ASSUME TypeOK, [Next]_vars, Leased'
    PROVE  Leased
BY SpentGrows DEF Grew, Leased, TypeOK, Events

LEMMA UndisturbedBefore ==
    ASSUME TypeOK, [Next]_vars, Undisturbed'
    PROVE  Undisturbed
<1> SUFFICES ASSUME NEW e \in {"crash", "loss", "clear", "replay"}
             PROVE  spent[e] = 0
    BY DEF Undisturbed
<1>1. e \in Events /\ spent'[e] = 0
    BY DEF Undisturbed, Events
<1>2. spent[e] \in Nat /\ spent'[e] >= spent[e]
    BY <1>1, SpentGrows DEF Grew, TypeOK
<1> QED BY <1>1, <1>2

--------------------------------------------------------------------------------
(* One handler per key, while leases outlive runs and nobody clears rows. *)

Active == Owning \cup Claiming

LEMMA ActiveSteps ==
    /\ Active \subseteq PCs
    /\ Active \cap {"idle", "claim", "ack", "nack", "retry", "park", "markParked"} = {}
    /\ Owning \cap Claiming = {}
BY DEF Active, Owning, Claiming, PCs, Awaits

\* A step of handler w keeps Exclusive if it leaves the others alone, makes w
\* active only when no other handler of its key is, and changes the row of
\* another active handler only to park it.
LEMMA ExclusiveStep ==
    ASSUME TypeOK, Exclusive, NEW w \in Workers,
           \A v \in Workers \ {w} : pc'[v] = pc[v] /\ msg'[v] = msg[v],
           pc'[w] \in Active =>
              /\ msg'[w] = msg[w]
              /\ \A v \in Workers \ {w} : pc[v] \in Active => KeyOf(v) # KeyOf(w),
           pc'[w] \in Owning => inflight'[KeyOf(w)] \in {"processing", "review"},
           pc'[w] = "claimTakeover" => inflight'[KeyOf(w)] # "none",
           pc'[w] \in Claiming => inflight'[KeyOf(w)] # "succeeded",
           \A v \in Workers \ {w} : pc[v] \in Active =>
              inflight'[KeyOf(v)] \in {inflight[KeyOf(v)], "review"}
    PROVE  Exclusive'
<1>1. "claimTakeover" \in Active /\ Owning \subseteq Active /\ Claiming \subseteq Active
    BY DEF Active, Claiming
<1>2. \A v \in Workers : pc'[v] \in Active => KeyOf(v)' = KeyOf(v)
    BY DEF KeyOf
<1>3. ASSUME NEW u \in Workers, NEW v \in Workers, u # v,
             pc'[u] \in Active, pc'[v] \in Active
      PROVE  KeyOf(u)' # KeyOf(v)'
  <2>1. CASE u # w /\ v # w
      BY <1>2, <1>3, <2>1 DEF Exclusive, Active
  <2>2. CASE u = w \/ v = w
      BY <1>2, <1>3, <2>2
  <2> QED BY <2>1, <2>2
<1>4. ASSUME NEW v \in Workers
      PROVE  /\ pc'[v] \in Owning => inflight'[KeyOf(v)'] \in {"processing", "review"}
             /\ pc'[v] = "claimTakeover" => inflight'[KeyOf(v)'] # "none"
             /\ pc'[v] \in Claiming => inflight'[KeyOf(v)'] # "succeeded"
    BY <1>1, <1>2 DEF Exclusive
<1> QED BY <1>3, <1>4 DEF Exclusive, Active

LEMMA ExclusiveInduction ==
    ASSUME Leased', TypeOK, Exclusive, [Next]_vars
    PROVE  Exclusive'
<1> USE DEF queues, handlers, history
<1>1. CASE UNCHANGED vars
    BY <1>1 DEF vars, Exclusive, KeyOf
<1>2. ASSUME NEW k \in Keys, Publish(k) PROVE Exclusive'
    BY <1>2 DEF Publish, Exclusive, KeyOf
<1>3. ASSUME NEW k \in Keys, LeaseExpires(k) PROVE Exclusive'
  <2>1. \A w \in Workers : pc[w] \in Owning => KeyOf(w) # k
      BY <1>3 DEF LeaseExpires, Owns, Leased
  <2>2. inflight'[k] = "expired"
      BY <1>3 DEF LeaseExpires, TypeOK
  <2>3. \A j \in Keys \ {k} : inflight'[j] = inflight[j]
      BY <1>3 DEF LeaseExpires, TypeOK
  <2>4. \A w \in Workers : pc[w] # "idle" => KeyOf(w) \in Keys
      BY BusyHasKey
  <2>5. UNCHANGED <<pc, msg>>
      BY <1>3 DEF LeaseExpires
  <2>6. "idle" \notin Owning \cup Claiming
      BY DEF Owning, Claiming
  <2> QED BY <2>1, <2>2, <2>3, <2>4, <2>5, <2>6 DEF Exclusive, KeyOf
<1>4. ASSUME NEW w \in Workers, InfraError(w) PROVE Exclusive'
  <2>1. pc'[w] = "nack" /\ \A v \in Workers \ {w} : pc'[v] = pc[v]
      BY <1>4, GotoEffect DEF InfraError, PCs
  <2> QED
      BY <1>4, <2>1, ExclusiveStep, ActiveSteps DEF InfraError, Owning, Active, Claiming
<1>5. ASSUME NEW w \in Workers, Crash(w) PROVE Exclusive'
    BY <1>5, ReleaseEffect, ExclusiveStep, ActiveSteps DEF Crash, Owning, Active, Claiming
<1>6. ASSUME NEW w \in Workers, ConnectionLoss(w) PROVE Exclusive'
    BY <1>6 DEF ConnectionLoss, Exclusive, KeyOf
<1>7. ASSUME NEW S \in SUBSET Keys, ClearInflight(S) PROVE Exclusive'
  <2>1. "clear" \in Events /\ spent["clear"] \in Nat
      BY DEF TypeOK, Events
  <2>2. spent'["clear"] = spent["clear"] + 1
      BY <1>7, <2>1, SpendEffect DEF ClearInflight
  <2> QED BY <2>1, <2>2 DEF Leased
<1>8. ASSUME NEW m \in Message, Replay(m) PROVE Exclusive'
    BY <1>8 DEF Replay, Exclusive, KeyOf
<1>9. ASSUME NEW w \in Workers, WorkerStep(w) PROVE Exclusive'
  <2> DEFINE Others == \A v \in Workers \ {w} : pc'[v] = pc[v]
             Alone  == \A v \in Workers \ {w} :
                          pc[v] \in Active => KeyOf(v) # KeyOf(w)
  <2>0. ASSUME pc[w] # "idle" PROVE KeyOf(w) \in Keys
      BY <2>0, BusyHasKey
  \* A step that leaves the rows alone and stops or goes on owning.
  <2>1. ASSUME Others, UNCHANGED <<inflight, msg>>,
               pc'[w] \in Active => pc'[w] \in Owning /\ pc[w] \in Owning
        PROVE  Exclusive'
    <3>1. pc'[w] \in Active => Alone /\ inflight'[KeyOf(w)] \in {"processing", "review"}
        BY <2>1 DEF Exclusive, Active
    <3>2. pc'[w] # "claimTakeover" /\ pc'[w] \notin Claiming
        BY <2>1 DEF Active, Owning, Claiming
    <3> QED BY <2>1, <3>1, <3>2, ExclusiveStep DEF Active
  \* A step that writes the row of w, which was active.
  <2>2. ASSUME NEW state \in RowStates, SetRow(KeyOf(w), state), UNCHANGED msg,
               Others, pc[w] \in Active, pc'[w] \notin Active
        PROVE  Exclusive'
    <3>1. Alone
        BY <2>2 DEF Exclusive, Active
    <3>2. \A v \in Workers \ {w} : pc[v] \in Active => KeyOf(v) \in Keys
        BY BusyHasKey, ActiveSteps
    <3>3. \A v \in Workers \ {w} : pc[v] \in Active => inflight'[KeyOf(v)] = inflight[KeyOf(v)]
        BY <2>0, <2>2, <3>1, <3>2, SetRowEffect, ActiveSteps
    <3> QED BY <2>2, <3>3, ExclusiveStep DEF Active, Claiming
  <2>3. ASSUME NEW m \in Message, Deliver(w, m) PROVE Exclusive'
    <3>1. pc'[w] = "claim" /\ Others
        BY <2>3, GotoEffect DEF Deliver, PCs, Awaits
    <3>2. \A v \in Workers \ {w} : msg'[v] = msg[v]
        BY <2>3 DEF Deliver, TypeOK
    <3> QED
        BY <2>3, <3>1, <3>2, ExclusiveStep, ActiveSteps DEF Deliver, Owning, Claiming, Active
  <2>4. CASE ClaimRead(w)
    <3>1. {"ack", "claimInsert", "claimTakeover"} \subseteq PCs
        BY DEF PCs, Awaits
    <3>2. \E step \in {"ack", "claimInsert", "claimTakeover"} : Goto(w, step)
        BY <2>4 DEF ClaimRead
    <3>3. Others /\ pc'[w] \in {"ack", "claimInsert", "claimTakeover"}
        BY <3>1, <3>2, GotoEffect
    <3>4. pc'[w] # "ack" => inflight[KeyOf(w)] \notin {"processing", "review", "succeeded"}
        BY <2>4, <3>1, GotoEffect DEF ClaimRead, Skipped
    <3>5. pc'[w] = "claimTakeover" => inflight[KeyOf(w)] # "none"
        BY <2>4, <3>1, GotoEffect DEF ClaimRead
    <3>6. pc'[w] # "ack" => Alone
      <4> SUFFICES ASSUME pc'[w] # "ack", NEW v \in Workers \ {w}, pc[v] \in Active,
                          KeyOf(v) = KeyOf(w)
                   PROVE  FALSE
          OBVIOUS
      <4>1. pc[v] \notin Claiming
          BY <2>4 DEF ClaimRead, Claiming
      <4>2. pc[v] \notin Owning
          BY <3>4 DEF Exclusive
      <4> QED BY <4>1, <4>2 DEF Active
    <3>7. pc'[w] \in Active => pc'[w] # "ack"
        BY ActiveSteps
    <3>8. pc'[w] \notin Owning
        BY <3>3 DEF Owning
    <3>9. UNCHANGED <<inflight, msg>>
        BY <2>4 DEF ClaimRead
    <3>10. pc'[w] \in Claiming => inflight[KeyOf(w)] # "succeeded"
        BY <3>4 DEF Claiming
    <3> QED BY <3>3, <3>5, <3>6, <3>7, <3>8, <3>9, <3>10, ExclusiveStep
  \* Writing the claimed row as processing makes w its owner.
  <2>5. ASSUME pc[w] \in Claiming, UNCHANGED msg, Others,
               inflight'[KeyOf(w)] = "processing",
               \A j \in Keys \ {KeyOf(w)} : inflight'[j] = inflight[j],
               pc'[w] \notin Claiming
        PROVE  Exclusive'
    <3>1. Alone
        BY <2>5 DEF Exclusive, Active
    <3>2. \A v \in Workers \ {w} : pc[v] \in Active => KeyOf(v) \in Keys
        BY BusyHasKey, ActiveSteps
    <3>3. pc'[w] # "claimTakeover"
        BY <2>5 DEF Claiming
    <3> QED BY <2>5, <3>1, <3>2, <3>3, ExclusiveStep
  <2>6. CASE ClaimInsert(w)
    <3>1. Others /\ pc'[w] \in {"run", "insert", "nack"}
        BY <2>6, CommittedEffect DEF ClaimInsert, PCs, Owning
    <3>2. pc[w] \in Claiming /\ pc[w] # "idle"
        BY <2>6 DEF ClaimInsert, Claiming
    <3>3. pc'[w] \notin Claiming
        BY <3>1 DEF Claiming
    <3> QED BY <2>0, <2>5, <2>6, <3>1, <3>2, <3>3 DEF ClaimInsert, TypeOK
  <2>7. CASE ClaimTakeover(w)
    <3>1. Others /\ pc'[w] \in {"run", "nack"}
        BY <2>7, CommittedEffect DEF ClaimTakeover, PCs, Owning
    <3>2. pc[w] \in Claiming /\ pc[w] # "idle" /\ "processing" \in RowStates
        BY <2>7 DEF ClaimTakeover, Claiming, RowStates
    <3>3. inflight[KeyOf(w)] # "none"
        BY <2>7 DEF ClaimTakeover, Exclusive
    <3>4. pc'[w] \notin Claiming
        BY <3>1 DEF Claiming
    <3> QED
        BY <2>0, <2>5, <2>7, <3>1, <3>2, <3>3, <3>4, SetRowEffect DEF ClaimTakeover
  <2>8. CASE InsertIdempotent(w)
    <3>1. Others /\ pc'[w] \in {"run", "backfill", "nack"}
        BY <2>8, CommittedEffect DEF InsertIdempotent, PCs, Owning
    <3> QED
        BY <2>1, <2>8, <3>1, ActiveSteps DEF InsertIdempotent, Owning
  <2>9. CASE MarkHistoryBackfill(w)
    <3>1. Others /\ pc'[w] \in {"ack", "nack"}
        BY <2>9, CommittedEffect DEF MarkHistoryBackfill, PCs
    <3> QED
        BY <2>2, <2>9, <3>1, ActiveSteps
        DEF MarkHistoryBackfill, Active, Owning, RowStates
  <2>10. CASE ConsumerReturns(w)
    <3>1. Others /\ pc'[w] = "succeed"
        BY <2>10, GotoEffect DEF ConsumerReturns, PCs, Owning
    <3> QED BY <2>1, <2>10, <3>1 DEF ConsumerReturns, Owning
  <2>11. CASE ConsumerRaises(w)
    <3>1. \E step \in {"succeed", "review", "fail"} : Goto(w, step)
        BY <2>11 DEF ConsumerRaises, RouteOf
    <3>2. Others /\ pc'[w] \in {"succeed", "review", "fail"}
        BY <3>1, GotoEffect DEF PCs, Owning
    <3> QED BY <2>1, <2>11, <3>2 DEF ConsumerRaises, Owning
  <2>12. CASE MarkSucceeded(w)
    <3>1. Others /\ pc'[w] \in {"ack", "nack"}
        BY <2>12, CommittedEffect DEF MarkSucceeded, PCs
    <3> QED
        BY <2>2, <2>12, <3>1, ActiveSteps DEF MarkSucceeded, Active, Owning, RowStates
  <2>13. CASE MarkFailed(w)
    <3>1. AfterFailure(msg[w].count) \in {"retry", "park", "nack"}
        BY DEF AfterFailure
    <3>2. Others /\ pc'[w] \in {"retry", "park", "nack"}
        BY <2>13, <3>1, CommittedEffect DEF MarkFailed, PCs, Awaits
    <3> QED
        BY <2>2, <2>13, <3>2, ActiveSteps DEF MarkFailed, Active, Owning, RowStates
  <2>14. CASE RetryPublish(w)
    <3>0. PICK accepted \in BOOLEAN : Confirm(w, "ack", "nack", accepted)
        BY <2>14 DEF RetryPublish
    <3>1. "ack" \in PCs /\ "nack" \in PCs
        BY DEF PCs
    <3>2. Others /\ pc'[w] \in {"ack", "nack"}
        BY <3>0, <3>1, ConfirmEffect
    <3> QED BY <2>1, <2>14, <3>2, ActiveSteps DEF RetryPublish
  <2>15. CASE ReviewPublish(w)
    <3>1. Others /\ \/ pc'[w] \in {"markParked", "nack"}
                    \/ pc[w] = "review" /\ pc'[w] \in {"markReview", "failThenRaise"}
        BY <2>15, ConfirmEffect DEF ReviewPublish, PCs, Owning, Awaits
    <3> QED BY <2>1, <2>15, <3>1, ActiveSteps DEF ReviewPublish, Owning
  <2>16. CASE MarkReview(w)
    <3>1. Others /\ pc'[w] \in {"ack", "nack"}
        BY <2>16, CommittedEffect DEF MarkReview, PCs
    <3>2. pc[w] # "idle" /\ "review" \in RowStates
        BY <2>16 DEF MarkReview, RowStates
    <3>3. \A v \in Workers \ {w} : pc[v] \in Active => KeyOf(v) \in Keys
        BY BusyHasKey, ActiveSteps
    <3>4. \A j \in Keys : inflight'[j] \in {inflight[j], "review"}
        BY <2>0, <2>16, <3>2, SetRowEffect DEF MarkReview
    <3> QED
        BY <2>16, <3>1, <3>3, <3>4, ExclusiveStep, ActiveSteps
        DEF MarkReview, Owning, Claiming, Active
  <2>17. CASE FailThenRaise(w)
    <3>1. Others /\ pc'[w] = "nack"
        BY <2>17, GotoEffect DEF FailThenRaise, PCs
    <3> QED
        BY <2>2, <2>17, <3>1, ActiveSteps DEF FailThenRaise, Active, Owning, RowStates
  <2>18. CASE Ack(w) \/ Nack(w)
    <3>1. Release(w) /\ UNCHANGED inflight
        BY <2>18 DEF Ack, Nack
    <3> QED
        BY <3>1, ReleaseEffect, ExclusiveStep, ActiveSteps DEF Owning, Active, Claiming
  <2> QED
      BY <1>9, <2>3, <2>4, <2>6, <2>7, <2>8, <2>9, <2>10, <2>11, <2>12, <2>13,
         <2>14, <2>15, <2>16, <2>17, <2>18 DEF WorkerStep, HandlerStep
<1> QED
    BY <1>1, <1>2, <1>3, <1>4, <1>5, <1>6, <1>7, <1>8, <1>9 DEF Next, Environment

LEMMA ExclusiveWhileLeased == Spec => [](Leased => Exclusive)
<1> DEFINE Inv == Leased => Exclusive
<1>1. Init => Inv
  <2> SUFFICES ASSUME Init PROVE Exclusive
      OBVIOUS
  <2>1. \A w \in Workers : pc[w] = "idle"
      BY DEF Init
  <2> QED BY <2>1 DEF Exclusive, Owning, Claiming
<1>2. TypeOK /\ Inv /\ [Next]_vars => Inv'
  <2> SUFFICES ASSUME TypeOK, Inv, [Next]_vars, Leased' PROVE Exclusive'
      OBVIOUS
  <2>1. Exclusive
      BY LeasedBefore
  <2> QED BY <2>1, ExclusiveInduction
<1> QED BY <1>1, <1>2, TypeCorrect, PTL DEF Spec

\* While leases outlive runs and no operator has deleted rows, the consumer of a
\* key never runs twice at the same time, whatever crashes, connections,
\* duplicates and replays do.
THEOREM OneHandlerPerKey == Spec => []MutualExclusion
<1>1. (Leased => Exclusive) => MutualExclusion
    BY DEF Exclusive, MutualExclusion, Owning
<1> QED BY <1>1, ExclusiveWhileLeased, PTL

--------------------------------------------------------------------------------
(* succeeded is final, while leases outlive runs and nobody clears rows. *)

\* Only the manual-review policy parks a row without holding its lease.
ParksByPolicy ==
    \A w \in Workers : pc[w] \in {"park", "markParked"} => OnError = "manual-review"

LEMMA ParksByPolicyAlways == Spec => []ParksByPolicy
<1>1. Init => ParksByPolicy
    BY DEF Init, ParksByPolicy
<1>2. TypeOK /\ ParksByPolicy /\ [Next]_vars => ParksByPolicy'
  <2> SUFFICES ASSUME TypeOK, ParksByPolicy, [Next]_vars PROVE ParksByPolicy'
      OBVIOUS
  <2> USE DEF queues, handlers, history
  \* A step of handler w that goes neither to park nor on to markParked.
  <2>1. ASSUME NEW w \in Workers,
               \A v \in Workers \ {w} : pc'[v] = pc[v],
               pc'[w] \in {"park", "markParked"} => OnError = "manual-review"
        PROVE  ParksByPolicy'
      BY <2>1 DEF ParksByPolicy
  <2>2. CASE UNCHANGED pc
      BY <2>2 DEF ParksByPolicy
  <2>3. ASSUME NEW w \in Workers, NEW step \in PCs \ {"park", "markParked"},
               Goto(w, step) \/ Committed(w, step)
        PROVE  ParksByPolicy'
    <3>1. /\ \A v \in Workers \ {w} : pc'[v] = pc[v]
          /\ pc'[w] \in {step, "nack"}
        BY <2>3, GotoEffect, CommittedEffect
    <3> QED BY <2>1, <2>3, <3>1
  <2>4. CASE Environment
    <3>1. ASSUME NEW w \in Workers, InfraError(w) PROVE ParksByPolicy'
        BY <2>3, <3>1 DEF InfraError, PCs
    <3>2. ASSUME NEW w \in Workers, Crash(w) PROVE ParksByPolicy'
        BY <2>1, <3>2, ReleaseEffect DEF Crash
    <3>3. CASE \/ \E k \in Keys : Publish(k) \/ LeaseExpires(k)
               \/ \E w \in Workers : ConnectionLoss(w)
               \/ \E S \in SUBSET Keys \ {{}} : ClearInflight(S)
               \/ \E m \in Message : Replay(m)
        BY <2>2, <3>3 DEF Publish, LeaseExpires, ConnectionLoss, ClearInflight, Replay
    <3> QED BY <2>4, <3>1, <3>2, <3>3 DEF Environment
  <2>5. ASSUME NEW w \in Workers, WorkerStep(w) PROVE ParksByPolicy'
    <3>0. {"claim", "claimInsert", "claimTakeover", "insert", "run", "backfill",
           "succeed", "fail", "review", "ack", "nack"} \subseteq PCs \ {"park", "markParked"}
        BY DEF PCs, Owning, Awaits
    <3>1. CASE \/ \E m \in Message : Deliver(w, m)
               \/ ClaimRead(w) \/ ClaimInsert(w) \/ ClaimTakeover(w)
               \/ InsertIdempotent(w) \/ MarkHistoryBackfill(w)
               \/ ConsumerReturns(w) \/ ConsumerRaises(w) \/ MarkSucceeded(w)
               \/ MarkReview(w) \/ FailThenRaise(w)
      <4>1. \E step \in PCs \ {"park", "markParked"} :
               Goto(w, step) \/ Committed(w, step)
          BY <3>0, <3>1
          DEF Deliver, ClaimRead, ClaimInsert, ClaimTakeover, InsertIdempotent,
              MarkHistoryBackfill, ConsumerReturns, ConsumerRaises, RouteOf,
              MarkSucceeded, MarkReview, FailThenRaise
      <4> QED BY <2>3, <4>1
    <3>2. CASE MarkFailed(w)
      <4>1. AfterFailure(msg[w].count) \in PCs
          BY DEF AfterFailure, PCs, Awaits
      <4>2. /\ \A v \in Workers \ {w} : pc'[v] = pc[v]
            /\ pc'[w] \in {AfterFailure(msg[w].count), "nack"}
          BY <3>2, <4>1, CommittedEffect DEF MarkFailed
      <4> QED BY <2>1, <4>2 DEF AfterFailure
    <3>3. CASE RetryPublish(w)
      <4>1. PICK accepted \in BOOLEAN : Confirm(w, "ack", "nack", accepted)
          BY <3>3 DEF RetryPublish
      <4>2. "ack" \in PCs /\ "nack" \in PCs
          BY DEF PCs
      <4>3. /\ \A v \in Workers \ {w} : pc'[v] = pc[v]
            /\ pc'[w] \in {"ack", "nack"}
          BY <4>1, <4>2, ConfirmEffect
      <4> QED BY <2>1, <4>3
    <3>4. CASE ReviewPublish(w)
      <4>1. PICK accepted \in BOOLEAN :
               \/ pc[w] = "review" /\ Confirm(w, "markReview", "failThenRaise", accepted)
               \/ pc[w] = "park" /\ Confirm(w, "markParked", "nack", accepted)
          BY <3>4 DEF ReviewPublish
      <4>2. {"markReview", "failThenRaise", "markParked", "nack"} \subseteq PCs
          BY DEF PCs, Owning, Awaits
      <4>3. /\ \A v \in Workers \ {w} : pc'[v] = pc[v]
            /\ pc'[w] \in {"markReview", "failThenRaise", "nack"} \/ pc[w] = "park"
          BY <4>1, <4>2, ConfirmEffect
      <4> QED BY <2>1, <4>3 DEF ParksByPolicy
    <3>5. CASE Ack(w) \/ Nack(w)
        BY <2>1, <3>5, ReleaseEffect DEF Ack, Nack
    <3> QED BY <2>5, <3>1, <3>2, <3>3, <3>4, <3>5 DEF WorkerStep, HandlerStep
  <2> QED BY <2>2, <2>4, <2>5 DEF Next, vars
<1> QED BY <1>1, <1>2, TypeCorrect, PTL DEF Spec

ClosedKept == \A k \in Keys : inflight[k] = "succeeded" => inflight'[k] = "succeeded"

\* No step touches a row that says succeeded: every writer of a row owns or
\* claims it, and its row is live.
LEMMA SucceededKept ==
    ASSUME TypeOK, Exclusive, ParksByPolicy, OnError # "manual-review", [Next]_vars
    PROVE  ClosedKept
<1> USE DEF queues, handlers, history
<1>1. CASE UNCHANGED inflight
    BY <1>1 DEF ClosedKept
<1>2. CASE Environment
  <2>1. ASSUME NEW k \in Keys, LeaseExpires(k) PROVE ClosedKept
      BY <2>1 DEF LeaseExpires, TypeOK, ClosedKept
  <2>2. ASSUME NEW S \in SUBSET Keys, ClearInflight(S) PROVE ClosedKept
      BY <2>2 DEF ClearInflight, ClosedKept
  <2> QED
      BY <1>1, <1>2, <2>1, <2>2
      DEF Environment, Publish, InfraError, Crash, ConnectionLoss, Replay
<1>3. ASSUME NEW w \in Workers, WorkerStep(w) PROVE ClosedKept
  <2>1. ASSUME NEW state, SetRow(KeyOf(w), state), inflight[KeyOf(w)] # "succeeded"
        PROVE  ClosedKept
      BY <2>1 DEF SetRow, TypeOK, ClosedKept
  <2>2. /\ pc[w] \in Owning => inflight[KeyOf(w)] # "succeeded"
        /\ pc[w] \in Claiming => inflight[KeyOf(w)] # "succeeded"
      BY DEF Exclusive
  <2>3. pc[w] # "markParked"
      BY DEF ParksByPolicy
  <2>4. CASE ClaimInsert(w)
      BY <2>2, <2>4 DEF ClaimInsert, Claiming, TypeOK, ClosedKept
  <2>5. CASE ClaimTakeover(w)
      BY <2>1, <2>2, <2>5 DEF ClaimTakeover, Claiming
  <2>6. CASE MarkHistoryBackfill(w) \/ MarkSucceeded(w) \/ MarkFailed(w)
             \/ MarkReview(w) \/ FailThenRaise(w)
      BY <2>1, <2>2, <2>3, <2>6
      DEF MarkHistoryBackfill, MarkSucceeded, MarkFailed, MarkReview, FailThenRaise, Owning
  <2>7. CASE \/ \E m \in Message : Deliver(w, m)
             \/ ClaimRead(w) \/ InsertIdempotent(w) \/ ConsumerReturns(w)
             \/ ConsumerRaises(w) \/ RetryPublish(w) \/ ReviewPublish(w)
             \/ Ack(w) \/ Nack(w)
      BY <1>1, <2>7
      DEF Deliver, ClaimRead, InsertIdempotent, ConsumerReturns, ConsumerRaises,
          RetryPublish, ReviewPublish, Ack, Nack
  <2> QED BY <1>3, <2>4, <2>5, <2>6, <2>7 DEF WorkerStep, HandlerStep
<1> QED BY <1>1, <1>2, <1>3 DEF Next, vars

\* While leases outlive runs and no operator has deleted rows, no step reopens a
\* succeeded row, but for the park of an exhausted event under manual-review.
THEOREM SucceededStays == Spec => SucceededIsFinal
<1>1. /\ TypeOK /\ (Leased => Exclusive) /\ ParksByPolicy /\ [Next]_vars
      => [Leased /\ OnError # "manual-review" => ClosedKept]_vars
    BY SucceededKept
<1> QED
    BY <1>1, TypeCorrect, ExclusiveWhileLeased, ParksByPolicyAlways, PTL
    DEF Spec, SucceededIsFinal, ClosedKept

--------------------------------------------------------------------------------
(* No event is lost while no worker dies and no operator interferes. *)

Closing == Owning \cup {"nack"}

LEMMA ClosingSteps ==
    /\ Closing \cap {"idle", "claim", "claimInsert", "claimTakeover", "ack",
                     "retry", "park", "markParked"} = {}
    /\ HasRow \cap {"idle", "claim", "claimInsert", "ack", "nack"} = {}
    /\ Owning \subseteq HasRow
BY DEF Closing, HasRow, Owning

\* An anchor is a custodian: its handler has not been acked yet.
LEMMA AnchorKeeps ==
    ASSUME Accounted, NEW k \in Keys, Anchored(k)
    PROVE  Custodian(k)
BY ClosingSteps DEF Accounted, Anchored, Custodian, Carries, Closing

\* A step of handler w on its key keeps the account and custody if what it writes
\* is covered: a live row by the handler itself or by whoever covered it before,
\* a parked row by its envelope, and an ack by a row or copy that outlives it.
LEMMA CustodyStep ==
    ASSUME TypeOK, Accounted, AtLeastOnce, NEW w \in Workers,
           UNCHANGED <<msg, held, dlq, emitted>>,
           \A v \in Workers \ {w} : pc'[v] = pc[v],
           pc[w] # "idle", pc'[w] # "idle",
           \A m \in Message : ready[m] > 0 => ready'[m] > 0,
           \A k \in Keys : reviewQ[k] > 0 => reviewQ'[k] > 0,
           \A j \in Keys \ {KeyOf(w)} : inflight'[j] = inflight[j],
           inflight[KeyOf(w)] # "none" => inflight'[KeyOf(w)] # "none",
           inflight'[KeyOf(w)] = "processing" =>
              \/ pc'[w] \in Closing
              \/ pc[w] \notin Closing /\ inflight[KeyOf(w)] = "processing",
           inflight'[KeyOf(w)] = "review" => reviewQ'[KeyOf(w)] > 0,
           pc'[w] \in {"markReview", "markParked"} => reviewQ'[KeyOf(w)] > 0,
           pc'[w] \in HasRow => inflight'[KeyOf(w)] # "none",
           pc'[w] = "retry" => msg[w].count + 1 < RetryN,
           pc'[w] = "ack" =>
              \/ inflight'[KeyOf(w)] \in {"succeeded", "review", "processing"}
              \/ Copies(ready', KeyOf(w))
    PROVE  Accounted' /\ AtLeastOnce'
<1>1. KeyOf(w) \in Keys
    BY BusyHasKey
<1>2. \A v \in Workers : KeyOf(v)' = KeyOf(v)
    BY DEF KeyOf
<1>3. ASSUME NEW k \in Keys, inflight'[k] = "processing"
      PROVE  Anchored(k)'
  <2>1. CASE k = KeyOf(w) /\ pc'[w] \in Closing
      BY <1>2, <2>1 DEF Anchored, Closing
  <2>2. CASE k = KeyOf(w) /\ pc[w] \notin Closing /\ inflight[k] = "processing"
    <3>1. Anchored(k)
        BY <1>3, <2>2 DEF Accounted
    <3> QED BY <1>2, <2>2, <3>1 DEF Anchored, Closing, Copies
  <2>3. CASE k # KeyOf(w)
    <3>1. Anchored(k)
        BY <1>3, <2>3 DEF Accounted
    <3> QED BY <1>2, <2>3, <3>1 DEF Anchored, Copies
  <2> QED BY <1>3, <2>1, <2>2, <2>3
<1>4. Accounted'
  <2>1. \A k \in Keys : inflight'[k] = "review" => reviewQ'[k] > 0
      BY <1>1 DEF Accounted
  <2>2. ASSUME NEW v \in Workers
        PROVE  /\ held'[v] <=> pc'[v] # "idle"
               /\ pc'[v] \in {"markReview", "markParked"} => reviewQ'[KeyOf(v)'] > 0
               /\ pc'[v] \in HasRow => inflight'[KeyOf(v)'] # "none"
               /\ pc'[v] = "retry" => msg'[v].count + 1 < RetryN
    <3>1. CASE v = w
        BY <1>2, <3>1 DEF Accounted
    <3>2. CASE v # w /\ pc[v] = "idle"
        BY <3>2, ClosingSteps DEF Accounted
    <3>3. CASE v # w /\ pc[v] # "idle"
      <4>1. KeyOf(v) \in Keys
          BY <3>3, BusyHasKey
      <4> QED BY <1>2, <3>3, <4>1 DEF Accounted
    <3> QED BY <3>1, <3>2, <3>3
  <2> QED BY <1>3, <2>1, <2>2 DEF Accounted
<1>5. ASSUME NEW k \in emitted', inflight'[k] # "succeeded"
      PROVE  Custodian(k)'
  <2>0. k \in Keys /\ k \in emitted
      BY <1>5 DEF TypeOK
  <2>1. CASE k = KeyOf(w) /\ pc'[w] # "ack"
      BY <1>2, <1>4, <2>1 DEF Custodian, Carries, Accounted
  <2>2. CASE k = KeyOf(w) /\ pc'[w] = "ack" /\ inflight'[k] = "processing"
    <3>1. Anchored(k)'
        BY <1>3, <2>0, <2>2
    <3> QED BY <1>2, <1>4, <2>2, <3>1, ClosingSteps
            DEF Accounted, Anchored, Custodian, Carries, Closing
  <2>3. CASE k = KeyOf(w) /\ pc'[w] = "ack" /\ inflight'[k] # "processing"
      BY <1>5, <2>3 DEF Custodian, Copies
  <2>4. CASE k # KeyOf(w)
    <3>1. Custodian(k)
        BY <1>5, <2>0, <2>4 DEF AtLeastOnce
    <3>2. CASE Copies(ready, k) \/ Copies(dlq, k) \/ reviewQ[k] > 0
        BY <2>0, <3>2 DEF Copies, Custodian
    <3>3. CASE \E v \in Workers : Carries(v, k)
        BY <1>2, <2>4, <3>3 DEF Carries, Custodian
    <3> QED BY <3>1, <3>2, <3>3 DEF Custodian
  <2> QED BY <2>1, <2>2, <2>3, <2>4
<1> QED BY <1>4, <1>5 DEF AtLeastOnce

\* An event that has not happened by the next state is not this step.
LEMMA NeverSpent ==
    ASSUME TypeOK, Undisturbed', NEW e \in {"crash", "loss", "clear", "replay"}
    PROVE  ~Spend(e)
<1>1. e \in Events
    BY DEF Events
<1>2. spent[e] \in Nat /\ spent'[e] = 0
    BY <1>1 DEF TypeOK, Undisturbed
<1> QED BY <1>1, <1>2, SpendEffect

LEMMA CustodyEnvironment ==
    ASSUME Undisturbed', TypeOK, Accounted, AtLeastOnce, Environment
    PROVE  Accounted' /\ AtLeastOnce'
<1> USE DEF queues, handlers, history
<1>1. ASSUME NEW k \in Keys, Publish(k) PROVE Accounted' /\ AtLeastOnce'
  <2> DEFINE m == [key |-> k, count |-> 0]
  <2>1. m \in Message /\ m.key = k
      BY ConstantsAssumption DEF Message
  <2> HIDE DEF m
  <2>2. \A n \in Message : ready'[n] = IF n = m THEN ready[n] + 1 ELSE ready[n]
      BY <1>1, <2>1, AddEffect DEF Publish, TypeOK, m
  <2>3. \A n \in Message : ready[n] \in Nat
      BY DEF TypeOK
  <2>4. Copies(ready', k) /\ \A j \in Keys : Copies(ready, j) => Copies(ready', j)
      BY <2>1, <2>2, <2>3 DEF Copies
  <2>5. Accounted'
      BY <1>1 DEF Publish, Accounted, Anchored, KeyOf, Copies
  <2>6. ASSUME NEW j \in emitted', inflight'[j] # "succeeded" PROVE Custodian(j)'
    <3>1. CASE j = k
        BY <2>4, <3>1 DEF Custodian, Copies
    <3>2. CASE j # k
      <4>1. j \in emitted /\ j \in Keys /\ Custodian(j)
          BY <1>1, <2>6, <3>2 DEF Publish, AtLeastOnce, TypeOK
      <4>2. UNCHANGED <<dlq, reviewQ, pc, msg, held>>
          BY <1>1 DEF Publish
      <4> QED BY <2>4, <4>1, <4>2 DEF Custodian, Copies, Carries, KeyOf
    <3> QED BY <3>1, <3>2
  <2> QED BY <2>5, <2>6 DEF AtLeastOnce
<1>2. ASSUME NEW k \in Keys, LeaseExpires(k) PROVE Accounted' /\ AtLeastOnce'
  <2>1. UNCHANGED <<ready, dlq, reviewQ, pc, msg, held, emitted>>
      BY <1>2 DEF LeaseExpires
  <2>2. /\ inflight[k] = "processing" /\ inflight'[k] = "expired"
        /\ \A j \in Keys \ {k} : inflight'[j] = inflight[j]
      BY <1>2 DEF LeaseExpires, TypeOK
  <2>3. \A w \in Workers : pc[w] \in HasRow => KeyOf(w) \in Keys
      BY BusyHasKey, ClosingSteps
  <2>4. Accounted'
      BY <2>1, <2>2, <2>3 DEF Accounted, Anchored, Copies, KeyOf
  <2>5. AtLeastOnce'
      BY <2>1, <2>2 DEF AtLeastOnce, Custodian, Copies, Carries, KeyOf, TypeOK
  <2> QED BY <2>4, <2>5
<1>3. ASSUME NEW w \in Workers, InfraError(w) PROVE Accounted' /\ AtLeastOnce'
  <2>1. "nack" \in PCs
      BY DEF PCs
  <2>2. pc'[w] = "nack" /\ \A v \in Workers \ {w} : pc'[v] = pc[v]
      BY <1>3, <2>1, GotoEffect DEF InfraError
  <2>3. pc[w] # "idle"
      BY <1>3 DEF InfraError, Awaits, Owning
  <2>4. KeyOf(w) \in Keys
      BY <2>3, BusyHasKey
  <2> QED
      BY <1>3, <2>2, <2>3, <2>4, CustodyStep, ClosingSteps
      DEF InfraError, Accounted, Closing
<1>4. ASSUME NEW w \in Workers, Crash(w) \/ ConnectionLoss(w) PROVE FALSE
    BY <1>4, NeverSpent DEF Crash, ConnectionLoss
<1>5. ASSUME NEW S \in SUBSET Keys, ClearInflight(S) PROVE FALSE
    BY <1>5, NeverSpent DEF ClearInflight
<1>6. ASSUME NEW m \in Message, Replay(m) PROVE FALSE
    BY <1>6, NeverSpent DEF Replay
<1> QED BY <1>1, <1>2, <1>3, <1>4, <1>5, <1>6 DEF Environment

LEMMA CustodyWorker ==
    ASSUME TypeOK, Accounted, AtLeastOnce, NEW w \in Workers, WorkerStep(w)
    PROVE  Accounted' /\ AtLeastOnce'
<1> USE DEF queues, handlers, history
<1> DEFINE Others == \A v \in Workers \ {w} : pc'[v] = pc[v]
           Kept   == UNCHANGED <<msg, held, dlq, emitted>>
           Done   == Accounted' /\ AtLeastOnce'
<1>0. pc[w] # "idle" => KeyOf(w) \in Keys /\ msg[w] \in Message
    BY BusyHasKey
\* Steps that touch neither rows nor queues.
<1>1. ASSUME pc[w] # "idle", UNCHANGED <<inflight, ready, reviewQ>>, Kept, Others,
             pc'[w] \notin {"idle", "ack", "retry", "markReview", "markParked"},
             pc[w] \in Closing => pc'[w] \in Closing,
             pc'[w] \in HasRow => inflight[KeyOf(w)] # "none"
      PROVE  Done
    BY <1>0, <1>1, CustodyStep DEF Accounted
\* Steps that only write the row.
<1>2. ASSUME NEW state \in {"succeeded", "failed", "review", "processing"},
             SetRow(KeyOf(w), state),
             pc[w] \in HasRow, UNCHANGED <<ready, reviewQ>>, Kept, Others,
             pc'[w] \notin {"idle", "markReview", "markParked"},
             state = "processing" => pc'[w] \in Closing,
             state = "review" => reviewQ[KeyOf(w)] > 0,
             pc'[w] = "ack" => state \in {"succeeded", "review"},
             pc'[w] = "retry" => msg[w].count + 1 < RetryN
      PROVE  Done
  <2>1. pc[w] # "idle" /\ state \in RowStates
      BY <1>2, ClosingSteps DEF RowStates
  <2>2. inflight[KeyOf(w)] # "none"
      BY <1>2 DEF Accounted
  <2>3. inflight'[KeyOf(w)] = state
      BY <1>0, <1>2, <2>1, <2>2, SetRowEffect
  <2>4. \A j \in Keys \ {KeyOf(w)} : inflight'[j] = inflight[j]
      BY <1>0, <1>2, <2>1, SetRowEffect
  <2> QED BY <1>2, <2>1, <2>3, <2>4, CustodyStep
<1>3. ASSUME NEW m \in Message, Deliver(w, m) PROVE Done
  <2>1. pc[w] = "idle" /\ pc'[w] = "claim" /\ Others
      BY <1>3, GotoEffect DEF Deliver, PCs, Awaits
  <2>2. /\ held'[w] /\ msg'[w] = m
        /\ \A v \in Workers \ {w} : msg'[v] = msg[v] /\ held'[v] = held[v]
        /\ UNCHANGED <<dlq, reviewQ, inflight, emitted>>
      BY <1>3 DEF Deliver, TypeOK
  <2>3. \A n \in Message \ {m} : ready'[n] = ready[n]
      BY <1>3, RemoveEffect DEF Deliver, TypeOK
  <2>4. ~held[w]
      BY <2>1 DEF Accounted
  <2>5. Accounted'
    <3>1. ASSUME NEW k \in Keys, inflight'[k] = "processing" PROVE Anchored(k)'
      <4>1. Anchored(k)
          BY <2>2, <3>1 DEF Accounted
      <4> QED BY <2>1, <2>2, <4>1, ClosingSteps DEF Anchored, Copies, Closing, KeyOf
    <3>2. ASSUME NEW v \in Workers
          PROVE  /\ held'[v] <=> pc'[v] # "idle"
                 /\ pc'[v] \in {"markReview", "markParked"} => reviewQ'[KeyOf(v)'] > 0
                 /\ pc'[v] \in HasRow => inflight'[KeyOf(v)'] # "none"
                 /\ pc'[v] = "retry" => msg'[v].count + 1 < RetryN
      <4>1. CASE v = w
          BY <2>1, <2>2, <4>1, ClosingSteps
      <4>2. CASE v # w
          BY <2>1, <2>2, <4>2 DEF Accounted, KeyOf
      <4> QED BY <4>1, <4>2
    <3> QED BY <2>2, <3>1, <3>2 DEF Accounted
  <2>6. ASSUME NEW k \in emitted', inflight'[k] # "succeeded" PROVE Custodian(k)'
    <3>1. Custodian(k)
        BY <2>2, <2>6 DEF AtLeastOnce
    <3>2. CASE m.key = k
        BY <2>1, <2>2, <3>2 DEF Custodian, Carries, KeyOf
    <3>3. CASE m.key # k /\ Copies(ready, k)
        BY <2>3, <3>3 DEF Custodian, Copies
    <3>4. CASE Copies(dlq, k) \/ reviewQ[k] > 0
        BY <2>2, <3>4 DEF Custodian, Copies
    <3>5. CASE \E v \in Workers : Carries(v, k)
        BY <2>1, <2>2, <2>4, <3>5 DEF Custodian, Carries, KeyOf
    <3> QED BY <3>1, <3>2, <3>3, <3>4, <3>5 DEF Custodian
  <2> QED BY <2>5, <2>6 DEF AtLeastOnce
<1>4. CASE ClaimRead(w)
  <2>1. {"ack", "claimInsert", "claimTakeover"} \subseteq PCs
      BY DEF PCs, Awaits
  <2>2. pc[w] = "claim" /\ UNCHANGED <<inflight, ready, reviewQ>> /\ Kept
      BY <1>4 DEF ClaimRead
  <2>3. CASE Skipped(inflight[KeyOf(w)]) /\ Goto(w, "ack")
    <3>1. pc'[w] = "ack" /\ Others
        BY <2>1, <2>3, GotoEffect
    <3>2. inflight[KeyOf(w)] \in {"succeeded", "review", "processing"}
        BY <2>3 DEF Skipped
    <3> QED
        BY <1>0, <2>2, <3>1, <3>2, CustodyStep, ClosingSteps DEF Accounted
  <2>4. CASE Goto(w, "claimInsert")
    <3>1. pc'[w] = "claimInsert" /\ Others
        BY <2>1, <2>4, GotoEffect
    <3> QED BY <1>1, <2>2, <3>1, ClosingSteps
  <2>5. CASE inflight[KeyOf(w)] # "none" /\ Goto(w, "claimTakeover")
    <3>1. pc'[w] = "claimTakeover" /\ Others
        BY <2>1, <2>5, GotoEffect
    <3> QED BY <1>1, <2>2, <2>5, <3>1, ClosingSteps
  <2> QED BY <1>4, <2>3, <2>4, <2>5 DEF ClaimRead
<1>5. CASE ClaimInsert(w)
  <2>1. {"run", "insert"} \subseteq PCs /\ pc[w] # "idle"
      BY <1>5 DEF PCs, Owning, ClaimInsert
  <2>2. Others /\ pc'[w] \in {"run", "insert", "nack"}
      BY <1>5, <2>1, CommittedEffect DEF ClaimInsert
  <2>3. pc'[w] \in Closing
      BY <2>2 DEF Closing, Owning
  <2>4. /\ inflight'[KeyOf(w)] = "processing"
        /\ \A j \in Keys \ {KeyOf(w)} : inflight'[j] = inflight[j]
      BY <1>0, <1>5, <2>1 DEF ClaimInsert, TypeOK
  <2>5. Kept /\ UNCHANGED <<ready, reviewQ>>
      BY <1>5 DEF ClaimInsert
  <2> QED BY <2>1, <2>2, <2>3, <2>4, <2>5, CustodyStep
<1>6. CASE ClaimTakeover(w)
  <2>1. Others /\ pc'[w] \in {"run", "nack"}
      BY <1>6, CommittedEffect DEF ClaimTakeover, PCs, Owning
  <2>2. pc'[w] \in Closing /\ pc[w] \in HasRow
      BY <1>6, <2>1 DEF Closing, Owning, HasRow, ClaimTakeover
  <2> QED BY <1>2, <1>6, <2>1, <2>2, ClosingSteps DEF ClaimTakeover
<1>7. CASE InsertIdempotent(w)
  <2>1. Others /\ pc'[w] \in {"run", "backfill", "nack"}
      BY <1>7, CommittedEffect DEF InsertIdempotent, PCs, Owning
  <2>2. pc'[w] \in Closing /\ pc[w] \in HasRow /\ pc[w] # "idle"
      BY <1>7, <2>1 DEF Closing, Owning, HasRow, InsertIdempotent
  <2> QED BY <1>1, <1>7, <2>1, <2>2 DEF InsertIdempotent, Accounted
<1>8. CASE MarkHistoryBackfill(w) \/ MarkSucceeded(w)
  <2>1. Others /\ pc'[w] \in {"ack", "nack"}
      BY <1>8, CommittedEffect DEF MarkHistoryBackfill, MarkSucceeded, PCs
  <2>2. pc[w] \in HasRow
      BY <1>8 DEF HasRow, Owning, MarkHistoryBackfill, MarkSucceeded
  <2> QED BY <1>2, <1>8, <2>1, <2>2 DEF MarkHistoryBackfill, MarkSucceeded
<1>9. CASE ConsumerReturns(w) \/ ConsumerRaises(w)
  <2>1. \E step \in {"succeed", "review", "fail"} : Goto(w, step)
      BY <1>9 DEF ConsumerReturns, ConsumerRaises, RouteOf
  <2>2. Others /\ pc'[w] \in {"succeed", "review", "fail"}
      BY <2>1, GotoEffect DEF PCs, Owning
  <2>3. pc'[w] \in Closing /\ pc[w] \in HasRow /\ pc[w] # "idle"
      BY <1>9, <2>2 DEF Closing, Owning, HasRow, ConsumerReturns, ConsumerRaises
  <2>4. Kept /\ UNCHANGED <<inflight, ready, reviewQ>>
      BY <1>9 DEF ConsumerReturns, ConsumerRaises
  <2> QED BY <1>1, <2>2, <2>3, <2>4 DEF Accounted
<1>10. CASE MarkFailed(w)
  <2>1. AfterFailure(msg[w].count) \in {"retry", "park", "nack"}
      BY DEF AfterFailure
  <2>2. Others /\ pc'[w] \in {AfterFailure(msg[w].count), "nack"}
      BY <1>10, <2>1, CommittedEffect DEF MarkFailed, PCs, Awaits
  <2>3. pc[w] \in HasRow
      BY <1>10 DEF HasRow, Owning, MarkFailed
  <2>4. pc'[w] = "retry" => msg[w].count + 1 < RetryN
      BY <2>2 DEF AfterFailure
  <2>5. SetRow(KeyOf(w), "failed") /\ Kept /\ UNCHANGED <<ready, reviewQ>>
      BY <1>10 DEF MarkFailed
  <2> QED BY <1>2, <2>1, <2>2, <2>3, <2>4, <2>5
<1>11. CASE RetryPublish(w)
  <2> DEFINE n == [msg[w] EXCEPT !.count = @ + 1]
  <2>1. pc[w] = "retry" /\ Kept /\ UNCHANGED <<inflight, reviewQ>>
      BY <1>11 DEF RetryPublish
  <2>2. n \in Message /\ n.key = KeyOf(w)
    <3>1. msg[w].count + 1 < RetryN /\ msg[w] \in Message
        BY <1>0, <2>1 DEF Accounted
    <3> QED BY <3>1, ConstantsAssumption DEF Message, KeyOf
  <2>3. PICK accepted \in BOOLEAN :
            /\ ready' = IF accepted THEN Add(ready, n) ELSE ready
            /\ Confirm(w, "ack", "nack", accepted)
      BY <1>11 DEF RetryPublish
  <2> HIDE DEF n
  <2>4. Others /\ ((pc'[w] = "ack" /\ accepted) \/ pc'[w] = "nack")
    <3>1. "ack" \in PCs /\ "nack" \in PCs /\ Confirm(w, "ack", "nack", accepted)
        BY <2>3 DEF PCs
    <3> QED BY <3>1, ConfirmEffect
  <2>5. \A m \in Message : ready[m] \in Nat /\ (ready[m] > 0 => ready'[m] > 0)
      BY <2>3, AddEffect DEF TypeOK
  <2>6. pc'[w] = "ack" => Copies(ready', KeyOf(w))
    <3> SUFFICES ASSUME pc'[w] = "ack" PROVE Copies(ready', KeyOf(w))
        OBVIOUS
    <3>1. ready'[n] = ready[n] + 1
        BY <2>2, <2>3, <2>4, AddEffect DEF TypeOK
    <3>2. ready'[n] > 0
        BY <2>2, <2>5, <3>1
    <3> QED BY <2>2, <3>2 DEF Copies
  <2> QED
      BY <1>0, <2>1, <2>4, <2>5, <2>6, CustodyStep, ClosingSteps
      DEF Accounted, Closing
<1>12. CASE ReviewPublish(w)
  <2>1. /\ pc[w] \in {"review", "park"} /\ Kept /\ UNCHANGED <<inflight, ready>>
        /\ KeyOf(w) \in Keys /\ pc[w] \in HasRow
      BY <1>0, <1>12 DEF ReviewPublish, HasRow, Owning
  <2>2. PICK accepted \in BOOLEAN :
            /\ reviewQ' = IF accepted THEN Add(reviewQ, KeyOf(w)) ELSE reviewQ
            /\ \/ pc[w] = "review" /\ Confirm(w, "markReview", "failThenRaise", accepted)
               \/ pc[w] = "park" /\ Confirm(w, "markParked", "nack", accepted)
      BY <1>12 DEF ReviewPublish
  <2>3. /\ Others
        /\ \/ pc'[w] \in {"markReview", "markParked"} /\ accepted
           \/ pc'[w] \in {"failThenRaise", "nack"}
        /\ pc[w] = "review" => pc'[w] \in {"markReview", "failThenRaise"}
        /\ pc[w] = "park" => pc'[w] \in {"markParked", "nack"}
      BY <2>2, ConfirmEffect DEF PCs, Owning, Awaits
  <2>4. \A k \in Keys : reviewQ[k] \in Nat /\ (reviewQ[k] > 0 => reviewQ'[k] > 0)
      BY <2>2, AddEffect DEF TypeOK
  <2>5. accepted => reviewQ'[KeyOf(w)] > 0
    <3>1. accepted => reviewQ'[KeyOf(w)] = reviewQ[KeyOf(w)] + 1
        BY <2>1, <2>2, AddEffect DEF TypeOK
    <3> QED BY <2>1, <2>4, <3>1
  <2>6. inflight[KeyOf(w)] # "none"
      BY <2>1 DEF Accounted
  <2>7. pc'[w] \in Closing \/ pc[w] \notin Closing
      BY <2>1, <2>3 DEF Closing, Owning
  <2> QED
      BY <2>1, <2>3, <2>4, <2>5, <2>6, <2>7, CustodyStep, ClosingSteps DEF Accounted
<1>13. CASE MarkReview(w)
  <2>1. Others /\ pc'[w] \in {"ack", "nack"}
      BY <1>13, CommittedEffect DEF MarkReview, PCs
  <2>2. pc[w] \in HasRow /\ reviewQ[KeyOf(w)] > 0
      BY <1>13 DEF HasRow, Owning, MarkReview, Accounted
  <2> QED BY <1>2, <1>13, <2>1, <2>2 DEF MarkReview
<1>14. CASE FailThenRaise(w)
  <2>1. Others /\ pc'[w] = "nack"
      BY <1>14, GotoEffect DEF FailThenRaise, PCs
  <2>2. pc[w] \in HasRow
      BY <1>14 DEF HasRow, Owning, FailThenRaise
  <2> QED BY <1>2, <1>14, <2>1, <2>2 DEF FailThenRaise
<1>15. CASE Ack(w) \/ Nack(w)
  <2>1. /\ Release(w) /\ UNCHANGED <<ready, reviewQ, inflight, emitted>>
        /\ pc[w] \in {"ack", "nack"}
      BY <1>15 DEF Ack, Nack
  <2>2. /\ pc'[w] = "idle" /\ ~held'[w] /\ held[w]
        /\ \A v \in Workers \ {w} :
              pc'[v] = pc[v] /\ msg'[v] = msg[v] /\ held'[v] = held[v]
      BY <2>1, ReleaseEffect DEF Accounted
  <2>3. /\ \A k \in Keys : Copies(dlq, k) => Copies(dlq', k)
        /\ pc[w] = "nack" => Copies(dlq', KeyOf(w))
    <3>1. CASE Ack(w)
        BY <3>1 DEF Ack
    <3>2. CASE Nack(w)
      <4>1. msg[w] \in Message /\ dlq' = Add(dlq, msg[w])
          BY <1>0, <2>1, <2>2, <3>2 DEF Nack
      <4>2. \A m \in Message :
               dlq[m] \in Nat /\ dlq'[m] = IF m = msg[w] THEN dlq[m] + 1 ELSE dlq[m]
          BY <4>1, AddEffect DEF TypeOK
      <4>3. dlq'[msg[w]] > 0
          BY <4>1, <4>2
      <4> QED BY <4>1, <4>2, <4>3 DEF Copies, KeyOf
    <3> QED BY <1>15, <3>1, <3>2
  <2>4. ASSUME NEW k \in Keys, Anchored(k) PROVE Anchored(k)'
    <3>1. CASE Copies(dlq, k)
        BY <2>3, <3>1 DEF Anchored, Copies
    <3>2. CASE KeyOf(w) = k /\ pc[w] = "nack"
        BY <2>3, <3>2 DEF Anchored, Copies
    <3>3. CASE \E v \in Workers \ {w} : KeyOf(v) = k /\ pc[v] \in Closing
        BY <2>2, <3>3 DEF Anchored, KeyOf, Closing
    <3> QED BY <2>1, <2>4, <3>1, <3>2, <3>3, ClosingSteps DEF Anchored, Closing
  <2>5. Accounted'
    <3>1. ASSUME NEW v \in Workers
          PROVE  /\ held'[v] <=> pc'[v] # "idle"
                 /\ pc'[v] \in {"markReview", "markParked"} => reviewQ'[KeyOf(v)'] > 0
                 /\ pc'[v] \in HasRow => inflight'[KeyOf(v)'] # "none"
                 /\ pc'[v] = "retry" => msg'[v].count + 1 < RetryN
      <4>1. CASE v = w
          BY <2>2, <4>1, ClosingSteps
      <4>2. CASE v # w
          BY <2>1, <2>2, <4>2 DEF Accounted, KeyOf
      <4> QED BY <4>1, <4>2
    <3> QED BY <2>1, <2>4, <3>1 DEF Accounted
  <2>6. ASSUME NEW k \in emitted', inflight'[k] # "succeeded" PROVE Custodian(k)'
    <3>0. k \in Keys
        BY <2>1, <2>6 DEF TypeOK
    <3>1. Custodian(k)
        BY <2>1, <2>6 DEF AtLeastOnce
    <3>2. CASE Copies(ready, k) \/ Copies(dlq, k) \/ reviewQ[k] > 0
        BY <2>1, <2>3, <3>0, <3>2 DEF Custodian, Copies
    <3>3. ASSUME NEW v \in Workers, Carries(v, k) PROVE Custodian(k)'
      <4>1. CASE v = w
          BY <2>1, <2>3, <3>3, <4>1 DEF Carries, Custodian, Copies
      <4>2. CASE v # w
          BY <2>2, <3>3, <4>2 DEF Carries, Custodian, KeyOf
      <4> QED BY <4>1, <4>2
    <3> QED BY <3>1, <3>2, <3>3 DEF Custodian
  <2> QED BY <2>5, <2>6 DEF AtLeastOnce
<1> QED
    BY <1>3, <1>4, <1>5, <1>6, <1>7, <1>8, <1>9, <1>10, <1>11, <1>12, <1>13,
       <1>14, <1>15 DEF WorkerStep, HandlerStep

\* As long as no worker died, no connection dropped and no operator interfered, an
\* emitted event whose row does not say succeeded is still in a queue or with a
\* handler the broker waits for: duplicates, retries, leases that expire under a
\* running handler and failing database or broker calls lose nothing.
THEOREM NothingIsLost == Spec => []Custody
<1> DEFINE Inv == Undisturbed => Accounted /\ AtLeastOnce
<1>1. Init => Inv
  <2> SUFFICES ASSUME Init PROVE Accounted /\ AtLeastOnce
      OBVIOUS
  <2>1. /\ \A w \in Workers : pc[w] = "idle" /\ held[w] = FALSE
        /\ \A k \in Keys : inflight[k] = "none"
        /\ emitted = {}
      BY DEF Init
  <2> QED BY <2>1, ClosingSteps DEF Accounted, AtLeastOnce
<1>2. TypeOK /\ Inv /\ [Next]_vars => Inv'
  <2> SUFFICES ASSUME TypeOK, Inv, [Next]_vars, Undisturbed'
               PROVE  Accounted' /\ AtLeastOnce'
      OBVIOUS
  <2>0. Accounted /\ AtLeastOnce
      BY UndisturbedBefore
  <2>1. CASE Environment
      BY <2>0, <2>1, CustodyEnvironment
  <2>2. CASE \E w \in Workers : WorkerStep(w)
      BY <2>0, <2>2, CustodyWorker
  <2>3. CASE UNCHANGED vars
      BY <2>0, <2>3 DEF vars, queues, handlers, history, Accounted, Anchored,
                        AtLeastOnce, Custodian, Copies, Carries, KeyOf
  <2> QED BY <2>1, <2>2, <2>3 DEF Next
<1>3. Inv => Custody
    BY DEF Custody
<1> HIDE DEF Inv
<1> QED BY <1>1, <1>2, <1>3, TypeCorrect, PTL DEF Spec

--------------------------------------------------------------------------------
(* Repeats need faults, while leases outlive runs and nobody clears rows. *)

Mishaps == spent["fault"] + spent["crash"]

\* Nobody is going to run the consumer of k: its row is terminal, or a handler is about
\* to close it, or the Data row that history left is yet to be found.
Calm(k) ==
    /\ \A w \in Workers : KeyOf(w) = k =>
          \/ pc[w] \notin Active
          \/ pc[w] \in {"backfill", "succeed"}
          \/ pc[w] \in {"claimInsert", "insert"} /\ k \in dataRow /\ ~IsAdoption
    /\ \/ inflight[k] \in {"succeeded", "review"}
       \/ inflight[k] = "none" /\ k \in dataRow /\ ~IsAdoption
       \/ \E w \in Workers : KeyOf(w) = k /\ pc[w] \in {"insert", "backfill", "succeed"}

\* Each run but one has a fault or a death to its name; when none is left over, the
\* key is calm.
Charged ==
    \A k \in Keys :
        /\ runs[k] <= 1 + Mishaps
        /\ runs[k] = 1 + Mishaps => Calm(k)

LEMMA MishapsGrow ==
    ASSUME TypeOK, [Next]_vars
    PROVE  Mishaps \in Nat /\ Mishaps' \in Nat /\ Mishaps' >= Mishaps
BY SpentGrows DEF Grew, TypeOK, Mishaps, Events

LEMMA FaultIsMishap ==
    ASSUME TypeOK, NEW e \in {"fault", "crash"}, Spend(e)
    PROVE  Mishaps' = Mishaps + 1
<1>1. {"fault", "crash"} \subseteq Events
    BY DEF Events
<1>2. /\ spent'[e] = spent[e] + 1
      /\ \A d \in Events \ {e} : spent'[d] = spent[d]
      /\ \A d \in Events : spent[d] \in Nat
    BY <1>1, SpendEffect DEF TypeOK
<1> QED BY <1>1, <1>2 DEF Mishaps

LEMMA OtherIsNone ==
    ASSUME TypeOK, NEW e \in {"publish", "loss", "clear", "replay"}, Spend(e)
    PROVE  Mishaps' = Mishaps
<1>1. {"fault", "crash"} \subseteq Events \ {e} /\ e \in Events
    BY DEF Events
<1> QED BY <1>1, SpendEffect DEF Mishaps

LEMMA CommittedCharge ==
    ASSUME TypeOK, NEW w \in Workers, NEW step \in PCs, Committed(w, step)
    PROVE  /\ \A v \in Workers \ {w} : pc'[v] = pc[v]
           /\ Mishaps' = Mishaps + 1 \/ (Mishaps' = Mishaps /\ pc'[w] = step)
<1>1. \A v \in Workers \ {w} : pc'[v] = pc[v]
    BY CommittedEffect
<1>2. CASE Goto(w, step) /\ UNCHANGED spent
  <2>1. Mishaps' = Mishaps /\ pc'[w] = step
      BY <1>2, GotoEffect DEF Mishaps
  <2> QED BY <1>1, <2>1
<1>3. CASE Spend("fault")
  <2>1. Mishaps' = Mishaps + 1
      BY <1>3, FaultIsMishap
  <2> QED BY <1>1, <2>1
<1> QED BY <1>2, <1>3 DEF Committed

LEMMA ConfirmCharge ==
    ASSUME TypeOK, NEW w \in Workers, NEW s \in PCs, NEW t, NEW accepted,
           Confirm(w, s, t, accepted)
    PROVE  \/ Mishaps' = Mishaps + 1
           \/ Mishaps' = Mishaps /\ pc'[w] = s
BY FaultIsMishap, GotoEffect DEF Confirm, Mishaps

\* A further fault or death pays for another run of any key.
LEMMA MishapPays ==
    ASSUME TypeOK, Charged, runs' = runs, Mishaps' = Mishaps + 1
    PROVE  Charged'
<1>1. Mishaps \in Nat
    BY DEF TypeOK, Mishaps, Events
<1> QED BY <1>1 DEF Charged, TypeOK

\* Nobody gains a run, and what was calm stays calm.
LEMMA CalmKeeps ==
    ASSUME Charged, runs' = runs, Mishaps' = Mishaps,
           \A k \in Keys : Calm(k) => Calm(k)'
    PROVE  Charged'
BY DEF Charged

\* A handler that neither closes nor claims anything goes on to do so no more.
LEMMA IdleKeepsCalm ==
    ASSUME TypeOK, NEW w \in Workers,
           \A v \in Workers \ {w} : pc'[v] = pc[v] /\ msg'[v] = msg[v],
           pc[w] \notin Active, pc'[w] \notin Active,
           UNCHANGED <<inflight, dataRow>>
    PROVE  \A k \in Keys : Calm(k) => Calm(k)'
BY DEF Calm, KeyOf, Active, Owning

\* A handler works on its own key: only that one needs to be looked at.
LEMMA OwnKeyCalm ==
    ASSUME TypeOK, NEW w \in Workers, NEW k \in Keys, k = KeyOf(w), UNCHANGED msg,
           \A v \in Workers \ {w} : pc'[v] = pc[v],
           \A j \in Keys \ {k} : inflight'[j] = inflight[j],
           dataRow \subseteq dataRow',
           Calm(k) => Calm(k)'
    PROVE  \A j \in Keys : Calm(j) => Calm(j)'
<1> SUFFICES ASSUME NEW j \in Keys \ {k}, Calm(j) PROVE Calm(j)'
    OBVIOUS
<1>1. \A v \in Workers : KeyOf(v)' = KeyOf(v)
    BY DEF KeyOf
<1>2. \A v \in Workers : KeyOf(v) = j => pc'[v] = pc[v]
    OBVIOUS
<1> QED BY <1>1, <1>2 DEF Calm

LEMMA ChargedEnvironment ==
    ASSUME TypeOK, Charged, Leased', Exclusive, Environment
    PROVE  Charged'
<1> USE DEF queues, handlers, history
<1>0. spent["clear"] \in Nat /\ "clear" \in Events
    BY DEF TypeOK, Events
<1>1. ASSUME UNCHANGED <<pc, msg, inflight, dataRow, runs>>, Mishaps' = Mishaps
      PROVE  Charged'
  <2>1. \A k \in Keys : Calm(k) => Calm(k)'
      BY <1>1 DEF Calm, KeyOf
  <2> QED BY <1>1, <2>1, CalmKeeps
<1>2. ASSUME NEW k \in Keys, Publish(k) PROVE Charged'
    BY <1>1, <1>2, OtherIsNone DEF Publish
<1>3. ASSUME NEW k \in Keys, LeaseExpires(k) PROVE Charged'
  <2>1. /\ UNCHANGED <<pc, msg, dataRow, runs, spent>>
        /\ \A j \in Keys \ {k} : inflight'[j] = inflight[j]
        /\ inflight[k] = "processing"
      BY <1>3 DEF LeaseExpires, TypeOK
  <2>2. \A w \in Workers : ~Owns(w, k)
      BY <1>3 DEF LeaseExpires, Leased
  <2>3. ~Calm(k)
      BY <2>1, <2>2 DEF Calm, Owns, Owning
  <2>4. \A j \in Keys : Calm(j) => Calm(j)'
      BY <2>1, <2>3 DEF Calm, KeyOf
  <2>5. Mishaps' = Mishaps
      BY <2>1 DEF Mishaps
  <2> QED BY <2>1, <2>4, <2>5, CalmKeeps
<1>4. ASSUME NEW w \in Workers, InfraError(w) \/ Crash(w) PROVE Charged'
    BY <1>4, FaultIsMishap, MishapPays DEF InfraError, Crash
<1>5. ASSUME NEW w \in Workers, ConnectionLoss(w) PROVE Charged'
    BY <1>1, <1>5, OtherIsNone DEF ConnectionLoss
<1>6. ASSUME NEW S \in SUBSET Keys, ClearInflight(S) PROVE Charged'
  <2>1. spent'["clear"] = spent["clear"] + 1
      BY <1>0, <1>6, SpendEffect DEF ClearInflight
  <2> QED BY <1>0, <2>1 DEF Leased
<1>7. ASSUME NEW m \in Message, Replay(m) PROVE Charged'
    BY <1>1, <1>7, OtherIsNone DEF Replay
<1> QED BY <1>2, <1>3, <1>4, <1>5, <1>6, <1>7 DEF Environment

LEMMA ChargedWorker ==
    ASSUME TypeOK, Charged, Leased', Exclusive, NEW w \in Workers, WorkerStep(w),
           Mishaps' \in Nat, Mishaps' >= Mishaps
    PROVE  Charged'
<1> USE DEF queues, handlers, history
<1>0. /\ Active \subseteq PCs /\ Owning \subseteq Active /\ Claiming \subseteq Active
      /\ {"insert", "backfill", "succeed"} \subseteq Owning
      /\ "claimInsert" \in Claiming /\ "claimTakeover" \in Claiming
      /\ Active \cap {"idle", "claim", "ack", "nack", "retry", "park", "markParked"} = {}
    BY ActiveSteps DEF Active, Owning, Claiming
\* A step with a reply that neither starts nor ends between a claim and a mark.
<1>1. ASSUME pc[w] \notin Active, pc'[w] \notin Active,
             \A v \in Workers \ {w} : pc'[v] = pc[v] /\ msg'[v] = msg[v],
             UNCHANGED <<inflight, dataRow, runs>>,
             Mishaps' = Mishaps \/ Mishaps' = Mishaps + 1
      PROVE  Charged'
  <2>1. \A k \in Keys : Calm(k) => Calm(k)'
      BY <1>1, IdleKeepsCalm
  <2> QED BY <1>1, <2>1, CalmKeeps, MishapPays
\* A step of a busy handler on its own row.
<1>2. ASSUME NEW k \in Keys, k = KeyOf(w), UNCHANGED <<msg, runs>>,
             \A v \in Workers \ {w} : pc'[v] = pc[v],
             \A j \in Keys \ {k} : inflight'[j] = inflight[j],
             dataRow \subseteq dataRow',
             Mishaps' = Mishaps + 1 \/ (Mishaps' = Mishaps /\ (Calm(k) => Calm(k)'))
      PROVE  Charged'
  <2>1. CASE Mishaps' = Mishaps + 1
      BY <1>2, <2>1, MishapPays
  <2>2. CASE Mishaps' = Mishaps /\ (Calm(k) => Calm(k)')
    <3>1. \A j \in Keys : Calm(j) => Calm(j)'
        BY <1>2, <2>2, OwnKeyCalm
    <3> QED BY <1>2, <2>2, <3>1, CalmKeeps
  <2> QED BY <1>2, <2>1, <2>2
\* A handler that runs or is about to, or decides after a run that failed, is not calm.
<1>3. ASSUME pc[w] \in Active \ {"claimInsert", "insert", "backfill", "succeed"},
             NEW k, k = KeyOf(w)
      PROVE  ~Calm(k)
    BY <1>3 DEF Calm
\* A handler that leaves the row terminal and stops owning it.
<1>4. ASSUME NEW k \in Keys, k = KeyOf(w), UNCHANGED <<msg, dataRow>>,
             \A v \in Workers \ {w} : pc'[v] = pc[v], pc'[w] \notin Active,
             inflight'[k] \in {"succeeded", "review"}
      PROVE  Calm(k) => Calm(k)'
    BY <1>4 DEF Calm, KeyOf
<1>5. ASSUME NEW m \in Message, Deliver(w, m) PROVE Charged'
  <2>1. pc[w] = "idle" /\ pc'[w] = "claim" /\ \A v \in Workers \ {w} : pc'[v] = pc[v]
      BY <1>5, GotoEffect DEF Deliver, PCs, Awaits
  <2>2. Mishaps' = Mishaps /\ \A v \in Workers \ {w} : msg'[v] = msg[v]
      BY <1>5 DEF Deliver, TypeOK, Mishaps
  <2> QED BY <1>0, <1>1, <1>5, <2>1, <2>2 DEF Deliver
<1>6. CASE Ack(w) \/ Nack(w)
  <2>1. pc[w] \notin Active /\ pc'[w] \notin Active
        /\ \A v \in Workers \ {w} : pc'[v] = pc[v] /\ msg'[v] = msg[v]
      BY <1>0, <1>6, ReleaseEffect DEF Ack, Nack
  <2>2. Mishaps' = Mishaps
      BY <1>6 DEF Ack, Nack, Mishaps
  <2> QED BY <1>1, <1>6, <2>1, <2>2 DEF Ack, Nack
<1>7. ASSUME pc[w] # "idle" PROVE \E k \in Keys : k = KeyOf(w)
    BY <1>7, BusyHasKey
<1>8. CASE ClaimRead(w)
  <2> PICK k \in Keys : k = KeyOf(w)
      BY <1>7, <1>8 DEF ClaimRead
  <2>1. UNCHANGED <<msg, runs, inflight, dataRow>> /\ Mishaps' = Mishaps /\ pc[w] = "claim"
      BY <1>8 DEF ClaimRead, Mishaps
  <2>2. PICK step \in {"ack", "claimInsert", "claimTakeover"} :
          /\ Goto(w, step)
          /\ step = "claimInsert" => inflight[k] = "none"
          /\ step = "claimTakeover" => inflight[k] \notin {"none", "succeeded", "review", "processing"}
      BY <1>8 DEF ClaimRead, Skipped
  <2>3. pc'[w] = step /\ \A v \in Workers \ {w} : pc'[v] = pc[v]
      BY <2>2, GotoEffect DEF PCs, Awaits
  <2>4. ASSUME Calm(k) PROVE Calm(k)'
    <3>1. \A v \in Workers : KeyOf(v) = k /\ pc[v] \in Owning => inflight[k] \in {"processing", "review"}
        BY DEF Exclusive
    <3>2. CASE step = "ack"
        BY <1>0, <2>1, <2>3, <2>4, <3>2 DEF Calm, KeyOf
    <3>3. CASE step = "claimInsert"
      <4>1. k \in dataRow /\ ~IsAdoption
          BY <1>0, <2>2, <2>4, <3>1, <3>3 DEF Calm
      <4> QED BY <2>1, <2>2, <2>3, <2>4, <3>3, <4>1 DEF Calm, KeyOf
    <3>4. CASE step = "claimTakeover"
        BY <1>0, <2>2, <2>4, <3>1, <3>4 DEF Calm
    <3> QED BY <3>2, <3>3, <3>4
  <2> QED BY <1>2, <2>1, <2>3, <2>4
<1>9. CASE ClaimInsert(w)
  <2> PICK k \in Keys : k = KeyOf(w)
      BY <1>7, <1>9 DEF ClaimInsert
  <2> PICK step \in PCs : step = IF IsAdoption THEN "run" ELSE "insert"
      BY DEF PCs, Owning
  <2>1. /\ UNCHANGED <<msg, runs, dataRow>> /\ pc[w] = "claimInsert"
        /\ Committed(w, step)
        /\ \A j \in Keys \ {k} : inflight'[j] = inflight[j]
      BY <1>9 DEF ClaimInsert, TypeOK
  <2>2. /\ \A v \in Workers \ {w} : pc'[v] = pc[v]
        /\ Mishaps' = Mishaps + 1 \/ (Mishaps' = Mishaps /\ pc'[w] = step)
      BY <2>1, CommittedCharge
  <2>3. ASSUME Calm(k), pc'[w] = step PROVE Calm(k)'
    <3>1. k \in dataRow /\ ~IsAdoption
        BY <1>0, <2>1, <2>3 DEF Calm
    <3> QED BY <2>1, <2>2, <2>3, <3>1 DEF Calm, KeyOf
  <2> QED BY <1>2, <2>1, <2>2, <2>3
<1>10. CASE InsertIdempotent(w)
  <2> PICK k \in Keys : k = KeyOf(w)
      BY <1>7, <1>10 DEF InsertIdempotent
  <2> PICK step \in PCs : step = IF KeyOf(w) \in dataRow THEN "backfill" ELSE "run"
      BY DEF PCs, Owning
  <2>1. /\ UNCHANGED <<msg, runs, inflight>> /\ pc[w] = "insert"
        /\ Committed(w, step) /\ dataRow' = dataRow \cup {k}
      BY <1>10 DEF InsertIdempotent
  <2>2. /\ \A v \in Workers \ {w} : pc'[v] = pc[v]
        /\ Mishaps' = Mishaps + 1 \/ (Mishaps' = Mishaps /\ pc'[w] = step)
      BY <2>1, CommittedCharge
  <2>3. ASSUME Calm(k), pc'[w] = step PROVE Calm(k)'
    <3>1. k \in dataRow /\ ~IsAdoption
        BY <1>0, <2>1, <2>3 DEF Calm
    <3> QED BY <2>1, <2>2, <2>3, <3>1 DEF Calm, KeyOf
  <2> QED BY <1>2, <2>1, <2>2, <2>3
<1>11. CASE MarkHistoryBackfill(w) \/ MarkSucceeded(w)
  <2> PICK k \in Keys : k = KeyOf(w)
      BY <1>7, <1>11 DEF MarkHistoryBackfill, MarkSucceeded
  <2>1. /\ UNCHANGED <<msg, runs, dataRow>> /\ pc[w] \in {"backfill", "succeed"}
        /\ Committed(w, "ack") /\ "ack" \in PCs /\ SetRow(k, "succeeded")
        /\ "succeeded" \in RowStates
      BY <1>11 DEF MarkHistoryBackfill, MarkSucceeded, PCs, RowStates
  <2>2. /\ \A v \in Workers \ {w} : pc'[v] = pc[v]
        /\ Mishaps' = Mishaps + 1 \/ (Mishaps' = Mishaps /\ pc'[w] = "ack")
      BY <2>1, CommittedCharge
  <2>3. inflight[k] # "none"
      BY <1>0, <2>1 DEF Exclusive
  <2>4. inflight'[k] = "succeeded" /\ \A j \in Keys \ {k} : inflight'[j] = inflight[j]
      BY <2>1, <2>3, SetRowEffect
  <2>5. ASSUME pc'[w] = "ack", Calm(k) PROVE Calm(k)'
    <3>1. pc'[w] \notin Active
        BY <1>0, <2>5
    <3> QED BY <1>4, <2>1, <2>2, <2>4, <2>5, <3>1
  <2> QED BY <1>2, <2>1, <2>2, <2>4, <2>5
<1>12. CASE ConsumerReturns(w)
  <2> PICK k \in Keys : k = KeyOf(w)
      BY <1>7, <1>12 DEF ConsumerReturns
  <2>1. /\ UNCHANGED <<msg, inflight, dataRow>> /\ Mishaps' = Mishaps
        /\ pc[w] = "run" /\ runs' = Add(runs, k) /\ Goto(w, "succeed") /\ "succeed" \in PCs
      BY <1>12 DEF ConsumerReturns, Mishaps, PCs, Owning
  <2>2. pc'[w] = "succeed" /\ \A v \in Workers \ {w} : pc'[v] = pc[v]
      BY <2>1, GotoEffect
  <2>3. /\ runs'[k] = runs[k] + 1
        /\ \A j \in Keys \ {k} : runs'[j] = runs[j]
        /\ runs[k] \in Nat
      BY <2>1, AddEffect DEF TypeOK
  <2>4. ~Calm(k)
      BY <1>0, <1>3, <2>1 DEF Owning
  <2>5. runs'[k] <= 1 + Mishaps
      BY <2>1, <2>3, <2>4 DEF Charged
  <2>6. \A v \in Workers \ {w} : pc[v] \in Active => KeyOf(v) # k
      BY <2>1 DEF Exclusive, Active, Owning
  <2>7. Calm(k)'
      BY <2>1, <2>2, <2>6 DEF Calm, KeyOf
  <2>8. ASSUME NEW j \in Keys \ {k}, Calm(j) PROVE Calm(j)'
    <3>1. \A v \in Workers : KeyOf(v)' = KeyOf(v) /\ (KeyOf(v) = j => pc'[v] = pc[v])
        BY <2>1, <2>2 DEF KeyOf
    <3> QED BY <2>1, <2>8, <3>1 DEF Calm
  <2> QED BY <2>1, <2>3, <2>5, <2>7, <2>8 DEF Charged
<1>13. CASE ConsumerRaises(w)
  <2> PICK k \in Keys : k = KeyOf(w)
      BY <1>7, <1>13 DEF ConsumerRaises
  <2>1. UNCHANGED <<msg, runs, inflight, dataRow>> /\ Mishaps' = Mishaps /\ pc[w] = "run"
      BY <1>13 DEF ConsumerRaises, Mishaps
  <2>2. \A v \in Workers \ {w} : pc'[v] = pc[v]
      BY <1>13 DEF ConsumerRaises, Goto, TypeOK
  <2>3. ~Calm(k)
      BY <1>0, <1>3, <2>1 DEF Owning
  <2> QED BY <1>2, <2>1, <2>2, <2>3
\* What is not calm has a further run to its credit already.
<1>14. ASSUME NEW k \in Keys, k = KeyOf(w), ~Calm(k), UNCHANGED <<msg, runs, dataRow>>,
              \A v \in Workers \ {w} : pc'[v] = pc[v],
              \A j \in Keys \ {k} : inflight'[j] = inflight[j],
              Mishaps' = Mishaps \/ Mishaps' = Mishaps + 1
       PROVE  Charged'
    BY <1>2, <1>14
<1>15. CASE ClaimTakeover(w) \/ MarkFailed(w) \/ FailThenRaise(w)
  <2> PICK k \in Keys : k = KeyOf(w)
      BY <1>7, <1>15 DEF ClaimTakeover, MarkFailed, FailThenRaise
  <2>1. /\ UNCHANGED <<msg, runs, dataRow>>
        /\ pc[w] \in {"claimTakeover", "fail", "failThenRaise"}
        /\ \E state \in RowStates : SetRow(k, state)
        /\ \E step \in PCs : Committed(w, step)
    <3>1. {"processing", "failed"} \subseteq RowStates
        BY DEF RowStates
    <3>2. {"run", "nack", AfterFailure(msg[w].count)} \subseteq PCs
        BY DEF PCs, Owning, Awaits, AfterFailure
    <3> QED BY <1>15, <3>1, <3>2 DEF ClaimTakeover, MarkFailed, FailThenRaise, Committed
  <2>2. /\ \A v \in Workers \ {w} : pc'[v] = pc[v]
        /\ Mishaps' = Mishaps + 1 \/ Mishaps' = Mishaps
      BY <2>1, CommittedCharge
  <2>3. \A j \in Keys \ {k} : inflight'[j] = inflight[j]
      BY <2>1, SetRowEffect
  <2>4. ~Calm(k)
      BY <1>0, <1>3, <2>1 DEF Owning
  <2> QED BY <1>14, <2>1, <2>2, <2>3, <2>4
<1>16. CASE MarkReview(w)
  <2> PICK k \in Keys : k = KeyOf(w)
      BY <1>7, <1>16 DEF MarkReview
  <2>1. /\ UNCHANGED <<msg, runs, dataRow>> /\ pc[w] \in {"markReview", "markParked"}
        /\ Committed(w, "ack") /\ "ack" \in PCs /\ SetRow(k, "review")
        /\ "review" \in RowStates
      BY <1>16 DEF MarkReview, PCs, RowStates
  <2>2. /\ \A v \in Workers \ {w} : pc'[v] = pc[v]
        /\ Mishaps' = Mishaps + 1 \/ (Mishaps' = Mishaps /\ pc'[w] = "ack")
      BY <2>1, CommittedCharge
  <2>3. /\ inflight'[k] = IF inflight[k] = "none" THEN "none" ELSE "review"
        /\ \A j \in Keys \ {k} : inflight'[j] = inflight[j]
      BY <2>1, SetRowEffect
  <2>4. ASSUME Calm(k), pc'[w] = "ack" PROVE Calm(k)'
      BY <1>0, <2>1, <2>2, <2>3, <2>4 DEF Calm, KeyOf
  <2> QED BY <1>2, <2>1, <2>2, <2>3, <2>4
<1>17. CASE RetryPublish(w)
  <2>1. PICK accepted \in BOOLEAN : Confirm(w, "ack", "nack", accepted)
      BY <1>17 DEF RetryPublish
  <2>2. /\ pc[w] = "retry" /\ UNCHANGED <<msg, inflight, dataRow, runs>>
        /\ "ack" \in PCs /\ "nack" \in PCs
      BY <1>17 DEF RetryPublish, PCs
  <2>3. /\ pc'[w] \in {"ack", "nack"} /\ \A v \in Workers \ {w} : pc'[v] = pc[v]
        /\ Mishaps' = Mishaps \/ Mishaps' = Mishaps + 1
      BY <2>1, <2>2, ConfirmEffect, ConfirmCharge
  <2> QED BY <1>0, <1>1, <2>2, <2>3
<1>18. CASE ReviewPublish(w)
  <2> PICK k \in Keys : k = KeyOf(w)
      BY <1>7, <1>18 DEF ReviewPublish
  <2>1. PICK accepted \in BOOLEAN :
           \/ pc[w] = "review" /\ Confirm(w, "markReview", "failThenRaise", accepted)
           \/ pc[w] = "park" /\ Confirm(w, "markParked", "nack", accepted)
      BY <1>18 DEF ReviewPublish
  <2>2. /\ UNCHANGED <<msg, inflight, dataRow, runs>>
        /\ {"markReview", "failThenRaise", "markParked", "nack"} \subseteq PCs
      BY <1>18 DEF ReviewPublish, PCs, Owning, Awaits
  <2>3. /\ \A v \in Workers \ {w} : pc'[v] = pc[v]
        /\ Mishaps' = Mishaps \/ Mishaps' = Mishaps + 1
        /\ pc[w] = "park" => pc'[w] \in {"markParked", "nack"}
      BY <2>1, <2>2, ConfirmEffect, ConfirmCharge
  <2>4. CASE pc[w] = "review"
    <3>1. ~Calm(k)
        BY <1>0, <1>3, <2>4 DEF Owning
    <3> QED BY <1>14, <2>2, <2>3, <3>1
  <2>5. CASE pc[w] = "park"
      BY <1>0, <1>1, <2>2, <2>3, <2>5
  <2> QED BY <2>1, <2>4, <2>5
<1> QED
    BY <1>5, <1>6, <1>8, <1>9, <1>10, <1>11, <1>12, <1>13, <1>15, <1>16, <1>17, <1>18
    DEF WorkerStep, HandlerStep

\* Only an infrastructure fault or a death makes the consumer repeat an event it got
\* through: duplicates, retries and expired leases never do, while leases outlive runs
\* and nobody clears rows (inflight.py).
THEOREM RepeatsAreFaults == Spec => []RepeatsNeedFaults
<1> DEFINE Inv == Leased => Charged
<1>1. Init => Inv
  <2> SUFFICES ASSUME Init PROVE Charged
      OBVIOUS
  <2>1. /\ \A w \in Workers : pc[w] = "idle"
        /\ \A k \in Keys : inflight[k] = "none"
        /\ \A k \in Keys : runs[k] = IF k \in dataRow THEN 1 ELSE 0
        /\ Mishaps = 0
        /\ IsAdoption => dataRow = {}
      BY DEF Init, Mishaps, Events
  <2>2. "idle" \notin Active
      BY ActiveSteps
  <2> QED BY <2>1, <2>2 DEF Charged, Calm
<1>2. TypeOK /\ (Leased => Exclusive) /\ Inv /\ [Next]_vars => Inv'
  <2> SUFFICES ASSUME TypeOK, Leased => Exclusive, Inv, [Next]_vars, Leased'
               PROVE  Charged'
      OBVIOUS
  <2>0. Leased /\ Exclusive /\ Charged
      BY LeasedBefore
  <2>1. Mishaps' \in Nat /\ Mishaps' >= Mishaps
      BY MishapsGrow
  <2>2. CASE Environment
      BY <2>0, <2>2, ChargedEnvironment
  <2>3. CASE \E w \in Workers : WorkerStep(w)
      BY <2>0, <2>1, <2>3, ChargedWorker
  <2>4. CASE UNCHANGED vars
      BY <2>0, <2>4 DEF vars, queues, handlers, history, Charged, Calm, KeyOf, Mishaps
  <2> QED BY <2>2, <2>3, <2>4 DEF Next
<1>3. TypeOK /\ Inv => RepeatsNeedFaults
  <2> SUFFICES ASSUME TypeOK, Charged, NEW k \in Keys
               PROVE  runs[k] <= 1 + spent["fault"] + spent["crash"]
      BY DEF RepeatsNeedFaults
  <2>1. spent["fault"] \in Nat /\ spent["crash"] \in Nat /\ runs[k] \in Nat
      BY DEF TypeOK, Events
  <2> QED BY <2>1 DEF Charged, Mishaps
<1> HIDE DEF Inv
<1> QED BY <1>1, <1>2, <1>3, TypeCorrect, ExclusiveWhileLeased, PTL DEF Spec

--------------------------------------------------------------------------------
(* No event is closed that nobody handled, under the policies that do not declare a *)
(* raised exception a success.                                                      *)

Strict == OnError \in {"dlq", "manual-review"}

\* The advisory lock of a claim: one handler of a key is between the read and the
\* write, and the row it did not find stays away.
ClaimLock ==
    /\ \A v, w \in Workers :
          v # w /\ pc[v] \in Claiming /\ pc[w] \in Claiming => KeyOf(v) # KeyOf(w)
    /\ \A w \in Workers : pc[w] = "claimInsert" => inflight[KeyOf(w)] = "none"

\* An adopted table gets no Data row from the edge.
Adopted == IsAdoption =>
    dataRow = {} /\ \A w \in Workers : pc[w] \notin {"insert", "backfill"}

\* What is closed or about to be closed ran; a Data row nobody ran the consumer for is
\* one of this edge's own, and its key is not inserted again.
Handled ==
    /\ \A k \in Keys : inflight[k] = "succeeded" => runs[k] > 0
    /\ \A w \in Workers : pc[w] \in {"succeed", "backfill"} => runs[KeyOf(w)] > 0
    /\ \A w \in Workers : pc[w] = "insert" => inflight[KeyOf(w)] # "none"
    /\ \A v, w \in Workers :
          v # w /\ pc[v] = "insert" /\ pc[w] = "insert" => KeyOf(v) # KeyOf(w)
    /\ \A k \in Keys : k \in dataRow /\ runs[k] = 0 =>
          inflight[k] # "none" /\ \A w \in Workers : ~(pc[w] = "insert" /\ KeyOf(w) = k)

Unclear == IsAdoption \/ spent["clear"] = 0

LEMMA LockKept ==
    ASSUME TypeOK, ClaimLock, NEW w \in Workers,
           \A v \in Workers \ {w} : pc'[v] = pc[v] /\ msg'[v] = msg[v],
           pc'[w] \in Claiming =>
              /\ msg'[w] = msg[w]
              /\ \A v \in Workers \ {w} : pc[v] \in Claiming => KeyOf(v) # KeyOf(w),
           pc'[w] = "claimInsert" => inflight'[KeyOf(w)] = "none",
           \A v \in Workers \ {w} :
              pc[v] = "claimInsert" => inflight'[KeyOf(v)] = inflight[KeyOf(v)]
    PROVE  ClaimLock'
<1>1. \A v \in Workers : pc'[v] \in Claiming => KeyOf(v)' = KeyOf(v)
    BY DEF KeyOf
<1>2. "claimInsert" \in Claiming
    BY DEF Claiming
<1>3. ASSUME NEW u \in Workers, NEW v \in Workers, u # v,
             pc'[u] \in Claiming, pc'[v] \in Claiming
      PROVE  KeyOf(u)' # KeyOf(v)'
    BY <1>1, <1>3 DEF ClaimLock
<1>4. ASSUME NEW v \in Workers, pc'[v] = "claimInsert" PROVE inflight'[KeyOf(v)'] = "none"
    BY <1>1, <1>2, <1>4 DEF ClaimLock
<1> QED BY <1>3, <1>4 DEF ClaimLock

\* A step that inserts nothing closes a row only of a key that ran.
LEMMA HandledKept ==
    ASSUME TypeOK, Handled, NEW w \in Workers,
           \A v \in Workers \ {w} : pc'[v] = pc[v] /\ msg'[v] = msg[v],
           \A k \in Keys : runs'[k] \in Nat /\ runs'[k] >= runs[k],
           dataRow' = dataRow,
           \A k \in Keys : inflight'[k] = "none" => inflight[k] = "none",
           \A k \in Keys : inflight'[k] = "succeeded" => inflight[k] = "succeeded" \/ runs'[k] > 0,
           pc'[w] \in {"succeed", "backfill"} => msg'[w] = msg[w] /\ runs'[KeyOf(w)] > 0,
           pc'[w] # "insert"
    PROVE  Handled'
<1>1. \A v \in Workers : pc[v] # "idle" => KeyOf(v) \in Keys
    BY BusyHasKey
<1>2. \A k \in Keys : runs[k] \in Nat
    BY DEF TypeOK
<1>3. \A v \in Workers \ {w} : KeyOf(v)' = KeyOf(v) /\ pc'[v] = pc[v]
    BY DEF KeyOf
<1>4. \A k \in Keys : inflight'[k] = "succeeded" => runs'[k] > 0
    BY <1>2 DEF Handled
<1>5. ASSUME NEW v \in Workers, pc'[v] \in {"succeed", "backfill"} PROVE runs'[KeyOf(v)'] > 0
  <2>1. CASE v = w
      BY <1>5, <2>1 DEF KeyOf
  <2>2. CASE v # w
      BY <1>1, <1>2, <1>3, <1>5, <2>2 DEF Handled
  <2> QED BY <2>1, <2>2
<1>6. ASSUME NEW v \in Workers, pc'[v] = "insert"
      PROVE  v # w /\ pc[v] = "insert" /\ inflight'[KeyOf(v)'] # "none" /\ KeyOf(v)' = KeyOf(v)
    BY <1>1, <1>3, <1>6 DEF Handled
<1>7. ASSUME NEW k \in Keys, k \in dataRow', runs'[k] = 0
      PROVE  inflight'[k] # "none" /\ \A v \in Workers : ~(pc'[v] = "insert" /\ KeyOf(v)' = k)
  <2>1. runs[k] = 0
      BY <1>2, <1>7
  <2> QED BY <1>6, <1>7, <2>1 DEF Handled
<1>8. \A u, v \in Workers : u # v /\ pc'[u] = "insert" /\ pc'[v] = "insert" => KeyOf(u)' # KeyOf(v)'
    BY <1>6 DEF Handled
<1> QED BY <1>4, <1>5, <1>6, <1>7, <1>8 DEF Handled

LEMMA HandledEnvironment ==
    ASSUME TypeOK, ClaimLock, Adopted, Unclear' => Handled, Environment
    PROVE  ClaimLock' /\ Adopted' /\ (Unclear' => Handled')
<1> USE DEF queues, handlers, history
<1>1. ASSUME UNCHANGED <<pc, msg, inflight, dataRow, runs>>
      PROVE  ClaimLock' /\ Adopted' /\ (Unclear' => Handled')
    BY <1>1 DEF ClaimLock, Adopted, Handled, KeyOf
<1>2. ASSUME NEW k \in Keys, LeaseExpires(k)
      PROVE  ClaimLock' /\ Adopted' /\ (Unclear' => Handled')
  <2>1. /\ UNCHANGED <<pc, msg, dataRow, runs>>
        /\ \A j \in Keys : \/ inflight'[j] = inflight[j]
                          \/ (inflight[j] = "processing" /\ inflight'[j] = "expired")
      BY <1>2 DEF LeaseExpires, TypeOK
  <2>2. \A w \in Workers : pc[w] # "idle" => KeyOf(w) \in Keys
      BY BusyHasKey
  <2>3. ClaimLock' /\ Adopted'
      BY <2>1, <2>2 DEF ClaimLock, Adopted, KeyOf
  <2>4. Handled => Handled'
      BY <2>1, <2>2 DEF Handled, KeyOf
  <2> QED BY <2>3, <2>4
<1>3. ASSUME NEW w \in Workers, InfraError(w) \/ Crash(w)
      PROVE  ClaimLock' /\ Adopted' /\ (Unclear' => Handled')
  <2>1. /\ pc'[w] \in {"nack", "idle"}
        /\ \A v \in Workers \ {w} : pc'[v] = pc[v] /\ msg'[v] = msg[v]
        /\ UNCHANGED <<inflight, dataRow, runs>>
      BY <1>3, GotoEffect, ReleaseEffect DEF InfraError, Crash, PCs
  <2>2. ClaimLock'
      BY <2>1, LockKept DEF Claiming
  <2>3. Adopted'
      BY <2>1 DEF Adopted
  <2>4. \A k \in Keys : runs'[k] \in Nat /\ runs'[k] >= runs[k]
      BY <2>1 DEF TypeOK
  <2>5. Handled => Handled'
      BY <2>1, <2>4, HandledKept
  <2> QED BY <2>2, <2>3, <2>5
<1>4. ASSUME NEW S \in SUBSET Keys, ClearInflight(S)
      PROVE  ClaimLock' /\ Adopted' /\ (Unclear' => Handled')
  <2>1. /\ UNCHANGED <<pc, msg, dataRow, runs>>
        /\ \A j \in Keys : inflight'[j] \in {inflight[j], "none"}
      BY <1>4 DEF ClearInflight
  <2>2. \A w \in Workers : pc[w] # "idle" => KeyOf(w) \in Keys
      BY BusyHasKey
  <2>3. ClaimLock' /\ Adopted'
      BY <2>1, <2>2 DEF ClaimLock, Adopted, KeyOf
  <2>4. "clear" \in Events /\ spent["clear"] \in Nat
      BY DEF TypeOK, Events
  <2>5. spent'["clear"] # 0
      BY <1>4, <2>4, SpendEffect DEF ClearInflight
  <2>6. ASSUME IsAdoption, Handled PROVE Handled'
      BY <2>1, <2>6 DEF Handled, Adopted, KeyOf
  <2> QED BY <2>3, <2>5, <2>6 DEF Unclear
<1> QED
    BY <1>1, <1>2, <1>3, <1>4
    DEF Environment, Publish, ConnectionLoss, Replay

LEMMA HandledWorker ==
    ASSUME TypeOK, Strict, ClaimLock, Adopted, Unclear' => Handled,
           NEW w \in Workers, WorkerStep(w)
    PROVE  ClaimLock' /\ Adopted' /\ (Unclear' => Handled')
<1> USE DEF queues, handlers, history
<1> DEFINE Done == ClaimLock' /\ Adopted' /\ (Unclear' => Handled')
           Others == \A v \in Workers \ {w} : pc'[v] = pc[v] /\ msg'[v] = msg[v]
<1>0. \A k \in Keys : runs[k] \in Nat /\ runs[k] >= runs[k]
    BY DEF TypeOK
\* A step that leaves the rows alone and stays away from claims, inserts and marks.
<1>1. ASSUME Others, UNCHANGED <<inflight, dataRow>>,
             \A k \in Keys : runs'[k] \in Nat /\ runs'[k] >= runs[k],
             pc'[w] \notin Claiming \cup {"insert", "backfill"},
             pc'[w] = "succeed" => msg'[w] = msg[w] /\ runs'[KeyOf(w)] > 0
      PROVE  Done
  <2>1. ClaimLock'
      BY <1>1, LockKept DEF Claiming
  <2>2. Adopted'
      BY <1>1 DEF Adopted
  <2>3. Handled => Handled'
      BY <1>1, HandledKept
  <2> QED BY <2>1, <2>2, <2>3
\* A step that writes the row of a key, which is there already.
<1>2. ASSUME NEW state \in RowStates \ {"none"}, SetRow(KeyOf(w), state), KeyOf(w) \in Keys,
             Others, UNCHANGED <<dataRow, runs>>,
             pc'[w] \notin Claiming \cup {"insert", "backfill", "succeed"},
             state = "succeeded" /\ Unclear' => runs[KeyOf(w)] > 0
      PROVE  Done
  <2>1. /\ \A j \in Keys : inflight'[j] = "none" <=> inflight[j] = "none"
        /\ \A j \in Keys : inflight'[j] = "succeeded" =>
              inflight[j] = "succeeded" \/ (state = "succeeded" /\ j = KeyOf(w))
      BY <1>2, SetRowEffect
  <2>2. \A v \in Workers : pc[v] # "idle" => KeyOf(v) \in Keys
      BY BusyHasKey
  <2>3. \A v \in Workers : pc[v] = "claimInsert" => inflight'[KeyOf(v)] = inflight[KeyOf(v)]
      BY <2>1, <2>2 DEF ClaimLock
  <2>4. ClaimLock'
      BY <1>2, <2>3, LockKept DEF Claiming
  <2>5. Adopted'
      BY <1>2 DEF Adopted
  <2>6. Unclear' /\ Handled => Handled'
    <3> SUFFICES ASSUME Unclear', Handled PROVE Handled'
        OBVIOUS
    <3>1. \A k \in Keys : inflight'[k] = "succeeded" => inflight[k] = "succeeded" \/ runs'[k] > 0
        BY <1>2, <2>1
    <3> QED BY <1>0, <1>2, <2>1, <3>1, HandledKept
  <2> QED BY <2>4, <2>5, <2>6
<1>3. ASSUME pc[w] # "idle" PROVE KeyOf(w) \in Keys
    BY <1>3, BusyHasKey
<1>4. ASSUME UNCHANGED msg, \A v \in Workers \ {w} : pc'[v] = pc[v] PROVE Others
    BY <1>4
<1>5. ASSUME NEW m \in Message, Deliver(w, m) PROVE Done
  <2>1. pc'[w] = "claim" /\ Others
      BY <1>5, GotoEffect DEF Deliver, PCs, Awaits, TypeOK
  <2> QED BY <1>0, <1>1, <1>5, <2>1 DEF Deliver, Claiming
<1>6. CASE Ack(w) \/ Nack(w)
  <2>1. pc'[w] = "idle" /\ Others
      BY <1>6, ReleaseEffect DEF Ack, Nack
  <2> QED BY <1>0, <1>1, <1>6, <2>1 DEF Ack, Nack, Claiming
<1>7. CASE ClaimRead(w)
  <2>1. /\ UNCHANGED <<msg, inflight, dataRow, runs>>
        /\ \A v \in Workers : KeyOf(v) = KeyOf(w) => pc[v] \notin Claiming
      BY <1>7 DEF ClaimRead, Claiming
  <2>2. PICK step \in {"ack", "claimInsert", "claimTakeover"} :
          Goto(w, step) /\ (step = "claimInsert" => inflight[KeyOf(w)] = "none")
      BY <1>7 DEF ClaimRead
  <2>3. pc'[w] = step /\ \A v \in Workers \ {w} : pc'[v] = pc[v]
      BY <2>2, GotoEffect DEF PCs, Awaits
  <2>4. ClaimLock'
      BY <2>1, <2>2, <2>3, LockKept
  <2>5. Adopted'
      BY <2>1, <2>3 DEF Adopted
  <2>6. Handled => Handled'
      BY <1>0, <2>1, <2>3, HandledKept
  <2> QED BY <2>4, <2>5, <2>6
<1>8. CASE ClaimInsert(w)
  <2> PICK k \in Keys : k = KeyOf(w)
      BY <1>3, <1>8 DEF ClaimInsert
  <2> PICK step \in PCs : step = IF IsAdoption THEN "run" ELSE "insert"
      BY DEF PCs, Owning
  <2>1. /\ UNCHANGED <<msg, dataRow, runs>> /\ pc[w] = "claimInsert" /\ Committed(w, step)
        /\ inflight'[k] = "processing" /\ \A j \in Keys \ {k} : inflight'[j] = inflight[j]
      BY <1>8 DEF ClaimInsert, TypeOK
  <2>2. pc'[w] \in {step, "nack"} /\ \A v \in Workers \ {w} : pc'[v] = pc[v]
      BY <2>1, CommittedEffect
  <2>3. inflight[k] = "none" /\ \A v \in Workers \ {w} : pc[v] \in Claiming => KeyOf(v) # k
      BY <2>1 DEF ClaimLock, Claiming
  <2>4. \A v \in Workers : pc[v] # "idle" => KeyOf(v) \in Keys
      BY BusyHasKey
  <2>5. ClaimLock'
    <3>1. \A v \in Workers \ {w} : pc[v] = "claimInsert" => inflight'[KeyOf(v)] = inflight[KeyOf(v)]
        BY <2>1, <2>3, <2>4 DEF Claiming
    <3> QED BY <2>1, <2>2, <3>1, LockKept DEF Claiming
  <2>6. Adopted'
      BY <2>1, <2>2 DEF Adopted
  <2>7. CASE pc'[w] = "insert"
    <3>1. ASSUME Handled PROVE Handled'
      <4>1. \A v \in Workers : pc[v] = "insert" => KeyOf(v) # k
          BY <2>3, <3>1 DEF Handled
      <4>2. \A v \in Workers : KeyOf(v)' = KeyOf(v)
          BY <2>1 DEF KeyOf
      <4>3. k \in dataRow => runs[k] # 0
          BY <2>3, <3>1 DEF Handled
      <4> QED BY <2>1, <2>2, <2>4, <2>7, <3>1, <4>1, <4>2, <4>3 DEF Handled
    <3> QED BY <2>5, <2>6, <3>1
  <2>8. CASE pc'[w] # "insert"
    <3>1. pc'[w] \in {"run", "nack"}
        BY <2>2, <2>8
    <3>2. Handled => Handled'
        BY <1>0, <2>1, <2>2, <2>3, <3>1, HandledKept
    <3> QED BY <2>5, <2>6, <3>2
  <2> QED BY <2>7, <2>8
<1>9. CASE InsertIdempotent(w)
  <2> PICK k \in Keys : k = KeyOf(w)
      BY <1>3, <1>9 DEF InsertIdempotent
  <2> PICK step \in PCs : step = IF KeyOf(w) \in dataRow THEN "backfill" ELSE "run"
      BY DEF PCs, Owning
  <2>1. /\ UNCHANGED <<msg, inflight, runs>> /\ pc[w] = "insert" /\ Committed(w, step)
        /\ dataRow' = dataRow \cup {k}
      BY <1>9 DEF InsertIdempotent
  <2>2. pc'[w] \in {step, "nack"} /\ \A v \in Workers \ {w} : pc'[v] = pc[v]
      BY <2>1, CommittedEffect
  <2>3. ~IsAdoption
      BY <2>1 DEF Adopted
  <2>4. ClaimLock'
      BY <2>1, <2>2, LockKept DEF Claiming
  <2>5. ASSUME Handled PROVE Handled'
    <3>1. \A v \in Workers : KeyOf(v)' = KeyOf(v)
        BY <2>1 DEF KeyOf
    <3>2. inflight[k] # "none" /\ \A v \in Workers \ {w} : pc[v] = "insert" => KeyOf(v) # k
        BY <2>1, <2>5 DEF Handled
    <3>3. pc'[w] = "backfill" => runs[k] > 0
      <4>1. k \in dataRow => runs[k] # 0
          BY <2>1, <2>5 DEF Handled
      <4> QED BY <2>2, <4>1, <1>0
    <3> QED BY <2>1, <2>2, <2>5, <3>1, <3>2, <3>3 DEF Handled
  <2> QED BY <2>3, <2>4, <2>5 DEF Adopted
<1>10. CASE ConsumerReturns(w)
  <2> PICK k \in Keys : k = KeyOf(w)
      BY <1>3, <1>10 DEF ConsumerReturns
  <2>1. pc'[w] = "succeed" /\ Others /\ UNCHANGED <<inflight, dataRow, msg>>
      BY <1>4, <1>10, GotoEffect DEF ConsumerReturns, PCs, Owning
  <2>2. /\ runs'[k] = runs[k] + 1
        /\ \A j \in Keys \ {k} : runs'[j] = runs[j]
      BY <1>10, AddEffect DEF ConsumerReturns, TypeOK
  <2>3. runs'[k] > 0 /\ \A j \in Keys : runs'[j] \in Nat /\ runs'[j] >= runs[j]
      BY <1>0, <2>2
  <2> QED BY <1>1, <2>1, <2>3 DEF Claiming
<1>11. CASE ConsumerRaises(w)
  <2>1. PICK step \in {"review", "fail"} : Goto(w, step)
      BY <1>11 DEF ConsumerRaises, RouteOf, Strict
  <2>2. pc'[w] = step /\ Others /\ UNCHANGED <<inflight, dataRow, runs>>
      BY <1>4, <1>11, <2>1, GotoEffect DEF ConsumerRaises, PCs, Owning
  <2> QED BY <1>0, <1>1, <2>2 DEF Claiming
<1>12. CASE RetryPublish(w)
  <2>1. PICK accepted \in BOOLEAN : Confirm(w, "ack", "nack", accepted)
      BY <1>12 DEF RetryPublish
  <2>2. "ack" \in PCs /\ "nack" \in PCs /\ UNCHANGED <<msg, inflight, dataRow, runs>>
      BY <1>12 DEF RetryPublish, PCs
  <2>3. pc'[w] \in {"ack", "nack"} /\ \A v \in Workers \ {w} : pc'[v] = pc[v]
      BY <2>1, <2>2, ConfirmEffect
  <2> QED BY <1>0, <1>1, <2>2, <2>3 DEF Claiming
<1>13. CASE ReviewPublish(w)
  <2>1. PICK accepted \in BOOLEAN :
           \/ pc[w] = "review" /\ Confirm(w, "markReview", "failThenRaise", accepted)
           \/ pc[w] = "park" /\ Confirm(w, "markParked", "nack", accepted)
      BY <1>13 DEF ReviewPublish
  <2>2. {"markReview", "failThenRaise", "markParked", "nack"} \subseteq PCs
      BY DEF PCs, Owning, Awaits
  <2>3. /\ pc'[w] \in {"markReview", "failThenRaise", "markParked", "nack"}
        /\ Others /\ UNCHANGED <<inflight, dataRow, runs>>
      BY <1>4, <1>13, <2>1, <2>2, ConfirmEffect DEF ReviewPublish
  <2> QED BY <1>0, <1>1, <2>3 DEF Claiming
<1>14. CASE MarkHistoryBackfill(w) \/ MarkSucceeded(w)
  <2>1. /\ UNCHANGED <<msg, dataRow, runs>> /\ pc[w] \in {"backfill", "succeed"}
        /\ Committed(w, "ack") /\ SetRow(KeyOf(w), "succeeded") /\ KeyOf(w) \in Keys
      BY <1>3, <1>14 DEF MarkHistoryBackfill, MarkSucceeded
  <2>2. pc'[w] \in {"ack", "nack"} /\ Others
      BY <1>4, <2>1, CommittedEffect DEF PCs
  <2>3. Unclear' => runs[KeyOf(w)] > 0
      BY <2>1 DEF Handled
  <2> QED BY <1>2, <2>1, <2>2, <2>3 DEF Claiming, RowStates
<1>15. CASE ClaimTakeover(w) \/ MarkFailed(w) \/ MarkReview(w) \/ FailThenRaise(w)
  <2>1. /\ UNCHANGED <<msg, dataRow, runs>> /\ KeyOf(w) \in Keys
        /\ \E state \in {"processing", "failed", "review"} : SetRow(KeyOf(w), state)
      BY <1>3, <1>15 DEF ClaimTakeover, MarkFailed, MarkReview, FailThenRaise
  <2>2. PICK step \in {"run", "ack", "nack", "retry", "park"} : Committed(w, step)
      BY <1>15 DEF ClaimTakeover, MarkFailed, MarkReview, FailThenRaise, AfterFailure, Committed
  <2>3. step \in PCs
      BY DEF PCs, Owning, Awaits
  <2>4. pc'[w] \in {step, "nack"} /\ Others
      BY <1>4, <2>1, <2>2, <2>3, CommittedEffect
  <2> QED BY <1>2, <2>1, <2>4 DEF Claiming, RowStates
<1> QED
    BY <1>5, <1>6, <1>7, <1>8, <1>9, <1>10, <1>11, <1>12, <1>13, <1>14, <1>15
    DEF WorkerStep, HandlerStep

\* Neither a backfill nor a takeover closes an event nobody handled, unless an operator
\* deleted the row of a handled event and left its Data row (durable.py, inflight.py).
THEOREM ClosedEventsRan == Spec => []SucceededWasRun
<1> DEFINE Inv == Strict => ClaimLock /\ Adopted /\ (Unclear => Handled)
<1>1. Init => Inv
  <2> SUFFICES ASSUME Init PROVE ClaimLock /\ Adopted /\ Handled
      OBVIOUS
  <2>1. /\ \A w \in Workers : pc[w] = "idle"
        /\ \A k \in Keys : inflight[k] = "none"
        /\ \A k \in Keys : runs[k] = IF k \in dataRow THEN 1 ELSE 0
        /\ IsAdoption => dataRow = {}
      BY DEF Init
  <2> QED BY <2>1 DEF ClaimLock, Adopted, Handled, Claiming
<1>2. TypeOK /\ Inv /\ [Next]_vars => Inv'
  <2> SUFFICES ASSUME TypeOK, Strict, ClaimLock, Adopted, Unclear => Handled, [Next]_vars
               PROVE  ClaimLock' /\ Adopted' /\ (Unclear' => Handled')
      BY DEF Strict
  <2>0. Unclear' => Unclear
      BY SpentGrows DEF Grew, Unclear, TypeOK, Events
  <2>1. CASE Environment
      BY <2>0, <2>1, HandledEnvironment
  <2>2. CASE \E w \in Workers : WorkerStep(w)
      BY <2>0, <2>2, HandledWorker
  <2>3. CASE UNCHANGED vars
      BY <2>3 DEF vars, queues, handlers, history, ClaimLock, Adopted, Unclear, Handled, KeyOf
  <2> QED BY <2>1, <2>2, <2>3 DEF Next
<1>3. Inv => SucceededWasRun
    BY DEF SucceededWasRun, EveryClosedEventRan, Strict, Unclear, Handled
<1> HIDE DEF Inv
<1> QED BY <1>1, <1>2, <1>3, TypeCorrect, PTL DEF Spec

--------------------------------------------------------------------------------
(* The edge does what the contract of delivery allows, step by step. *)

\* What was never published is nowhere.
Unborn ==
    \A k \in Keys \ emitted :
        /\ \A m \in Message : m.key = k => ready[m] = 0 /\ dlq[m] = 0
        /\ reviewQ[k] = 0 /\ inflight[k] = "none"
        /\ \A w \in Workers : KeyOf(w) # k

\* A step of a busy handler touches queues and rows at its own key only.
LEMMA OwnKeyOnly ==
    ASSUME TypeOK, NEW w \in Workers, HandlerStep(w)
    PROVE  /\ KeyOf(w) \in Keys
           /\ \A m \in Message : m.key # KeyOf(w) => ready'[m] = ready[m] /\ dlq'[m] = dlq[m]
           /\ \A k \in Keys \ {KeyOf(w)} : reviewQ'[k] = reviewQ[k] /\ inflight'[k] = inflight[k]
           /\ \A v \in Workers : KeyOf(v)' \in {KeyOf(v), NoKey}
           /\ emitted' = emitted
<1> USE DEF queues, handlers, history
<1>1. pc[w] # "idle"
    BY DEF HandlerStep, ClaimRead, ClaimInsert, ClaimTakeover, InsertIdempotent,
           MarkHistoryBackfill, ConsumerReturns, ConsumerRaises, MarkSucceeded, MarkFailed,
           RetryPublish, ReviewPublish, MarkReview, FailThenRaise, Ack, Nack
<1>2. KeyOf(w) \in Keys /\ msg[w] \in Message /\ msg[w].key = KeyOf(w)
    BY <1>1, BusyHasKey DEF KeyOf
<1>3. \A v \in Workers : KeyOf(v)' \in {KeyOf(v), NoKey}
  <2>1. CASE Ack(w) \/ Nack(w)
      BY <2>1 DEF Ack, Nack, Release, TypeOK, KeyOf, NoMessage
  <2>2. CASE UNCHANGED msg
      BY <2>2 DEF KeyOf
  <2> QED
      BY <2>1, <2>2
      DEF HandlerStep, ClaimRead, ClaimInsert, ClaimTakeover, InsertIdempotent,
          MarkHistoryBackfill, ConsumerReturns, ConsumerRaises, MarkSucceeded, MarkFailed,
          RetryPublish, ReviewPublish, MarkReview, FailThenRaise
<1>4. \A m \in Message : m.key # KeyOf(w) => ready'[m] = ready[m]
  <2>1. CASE RetryPublish(w)
    <3>1. ready' = ready \/ ready' = Add(ready, [msg[w] EXCEPT !.count = @ + 1])
        BY <2>1 DEF RetryPublish
    <3>2. \A m \in Message : m.key # KeyOf(w) => m # [msg[w] EXCEPT !.count = @ + 1]
        BY <1>2 DEF Message
    <3> QED BY <3>1, <3>2, AddEffect DEF TypeOK
  <2>2. CASE UNCHANGED ready
      BY <2>2
  <2> QED
      BY <2>1, <2>2
      DEF HandlerStep, ClaimRead, ClaimInsert, ClaimTakeover, InsertIdempotent,
          MarkHistoryBackfill, ConsumerReturns, ConsumerRaises, MarkSucceeded, MarkFailed,
          ReviewPublish, MarkReview, FailThenRaise, Ack, Nack
<1>5. \A m \in Message : m.key # KeyOf(w) => dlq'[m] = dlq[m]
  <2>1. CASE Nack(w)
    <3>1. dlq' = dlq \/ dlq' = Add(dlq, msg[w])
        BY <2>1 DEF Nack
    <3> QED BY <1>2, <3>1, AddEffect DEF TypeOK
  <2>2. CASE UNCHANGED dlq
      BY <2>2
  <2> QED
      BY <2>1, <2>2
      DEF HandlerStep, ClaimRead, ClaimInsert, ClaimTakeover, InsertIdempotent,
          MarkHistoryBackfill, ConsumerReturns, ConsumerRaises, MarkSucceeded, MarkFailed,
          RetryPublish, ReviewPublish, MarkReview, FailThenRaise, Ack
<1>6. \A k \in Keys \ {KeyOf(w)} : reviewQ'[k] = reviewQ[k]
  <2>1. CASE ReviewPublish(w)
    <3>1. reviewQ' = reviewQ \/ reviewQ' = Add(reviewQ, KeyOf(w))
        BY <2>1 DEF ReviewPublish
    <3> QED BY <1>2, <3>1, AddEffect DEF TypeOK
  <2>2. CASE UNCHANGED reviewQ
      BY <2>2
  <2> QED
      BY <2>1, <2>2
      DEF HandlerStep, ClaimRead, ClaimInsert, ClaimTakeover, InsertIdempotent,
          MarkHistoryBackfill, ConsumerReturns, ConsumerRaises, MarkSucceeded, MarkFailed,
          RetryPublish, MarkReview, FailThenRaise, Ack, Nack
<1>7. \A k \in Keys \ {KeyOf(w)} : inflight'[k] = inflight[k]
  <2>1. ASSUME NEW state, SetRow(KeyOf(w), state)
        PROVE  \A k \in Keys \ {KeyOf(w)} : inflight'[k] = inflight[k]
      BY <2>1 DEF SetRow, TypeOK
  <2>2. CASE UNCHANGED inflight
      BY <2>2
  <2>3. CASE ClaimInsert(w)
      BY <2>3 DEF ClaimInsert, TypeOK
  <2> QED
      BY <2>1, <2>2, <2>3
      DEF HandlerStep, ClaimRead, ClaimTakeover, InsertIdempotent,
          MarkHistoryBackfill, ConsumerReturns, ConsumerRaises, MarkSucceeded, MarkFailed,
          RetryPublish, ReviewPublish, MarkReview, FailThenRaise, Ack, Nack
<1>8. emitted' = emitted
    BY DEF HandlerStep, ClaimRead, ClaimInsert, ClaimTakeover, InsertIdempotent,
           MarkHistoryBackfill, ConsumerReturns, ConsumerRaises, MarkSucceeded, MarkFailed,
           RetryPublish, ReviewPublish, MarkReview, FailThenRaise, Ack, Nack
<1> QED BY <1>2, <1>3, <1>4, <1>5, <1>6, <1>7, <1>8

LEMMA UnbornStep ==
    ASSUME TypeOK, Unborn, [Next]_vars
    PROVE  Unborn'
<1> USE DEF queues, handlers, history
<1>0. NoKey \notin Keys
    BY ConstantsAssumption
<1>1. CASE UNCHANGED vars
    BY <1>1 DEF vars, Unborn, KeyOf
<1>2. ASSUME NEW k \in Keys, Publish(k) PROVE Unborn'
  <2>1. /\ emitted' = emitted \cup {k} /\ UNCHANGED <<dlq, reviewQ, inflight, msg>>
        /\ ready' = Add(ready, [key |-> k, count |-> 0])
      BY <1>2 DEF Publish
  <2>2. \A m \in Message : m.key # k => ready'[m] = ready[m]
      BY <2>1, AddEffect DEF TypeOK
  <2> QED BY <2>1, <2>2 DEF Unborn, KeyOf
<1>3. ASSUME NEW k \in Keys, LeaseExpires(k) PROVE Unborn'
    BY <1>3 DEF LeaseExpires, Unborn, KeyOf, TypeOK
<1>4. ASSUME NEW w \in Workers, InfraError(w) PROVE Unborn'
    BY <1>4 DEF InfraError, Unborn, KeyOf
<1>5. ASSUME NEW w \in Workers, Crash(w) \/ ConnectionLoss(w) PROVE Unborn'
  <2>1. UNCHANGED <<dlq, reviewQ, inflight, emitted>> /\ Requeue(w)
      BY <1>5 DEF Crash, ConnectionLoss
  <2>2. \A v \in Workers : KeyOf(v)' \in {KeyOf(v), NoKey}
      BY <1>5 DEF Crash, ConnectionLoss, Release, TypeOK, KeyOf, NoMessage
  <2>3. \A m \in Message : m # msg[w] => ready'[m] = ready[m]
      BY <2>1, AddEffect DEF Requeue, TypeOK
  <2>4. \A k \in Keys \ emitted : \A m \in Message : m.key = k => m # msg[w]
      BY DEF Unborn, KeyOf
  <2> QED BY <1>0, <2>1, <2>2, <2>3, <2>4 DEF Unborn
<1>6. ASSUME NEW S \in SUBSET Keys, ClearInflight(S) PROVE Unborn'
    BY <1>6 DEF ClearInflight, Unborn, KeyOf
<1>7. ASSUME NEW m \in Message, Replay(m) PROVE Unborn'
  <2>1. UNCHANGED <<reviewQ, inflight, emitted, msg>> /\ m.key \in Keys /\ dlq[m] # 0
      BY <1>7 DEF Replay, Message, TypeOK
  <2>2. m.key \in emitted
      BY <2>1 DEF Unborn
  <2>3. \A x \in Message : x # m => ready'[x] = ready[x] /\ dlq'[x] = dlq[x]
      BY <1>7, AddEffect, RemoveEffect DEF Replay, TypeOK
  <2> QED BY <2>1, <2>2, <2>3 DEF Unborn, KeyOf
<1>8. ASSUME NEW w \in Workers, NEW m \in Message, Deliver(w, m) PROVE Unborn'
  <2>1. UNCHANGED <<dlq, reviewQ, inflight, emitted>> /\ m.key \in Keys /\ ready[m] # 0
      BY <1>8 DEF Deliver, Message, TypeOK
  <2>2. m.key \in emitted
      BY <2>1 DEF Unborn
  <2>3. \A x \in Message : x # m => ready'[x] = ready[x]
      BY <1>8, RemoveEffect DEF Deliver, TypeOK
  <2>4. \A v \in Workers : KeyOf(v)' \in {KeyOf(v), m.key}
      BY <1>8 DEF Deliver, KeyOf, TypeOK
  <2> QED BY <2>1, <2>2, <2>3, <2>4 DEF Unborn
<1>9. ASSUME NEW w \in Workers, HandlerStep(w) PROVE Unborn'
    BY <1>0, <1>9, OwnKeyOnly DEF Unborn
<1> QED
    BY <1>1, <1>2, <1>3, <1>4, <1>5, <1>6, <1>7, <1>8, <1>9
    DEF Next, Environment, WorkerStep

\* One event at a time is published, and its queue is all that changes.
LEMMA EmittedStep ==
    ASSUME TypeOK, [Next]_vars, NEW k \in Keys, k \notin emitted, k \in emitted'
    PROVE  UNCHANGED <<inflight, dlq, reviewQ>>
<1> USE DEF queues, handlers, history
<1>1. \A w \in Workers : HandlerStep(w) => emitted' = emitted
    BY OwnKeyOnly
<1>2. ~UNCHANGED emitted
    OBVIOUS
<1>3. PICK j \in Keys : Publish(j)
    BY <1>1, <1>2
    DEF Next, vars, Environment, WorkerStep, LeaseExpires, InfraError, Crash,
        ConnectionLoss, ClearInflight, Replay, Deliver
<1> QED BY <1>3 DEF Publish

LEMMA EmittedGrows ==
    ASSUME TypeOK, [Next]_vars
    PROVE  emitted \subseteq emitted'
<1> USE DEF queues, handlers, history
<1>1. \A w \in Workers : HandlerStep(w) => emitted' = emitted
    BY OwnKeyOnly
<1> QED
    BY <1>1
    DEF Next, vars, Environment, WorkerStep, Publish, LeaseExpires, InfraError, Crash,
        ConnectionLoss, ClearInflight, Replay, Deliver

\* Before any disturbance, an edge whose leases outlive runs and that parks nothing.
Quiet == Undisturbed /\ LeaseOutlivesRun /\ OnError # "manual-review"

Seen == [k \in Keys |-> StatusOf(k)]

\* What the status of an event says, and that none is lost while nothing is disturbed.
StatusIs(k) ==
    /\ k \notin emitted <=> StatusOf(k) = "absent"
    /\ k \in emitted /\ inflight[k] = "succeeded" <=> StatusOf(k) = "done"
    /\ k \in emitted /\ ~Settled(k) /\ Custodian(k) => StatusOf(k) = "pending"
    /\ StatusOf(k) \in {"absent", "pending", "parked", "done"}

LEMMA NothingAllSeen ==
    ASSUME NEW k \in Keys
    PROVE  AtLeastOnce => StatusIs(k)
<1> SUFFICES ASSUME AtLeastOnce PROVE StatusIs(k)
    OBVIOUS
<1>1. inflight[k] = "succeeded" => Settled(k)
    BY DEF Settled
<1>2. k \in emitted /\ inflight[k] # "succeeded" => Custodian(k)
    BY DEF AtLeastOnce
<1>3. CASE k \notin emitted
  <2>1. StatusOf(k) = "absent"
      BY <1>3 DEF StatusOf
  <2> QED BY <1>3, <2>1 DEF StatusIs
<1>4. CASE k \in emitted /\ inflight[k] = "succeeded"
  <2>1. StatusOf(k) = "done"
      BY <1>1, <1>4 DEF StatusOf
  <2> QED BY <1>1, <1>4, <2>1 DEF StatusIs
<1>5. CASE k \in emitted /\ inflight[k] # "succeeded" /\ Settled(k)
  <2>1. StatusOf(k) = "parked"
      BY <1>5 DEF StatusOf
  <2> QED BY <1>5, <2>1 DEF StatusIs
<1>6. CASE k \in emitted /\ inflight[k] # "succeeded" /\ ~Settled(k)
  <2>1. StatusOf(k) = "pending"
      BY <1>2, <1>6 DEF StatusOf
  <2> QED BY <1>6, <2>1 DEF StatusIs
<1> QED BY <1>3, <1>4, <1>5, <1>6

AllSeen == AtLeastOnce => \A k \in Keys : StatusIs(k)

\* A new event is pending; only a consumed one can no longer change.
LEMMA MovesAllowed ==
    ASSUME TypeOK, Unborn, [Next]_vars, ClosedKept, AtLeastOnce',
           NEW k \in Keys, StatusIs(k), StatusIs(k)', StatusOf(k)' # StatusOf(k)
    PROVE  <<StatusOf(k), StatusOf(k)'>> \in Contract!Moves
<1>1. CASE k \notin emitted
  <2>1. StatusOf(k) = "absent" /\ k \in emitted'
      BY <1>1 DEF StatusIs
  <2>2. UNCHANGED <<inflight, dlq, reviewQ>>
      BY <1>1, <2>1, EmittedStep
  <2>3. /\ \A m \in Message : m.key = k => dlq[m] = 0
        /\ reviewQ[k] = 0 /\ inflight[k] = "none"
      BY <1>1 DEF Unborn
  <2>4. inflight'[k] # "succeeded" /\ ~Settled(k)'
      BY <2>2, <2>3 DEF Settled, Copies
  <2>5. Custodian(k)'
      BY <2>1, <2>4 DEF AtLeastOnce
  <2>6. StatusOf(k)' = "pending"
      BY <2>1, <2>4, <2>5 DEF StatusIs
  <2> QED BY <2>1, <2>6 DEF Contract!Moves
<1>2. CASE k \in emitted
  <2>1. k \in emitted'
      BY <1>2, EmittedGrows
  <2>2. StatusOf(k) \in {"pending", "parked", "done"}
      BY <1>2 DEF StatusIs
  <2>3. StatusOf(k)' \in {"pending", "parked", "done"}
      BY <2>1 DEF StatusIs
  <2>4. StatusOf(k) # "done"
      BY <1>2, <2>1 DEF StatusIs, ClosedKept
  <2> QED BY <2>2, <2>3, <2>4 DEF Contract!Moves
<1> QED BY <1>1, <1>2

\* Every step before a disturbance is one the contract allows, or none it sees:
\* an event appears pending, a pending one is parked or consumed, a parked one may
\* return, a consumed one stays and none drops out of sight.
THEOREM StepsKeepContract == Spec => [][Quiet' => [Contract!Next]_Seen]_vars
<1>1. /\ TypeOK /\ Unborn /\ AllSeen /\ AllSeen' /\ Custody /\ Custody'
      /\ (Leased => Exclusive) /\ ParksByPolicy /\ [Next]_vars
      => [Quiet' => [Contract!Next]_Seen]_vars
  <2> SUFFICES ASSUME TypeOK, Unborn, AllSeen, AllSeen', Custody, Custody',
                      Leased => Exclusive, ParksByPolicy, [Next]_vars, Quiet'
               PROVE  Contract!Next
      OBVIOUS
  <2>1. Undisturbed /\ AtLeastOnce /\ AtLeastOnce'
      BY UndisturbedBefore DEF Quiet, Custody
  <2>2. ClosedKept
      BY <2>1, SucceededKept DEF Quiet, Leased, Undisturbed
  <2>3. \A k \in Keys : StatusIs(k) /\ StatusIs(k)'
      BY <2>1 DEF AllSeen
  <2>4. \A k \in Keys : StatusOf(k)' \in {"absent", "pending", "parked", "done"}
      BY <2>3 DEF StatusIs
  <2>5. \A k \in Keys : StatusOf(k)' # StatusOf(k)
                        => <<StatusOf(k), StatusOf(k)'>> \in Contract!Moves
      BY <2>1, <2>2, <2>3, MovesAllowed
  <2> QED BY <2>4, <2>5 DEF Contract!Next, Contract!Statuses
<1>2. Init => Unborn
    BY ConstantsAssumption DEF Init, Unborn, KeyOf, NoMessage
<1>3. Spec => []Unborn
    BY <1>2, UnbornStep, TypeCorrect, PTL DEF Spec
<1>4. AllSeen
    BY NothingAllSeen DEF AllSeen
<1> QED
    BY <1>1, <1>3, <1>4, TypeCorrect, NothingIsLost, ExclusiveWhileLeased,
       ParksByPolicyAlways, PTL DEF Spec

\* What a deployment without deaths, reconnects and operators looks like.
Undisturbable ==
    /\ LeaseOutlivesRun /\ OnError # "manual-review"
    /\ \A e \in {"crash", "loss", "clear", "replay"} : Limit[e] = 0

\* Where nothing can disturb the edge, all its behaviours are behaviours of the
\* contract: the safety half of what ImplementsContract says, for every number of
\* keys, handlers, retries, duplicates and failing database and broker calls.
THEOREM EdgeKeepsContract == ASSUME Undisturbable PROVE Spec => Contract!Spec
<1>1. Init => Undisturbed
    BY DEF Init, Undisturbed, Events
<1>2. TypeOK /\ Undisturbed /\ [Next]_vars => Undisturbed'
  <2> SUFFICES ASSUME TypeOK, Undisturbed, [Next]_vars,
                      NEW e \in {"crash", "loss", "clear", "replay"}
               PROVE  spent'[e] = 0
      BY DEF Undisturbed
  <2>1. e \in Events /\ spent[e] = 0 /\ Limit[e] = 0
      BY DEF Events, Undisturbed, Undisturbable
  <2>2. ~Spend(e)
      BY <2>1 DEF Spend
  <2> QED BY <2>1, <2>2, SpentByStep, SpendEffect
<1>3. Undisturbed => Quiet
    BY DEF Undisturbable, Quiet
<1>4. Init => Contract!Init
  <2>1. ASSUME Init, NEW k \in Keys PROVE StatusOf(k) = "absent"
    <3>1. k \notin emitted
        BY <2>1 DEF Init
    <3> QED BY <3>1 DEF StatusOf
  <2> QED BY <2>1 DEF Contract!Init
<1>5. UNCHANGED vars => UNCHANGED Seen
  <2>1. UNCHANGED vars => \A k \in Keys : StatusOf(k)' = StatusOf(k)
      BY DEF vars, queues, handlers, history, StatusOf, Settled, Custodian, Copies,
             Carries, KeyOf
  <2> QED BY <2>1 DEF Seen
<1> QED BY <1>1, <1>2, <1>3, <1>4, <1>5, StepsKeepContract, TypeCorrect, PTL
    DEF Spec, Seen, Contract!Spec
================================================================================
