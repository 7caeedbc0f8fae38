------------------------------ MODULE DurableEdge ------------------------------
(***************************************************************************)
(* One durable edge of the dataflow runtime: the RabbitMQ queue between    *)
(* publish_durable and a consumer, the handler _build_handler returns, and *)
(* the runtime_inflight table that deduplicates deliveries                 *)
(* (runtime/durable.py, runtime/inflight.py, runtime/retry.py,             *)
(* runtime/review_queue.py).                                               *)
(*                                                                         *)
(* A step of a handler is the code between two awaits: a worker can die,   *)
(* lose its connection or be overtaken by a peer between any two of them.  *)
(* Counters and texts nobody branches on (attempts, last_error, worker_id, *)
(* trace_id) are left out; the retry counter that travels in the message   *)
(* header decides the retry and is kept.                                   *)
(***************************************************************************)
EXTENDS Naturals, FiniteSets

CONSTANTS
    Keys,              \* idempotent keys of the events of this edge
    NoKey,             \* the key of an idle handler's message
    Workers,           \* handler slots of all replicas
    RetryN,            \* RetryPolicy.n; 1 stands for a wire without .retry()
    OnError,           \* the wire's .on_error policy
    IsAdoption,        \* the Data class adopts an existing table
    LeaseOutlivesRun,  \* lease_ms exceeds every run of a live handler
    Limit              \* bound on each kind of environment event

Policies == {"dlq", "ignore-duplicate", "manual-review", "swallow_and_log"}

\* What the environment does, each kind at most Limit[kind] times: emit an
\* event, fail a database or broker call, kill a worker, drop its connection,
\* clear inflight rows, move a dead letter back.
Events == {"publish", "fault", "crash", "loss", "clear", "replay"}

ASSUME ConstantsAssumption ==
    /\ NoKey \notin Keys
    /\ RetryN \in Nat \ {0}
    /\ OnError \in Policies
    /\ IsAdoption \in BOOLEAN
    /\ LeaseOutlivesRun \in BOOLEAN
    /\ Limit \in [Events -> Nat]

VARIABLES
    ready,     \* copies in the edge's queue, delayed ones included
    dlq,       \* copies in the dead-letter queue
    reviewQ,   \* envelopes in the wire's review queue, by key
    inflight,  \* the runtime_inflight row of each key
    dataRow,   \* the keys whose Data row is in its table
    pc,        \* where each handler is
    msg,       \* the message each handler works on
    held,      \* the broker still waits for the handler's ack
    emitted,   \* history: the keys ever published
    runs,      \* history: how often the consumer returned, by key
    spent      \* how many environment events of each kind have happened

queues   == <<ready, dlq, reviewQ>>
handlers == <<pc, msg, held>>
history  == <<emitted, runs>>
vars     == <<queues, inflight, dataRow, handlers, history, spent>>

Message   == [key : Keys, count : 0 .. RetryN - 1]
NoMessage == [key |-> NoKey, count |-> 0]

\* "processing" is a row whose locked_until lies ahead, "expired" one whose
\* locked_until has passed; "none" is the absence of a row.
RowStates == {"none", "processing", "expired", "failed", "succeeded", "review"}

\* The steps between a claim that said "run" and the mark_* that closes the row.
Owning == {"insert", "backfill", "run", "succeed", "fail",
           "review", "markReview", "failThenRaise"}

\* The awaits of a handler that touch the database or the broker.
Awaits == (Owning \ {"run"}) \cup
          {"claim", "claimInsert", "claimTakeover", "retry", "park", "markParked"}

PCs == Owning \cup Awaits \cup {"idle", "ack", "nack"}

KeyOf(w) == msg[w].key

TypeOK ==
    /\ ready \in [Message -> Nat]
    /\ dlq \in [Message -> Nat]
    /\ reviewQ \in [Keys -> Nat]
    /\ inflight \in [Keys -> RowStates]
    /\ dataRow \subseteq Keys
    /\ pc \in [Workers -> PCs]
    /\ msg \in [Workers -> Message \cup {NoMessage}]
    /\ held \in [Workers -> BOOLEAN]
    /\ emitted \subseteq Keys
    /\ runs \in [Keys -> Nat]
    /\ spent \in [Events -> Nat]
    /\ \A w \in Workers : pc[w] # "idle" => msg[w] \in Message

--------------------------------------------------------------------------------
\* Data rows may predate runtime_inflight; their consumer ran in that era.
Init ==
    /\ ready = [m \in Message |-> 0]
    /\ dlq = [m \in Message |-> 0]
    /\ reviewQ = [k \in Keys |-> 0]
    /\ inflight = [k \in Keys |-> "none"]
    /\ dataRow \in SUBSET Keys
    /\ IsAdoption => dataRow = {}
    /\ pc = [w \in Workers |-> "idle"]
    /\ msg = [w \in Workers |-> NoMessage]
    /\ held = [w \in Workers |-> FALSE]
    /\ emitted = {}
    /\ runs = [k \in Keys |-> IF k \in dataRow THEN 1 ELSE 0]
    /\ spent = [e \in Events |-> 0]

Add(q, x)    == [q EXCEPT ![x] = @ + 1]
Remove(q, x) == [q EXCEPT ![x] = @ - 1]

Spend(e) == spent[e] < Limit[e] /\ spent' = [spent EXCEPT ![e] = @ + 1]

Goto(w, step) == pc' = [pc EXCEPT ![w] = step]

\* A short transaction committed: its reply arrives and the handler goes on to
\* step, or the reply is lost and the exception leaves message.process().
Committed(w, step) ==
    \/ Goto(w, step) /\ UNCHANGED spent
    \/ Goto(w, "nack") /\ Spend("fault")

\* An UPDATE by key: it changes nothing when the row has been deleted.
SetRow(k, state) ==
    inflight' = [inflight EXCEPT ![k] = IF @ = "none" THEN @ ELSE state]

--------------------------------------------------------------------------------
\* publish_durable always publishes; duplicates are the consumer's business.
Publish(k) ==
    /\ Spend("publish")
    /\ ready' = Add(ready, [key |-> k, count |-> 0])
    /\ emitted' = emitted \cup {k}
    /\ UNCHANGED <<dlq, reviewQ, inflight, dataRow, handlers, runs>>

\* Wrong variant: the handler closes over the message of an earlier delivery.
DeliverStale(w, m) ==
    /\ pc[w] = "idle"
    /\ ready[m] > 0
    /\ ready' = Remove(ready, m)
    /\ Goto(w, "claim")
    /\ held' = [held EXCEPT ![w] = TRUE]
    /\ UNCHANGED <<dlq, reviewQ, inflight, dataRow, msg, history, spent>>

Deliver(w, m) ==
    /\ pc[w] = "idle"
    /\ ready[m] > 0
    /\ ready' = Remove(ready, m)
    /\ Goto(w, "claim")
    /\ msg' = [msg EXCEPT ![w] = m]
    /\ held' = [held EXCEPT ![w] = TRUE]
    /\ UNCHANGED <<dlq, reviewQ, inflight, dataRow, history, spent>>

\* Wrong variants: dedup by the mere presence of a row, a claim that does not
\* look at the lease, a claim that does not know the terminal state.
SkippedIfPresent(state)  == state # "none"
SkippedIgnoresLease(state) == state \in {"succeeded", "review"}
SkippedNeverDone(state)  == state \in {"review", "processing"}

\* The rows a claim leaves alone and acks: terminal ones and live leases.
Skipped(state) == state \in {"succeeded", "review", "processing"}

\* The locked half of claim_inflight reads the row. The advisory lock keeps
\* other claims of the key out until the commit; mark_* and delete_inflight do
\* not take it.
ClaimRead(w) ==
    /\ pc[w] = "claim"
    /\ \A v \in Workers :
          KeyOf(v) = KeyOf(w) => pc[v] \notin {"claimInsert", "claimTakeover"}
    /\ \/ Skipped(inflight[KeyOf(w)]) /\ Goto(w, "ack")
       \/ inflight[KeyOf(w)] = "none" /\ Goto(w, "claimInsert")
       \/ /\ ~Skipped(inflight[KeyOf(w)]) /\ inflight[KeyOf(w)] # "none"
          /\ Goto(w, "claimTakeover")
    /\ UNCHANGED <<queues, inflight, dataRow, msg, held, history, spent>>

\* INSERT of a fresh row; only a fresh claim goes on to write the Data row.
ClaimInsert(w) ==
    /\ pc[w] = "claimInsert"
    /\ inflight' = [inflight EXCEPT ![KeyOf(w)] = "processing"]
    /\ Committed(w, IF IsAdoption THEN "run" ELSE "insert")
    /\ UNCHANGED <<queues, dataRow, msg, held, history>>

\* Wrong variant: the Data row is written on every claim, fresh or not.
ClaimTakeoverInserts(w) ==
    /\ pc[w] = "claimTakeover"
    /\ SetRow(KeyOf(w), "processing")
    /\ Committed(w, "insert")
    /\ UNCHANGED <<queues, dataRow, msg, held, history>>

ClaimTakeover(w) ==
    /\ pc[w] = "claimTakeover"
    /\ SetRow(KeyOf(w), "processing")
    /\ Committed(w, "run")
    /\ UNCHANGED <<queues, dataRow, msg, held, history>>

\* insert_idempotent: a Data row that is already there means history.
InsertIdempotent(w) ==
    /\ pc[w] = "insert"
    /\ dataRow' = dataRow \cup {KeyOf(w)}
    /\ Committed(w, IF KeyOf(w) \in dataRow THEN "backfill" ELSE "run")
    /\ UNCHANGED <<queues, inflight, msg, held, history>>

MarkHistoryBackfill(w) ==
    /\ pc[w] = "backfill"
    /\ SetRow(KeyOf(w), "succeeded")
    /\ Committed(w, "ack")
    /\ UNCHANGED <<queues, dataRow, msg, held, history>>

ConsumerReturns(w) ==
    /\ pc[w] = "run"
    /\ Goto(w, "succeed")
    /\ runs' = Add(runs, KeyOf(w))
    /\ UNCHANGED <<queues, inflight, dataRow, msg, held, emitted, spent>>

\* _route_consumer_exception: exception type times on_error policy.
RouteOf(exc) ==
    CASE exc = "DuplicateData" /\ OnError = "ignore-duplicate" -> "succeed"
      [] exc = "NeedsReview" /\ OnError = "manual-review"      -> "review"
      [] OnError = "swallow_and_log"                           -> "succeed"
      [] OTHER                                                 -> "fail"

ConsumerRaises(w) ==
    /\ pc[w] = "run"
    /\ \E exc \in {"DuplicateData", "NeedsReview", "Exception"} : Goto(w, RouteOf(exc))
    /\ UNCHANGED <<queues, inflight, dataRow, msg, held, history, spent>>

MarkSucceeded(w) ==
    /\ pc[w] = "succeed"
    /\ SetRow(KeyOf(w), "succeeded")
    /\ Committed(w, "ack")
    /\ UNCHANGED <<queues, dataRow, msg, held, history>>

\* decide_retry, then the on_error policy once the budget is exhausted.
AfterFailure(count) ==
    CASE count + 1 < RetryN        -> "retry"
      [] count + 1 >= RetryN /\ OnError = "manual-review" -> "park"
      [] OTHER                     -> "nack"

MarkFailed(w) ==
    /\ pc[w] = "fail"
    /\ SetRow(KeyOf(w), "failed")
    /\ Committed(w, AfterFailure(msg[w].count))
    /\ UNCHANGED <<queues, dataRow, msg, held, history>>

\* publish_with_confirm returns False on a timeout too: the broker may have
\* taken the message (accepted) although the confirm never arrived.
Confirm(w, onTrue, onFalse, accepted) ==
    \/ accepted /\ Goto(w, onTrue) /\ UNCHANGED spent
    \/ Goto(w, onFalse) /\ Spend("fault")

\* Wrong variant: the copy carries the headers of the delivery it came from.
RetryPublishSameCount(w) ==
    /\ pc[w] = "retry"
    /\ ready' = Add(ready, msg[w])
    /\ Confirm(w, "ack", "nack", TRUE)
    /\ UNCHANGED <<dlq, reviewQ, inflight, dataRow, msg, held, history>>

RetryPublish(w) ==
    /\ pc[w] = "retry"
    /\ \E accepted \in BOOLEAN :
          /\ ready' = IF accepted THEN Add(ready, [msg[w] EXCEPT !.count = @ + 1])
                                  ELSE ready
          /\ Confirm(w, "ack", "nack", accepted)
    /\ UNCHANGED <<dlq, reviewQ, inflight, dataRow, msg, held, history>>

\* Wrong variant: the row is parked whether or not the envelope was confirmed.
ReviewPublishUnchecked(w) ==
    /\ pc[w] \in {"review", "park"}
    /\ \E accepted \in BOOLEAN :
          reviewQ' = IF accepted THEN Add(reviewQ, KeyOf(w)) ELSE reviewQ
    /\ Goto(w, "markReview")
    /\ UNCHANGED <<ready, dlq, inflight, dataRow, msg, held, history, spent>>

\* publish_to_review_queue, for NeedsReview at once ("review") and for any
\* exception after the last attempt ("park", the row is already failed).
ReviewPublish(w) ==
    /\ pc[w] \in {"review", "park"}
    /\ \E accepted \in BOOLEAN :
          /\ reviewQ' = IF accepted THEN Add(reviewQ, KeyOf(w)) ELSE reviewQ
          /\ IF pc[w] = "review" THEN Confirm(w, "markReview", "failThenRaise", accepted)
                                 ELSE Confirm(w, "markParked", "nack", accepted)
    /\ UNCHANGED <<ready, dlq, inflight, dataRow, msg, held, history>>

MarkReview(w) ==
    /\ pc[w] \in {"markReview", "markParked"}
    /\ SetRow(KeyOf(w), "review")
    /\ Committed(w, "ack")
    /\ UNCHANGED <<queues, dataRow, msg, held, history>>

FailThenRaise(w) ==
    /\ pc[w] = "failThenRaise"
    /\ SetRow(KeyOf(w), "failed")
    /\ Goto(w, "nack")
    /\ UNCHANGED <<queues, dataRow, msg, held, history, spent>>

Release(w) ==
    /\ Goto(w, "idle")
    /\ msg' = [msg EXCEPT ![w] = NoMessage]
    /\ held' = [held EXCEPT ![w] = FALSE]

Ack(w) ==
    /\ pc[w] = "ack"
    /\ Release(w)
    /\ UNCHANGED <<queues, inflight, dataRow, history, spent>>

\* process(requeue=False): the broker dead-letters the message, if the channel
\* it was delivered on is still the one the handler answers on.
Nack(w) ==
    /\ pc[w] = "nack"
    /\ dlq' = IF held[w] THEN Add(dlq, msg[w]) ELSE dlq
    /\ Release(w)
    /\ UNCHANGED <<ready, reviewQ, inflight, dataRow, history, spent>>

--------------------------------------------------------------------------------
\* A database or broker call raises, or shutdown cancels the handler, before
\* anything was written.
InfraError(w) ==
    /\ pc[w] \in Awaits \cup {"run"}
    /\ Spend("fault")
    /\ Goto(w, "nack")
    /\ UNCHANGED <<queues, inflight, dataRow, msg, held, history>>

\* The broker takes back what a dead or disconnected worker had not acked.
Requeue(w) == ready' = IF held[w] THEN Add(ready, msg[w]) ELSE ready

Crash(w) ==
    /\ pc[w] # "idle"
    /\ Spend("crash")
    /\ Requeue(w)
    /\ Release(w)
    /\ UNCHANGED <<dlq, reviewQ, inflight, dataRow, history>>

\* The connection drops and reconnects; the handler's coroutine runs on.
ConnectionLoss(w) ==
    /\ held[w]
    /\ Spend("loss")
    /\ Requeue(w)
    /\ held' = [held EXCEPT ![w] = FALSE]
    /\ UNCHANGED <<dlq, reviewQ, inflight, dataRow, pc, msg, history>>

Owns(w, k) == pc[w] \in Owning /\ KeyOf(w) = k

LeaseExpires(k) ==
    /\ inflight[k] = "processing"
    /\ LeaseOutlivesRun => \A w \in Workers : ~Owns(w, k)
    /\ inflight' = [inflight EXCEPT ![k] = "expired"]
    /\ UNCHANGED <<queues, dataRow, handlers, history, spent>>

\* delete_inflight: one row, or every row of a trace but the succeeded ones.
ClearInflight(S) ==
    /\ Spend("clear")
    /\ inflight' = [k \in Keys |-> IF k \in S /\ inflight[k] # "succeeded"
                                   THEN "none" ELSE inflight[k]]
    /\ UNCHANGED <<queues, dataRow, handlers, history>>

\* An operator moves a dead letter back to the edge's queue.
Replay(m) ==
    /\ dlq[m] > 0
    /\ Spend("replay")
    /\ dlq' = Remove(dlq, m)
    /\ ready' = Add(ready, m)
    /\ UNCHANGED <<reviewQ, inflight, dataRow, handlers, history>>

--------------------------------------------------------------------------------
HandlerStep(w) ==
    \/ ClaimRead(w)
    \/ ClaimInsert(w)
    \/ ClaimTakeover(w)
    \/ InsertIdempotent(w)
    \/ MarkHistoryBackfill(w)
    \/ ConsumerReturns(w)
    \/ ConsumerRaises(w)
    \/ MarkSucceeded(w)
    \/ MarkFailed(w)
    \/ RetryPublish(w)
    \/ ReviewPublish(w)
    \/ MarkReview(w)
    \/ FailThenRaise(w)
    \/ Ack(w)
    \/ Nack(w)

WorkerStep(w) == HandlerStep(w) \/ \E m \in Message : Deliver(w, m)

Environment ==
    \/ \E k \in Keys : Publish(k) \/ LeaseExpires(k)
    \/ \E w \in Workers : InfraError(w) \/ Crash(w) \/ ConnectionLoss(w)
    \/ \E S \in SUBSET Keys \ {{}} : ClearInflight(S)
    \/ \E m \in Message : Replay(m)

Next == Environment \/ \E w \in Workers : WorkerStep(w)

Spec == Init /\ [][Next]_vars

\* The event loop runs every ready coroutine, the broker delivers to an idle
\* consumer, and a consumer returns or raises in the end.
FairSpec == Spec /\ \A w \in Workers : WF_vars(WorkerStep(w))

--------------------------------------------------------------------------------
\* Who still stands for an event: a copy in a queue, or a handler whose
\* delivery the broker has not seen the end of.
Copies(q, k) == \E m \in Message : m.key = k /\ q[m] > 0

Carries(w, k) == held[w] /\ KeyOf(w) = k /\ pc[w] # "ack"

Custodian(k) ==
    \/ Copies(ready, k) \/ Copies(dlq, k) \/ reviewQ[k] > 0
    \/ \E w \in Workers : Carries(w, k)

\* No event is silently lost: until its row says succeeded, somebody can still
\* bring it back (durable.py: "At-least-once with idempotent Data rows").
AtLeastOnce == \A k \in emitted : inflight[k] # "succeeded" => Custodian(k)

\* No worker died or lost its connection and no operator interfered so far.
Undisturbed == \A e \in {"crash", "loss", "clear", "replay"} : spent[e] = 0

\* At-least-once as far as the code gives it: duplicates, overtaken leases and
\* failing database and broker calls lose no event (a skip acks a message only
\* because another delivery of the key is alive or dead-lettered).
Custody == Undisturbed => AtLeastOnce

\* The lease protocol applies: no live handler is overtaken, no row was deleted.
Leased == LeaseOutlivesRun /\ spent["clear"] = 0

\* Two handlers never run the consumer of one key at the same time (claim_inflight:
\* "the live worker is still running").
MutualExclusion ==
    Leased =>
        \A v, w \in Workers :
            v # w /\ pc[v] = "run" /\ pc[w] = "run" => KeyOf(v) # KeyOf(w)

\* A row is succeeded only if the consumer got through once (under the policies
\* that do not declare a raised exception a success): backfill closes an event
\* only when history handled it.
EveryClosedEventRan ==
    OnError \in {"dlq", "manual-review"} =>
        \A k \in Keys : inflight[k] = "succeeded" => runs[k] > 0

\* Neither backfill nor a takeover closes an event nobody handled, unless an
\* operator deleted the row of a handled event and left its Data row.
SucceededWasRun == (IsAdoption \/ spent["clear"] = 0) => EveryClosedEventRan

\* Only an infrastructure fault or a death makes the consumer repeat an event it
\* got through: duplicates and retries alone never do (runtime_inflight's dedup).
RepeatsNeedFaults ==
    Leased => \A k \in Keys : runs[k] <= 1 + spent["fault"] + spent["crash"]

\* succeeded is a dedup terminal: no later step of any handler reopens the row
\* (inflight.py, "succeeded is the only dedup terminal").  Under manual-review one
\* may: a handler that parks a failed row after its last attempt holds no lease,
\* and its mark_review overwrites what a duplicate's run has closed meanwhile.
SucceededIsFinal ==
    [][Leased /\ OnError # "manual-review" =>
          \A k \in Keys : inflight[k] = "succeeded" => inflight'[k] = "succeeded"]_vars

Settled(k) == inflight[k] = "succeeded" \/ Copies(dlq, k) \/ reviewQ[k] > 0

\* Every emitted event ends: consumed, dead-lettered or in the review queue.
EventuallySettled == \A k \in Keys : (k \in emitted) ~> Settled(k)

\* The edge seen as the delivery contract: a lost event has no status there.
StatusOf(k) ==
    CASE k \notin emitted           -> "absent"
      [] k \in emitted /\ inflight[k] = "succeeded" -> "done"
      [] k \in emitted /\ inflight[k] # "succeeded" /\ Settled(k) -> "parked"
      [] k \in emitted /\ ~Settled(k) /\ Custodian(k) -> "pending"
      [] OTHER                      -> "lost"

Contract == INSTANCE DeliveryContract WITH status <- [k \in Keys |-> StatusOf(k)]

\* The edge implements the contract, step by step and with its fairness: a row
\* that succeeded is never reopened, an event never drops out of sight.
ImplementsContract == Contract!FairSpec

--------------------------------------------------------------------------------
\* Why MutualExclusion holds while leases outlive runs: from the locked read of
\* a claim to the mark that closes the row a key has one handler, and its row is
\* one no other claim takes.
Claiming == {"claimInsert", "claimTakeover"}

Exclusive ==
    /\ \A v, w \in Workers :
          /\ v # w
          /\ pc[v] \in Owning \cup Claiming
          /\ pc[w] \in Owning \cup Claiming
          => KeyOf(v) # KeyOf(w)
    /\ \A w \in Workers :
          /\ pc[w] \in Owning => inflight[KeyOf(w)] \in {"processing", "review"}
          /\ pc[w] = "claimTakeover" => inflight[KeyOf(w)] # "none"
          /\ pc[w] \in Claiming => inflight[KeyOf(w)] # "succeeded"

\* Why Custody holds while no worker dies: a live lease always has a handler
\* that will close it or a dead letter of one that could not, a parked row has
\* its envelope, and a retry never runs past the budget.
HasRow == Owning \cup {"claimTakeover", "retry", "park", "markParked"}

Anchored(k) ==
    \/ Copies(dlq, k)
    \/ \E w \in Workers : KeyOf(w) = k /\ pc[w] \in Owning \cup {"nack"}

Accounted ==
    /\ \A k \in Keys : inflight[k] = "processing" => Anchored(k)
    /\ \A k \in Keys : inflight[k] = "review" => reviewQ[k] > 0
    /\ \A w \in Workers :
          /\ held[w] <=> pc[w] # "idle"
          /\ pc[w] \in {"markReview", "markParked"} => reviewQ[KeyOf(w)] > 0
          /\ pc[w] \in HasRow => inflight[KeyOf(w)] # "none"
          /\ pc[w] = "retry" => msg[w].count + 1 < RetryN

================================================================================
