------------------------------- MODULE Debounce --------------------------------
(***************************************************************************)
(* One key of a debounced edge (runtime/debounce.py): publish_debounce and *)
(* its delayed messages, the handler _build_handler returns, and the two   *)
(* Redis keys they share, latest and count.                                *)
(*                                                                         *)
(* Each Lua script is one step, and so is each publish that follows it:    *)
(* the process can die, or the call fail, between the two.  A trigger id   *)
(* stands for the event it was minted for and how often that event has     *)
(* been rescheduled, which is what makes it unique.  Delays are left out:  *)
(* a message in the queue may be delivered at any time, in any order.      *)
(***************************************************************************)
EXTENDS Naturals

CONSTANTS
    Handlers,        \* handler slots of all replicas
    None,            \* no trigger: an absent latest key, an idle handler
    MaxBuffer,       \* .debounce(max_buffer = ...)
    MaxEvents,       \* bound: events emitted
    MaxReschedules,  \* bound: reschedules of one event
    Limit            \* bound on each kind of environment event

\* What the environment does: fail a Redis or broker call, kill a process, drop
\* a connection, let latest outlive its TTL, move a dead letter back.
Faults == {"fault", "crash", "loss", "expiry", "replay"}

Trigger == [ev : 1 .. MaxEvents, gen : 0 .. MaxReschedules]

ASSUME ConstantsAssumption ==
    /\ None \notin Trigger
    /\ MaxBuffer \in Nat \ {0}
    /\ MaxEvents \in Nat
    /\ MaxReschedules \in Nat
    /\ Limit \in [Faults -> Nat]

VARIABLES
    latest,      \* debounce:latest, the only trigger allowed to fire
    count,       \* debounce:count, 0 when absent
    publishing,  \* triggers of emitters between the Lua script and mq.publish
    queue,       \* triggers in the queue, their delay running or over
    dlq,         \* triggers in the dead-letter queue
    pc,          \* where each handler is
    trig,        \* the trigger each handler works on
    held,        \* the broker still waits for the handler's ack
    emitted,     \* history: how many events were emitted
    base,        \* history: the newest event that fired, tripped max_buffer or expired
    done,        \* history: the newest event a consumer run has covered
    torn,        \* history: triggers set as latest and never published
    spent        \* how many environment events of each kind have happened

redis    == <<latest, count>>
queues   == <<publishing, queue, dlq>>
handlers == <<pc, trig, held>>
history  == <<emitted, base, done, torn>>
vars     == <<redis, queues, handlers, history, spent>>

PCs == {"idle", "claim", "run", "del", "cas", "republish", "ack", "nack"}

TypeOK ==
    /\ latest \in Trigger \cup {None}
    /\ count \in 0 .. MaxBuffer - 1
    /\ publishing \subseteq Trigger
    /\ queue \subseteq Trigger
    /\ dlq \subseteq Trigger
    /\ pc \in [Handlers -> PCs]
    /\ trig \in [Handlers -> Trigger \cup {None}]
    /\ held \in [Handlers -> BOOLEAN]
    /\ emitted \in 0 .. MaxEvents
    /\ base \in 0 .. MaxEvents
    /\ done \in 0 .. MaxEvents
    /\ torn \subseteq Trigger
    /\ spent \in [Faults -> Nat]
    /\ \A h \in Handlers :
          /\ held[h] => pc[h] # "idle"
          /\ pc[h] # "idle" => trig[h] \in Trigger
          /\ pc[h] \in {"cas", "republish"} => trig[h].gen < MaxReschedules

--------------------------------------------------------------------------------
Init ==
    /\ latest = None
    /\ count = 0
    /\ publishing = {}
    /\ queue = {}
    /\ dlq = {}
    /\ pc = [h \in Handlers |-> "idle"]
    /\ trig = [h \in Handlers |-> None]
    /\ held = [h \in Handlers |-> FALSE]
    /\ emitted = 0
    /\ base = 0
    /\ done = 0
    /\ torn = {}
    /\ spent = [e \in Faults |-> 0]

Spend(e) == spent[e] < Limit[e] /\ spent' = [spent EXCEPT ![e] = @ + 1]

Goto(h, step) == pc' = [pc EXCEPT ![h] = step]

\* A call has taken effect: its reply arrives and the handler goes on to step,
\* or the reply is lost and the exception leaves message.process().
Answered(h, step) ==
    \/ Goto(h, step) /\ UNCHANGED spent
    \/ Goto(h, "nack") /\ Spend("fault")

\* The id _do_reschedule draws for a trigger's event.
Rescheduled(t) == [t EXCEPT !.gen = @ + 1]

--------------------------------------------------------------------------------
\* Wrong variant: count must exceed the buffer before it trips.
PublishLuaTripsLate ==
    /\ emitted < MaxEvents
    /\ emitted' = emitted + 1
    /\ latest' = [ev |-> emitted + 1, gen |-> 0]
    /\ publishing' = publishing \cup {latest'}
    /\ IF count >= MaxBuffer THEN count' = 0 /\ base' = emitted + 1
                             ELSE count' = count + 1 /\ UNCHANGED base
    /\ UNCHANGED <<queue, dlq, handlers, done, torn, spent>>

\* _PUBLISH_LUA: the event takes latest over; the one that fills the buffer
\* resets count and is flagged fire_now.
PublishLua ==
    /\ emitted < MaxEvents
    /\ emitted' = emitted + 1
    /\ latest' = [ev |-> emitted + 1, gen |-> 0]
    /\ publishing' = publishing \cup {latest'}
    /\ IF count + 1 >= MaxBuffer THEN count' = 0 /\ base' = emitted + 1
                                 ELSE count' = count + 1 /\ UNCHANGED base
    /\ UNCHANGED <<queue, dlq, handlers, done, torn, spent>>

\* mq.publish of the emitter.
Publish(t) ==
    /\ t \in publishing
    /\ publishing' = publishing \ {t}
    /\ queue' = queue \cup {t}
    /\ UNCHANGED <<redis, dlq, handlers, history, spent>>

\* mq.publish raises, whether the broker took the message or not, or the
\* emitter dies before it.
PublishFails(t) ==
    /\ t \in publishing
    /\ publishing' = publishing \ {t}
    /\ \/ queue' = queue \cup {t} /\ UNCHANGED torn /\ Spend("fault")
       \/ UNCHANGED queue /\ torn' = torn \cup {t} /\ (Spend("fault") \/ Spend("crash"))
    /\ UNCHANGED <<redis, dlq, handlers, emitted, base, done>>

Deliver(h, t) ==
    /\ pc[h] = "idle"
    /\ t \in queue
    /\ queue' = queue \ {t}
    /\ Goto(h, "claim")
    /\ trig' = [trig EXCEPT ![h] = t]
    /\ held' = [held EXCEPT ![h] = TRUE]
    /\ UNCHANGED <<redis, publishing, dlq, history, spent>>

\* _CLAIM_LUA: a stale trigger is dropped, the latest one clears count.
Claim(h) ==
    /\ pc[h] = "claim"
    /\ \/ /\ latest # trig[h]
          /\ Answered(h, "ack")
          /\ UNCHANGED <<count, base>>
       \/ /\ latest = trig[h]
          /\ count' = 0
          /\ base' = trig[h].ev
          /\ Answered(h, "run")
    /\ UNCHANGED <<latest, queues, trig, held, emitted, done, torn>>

ConsumerReturns(h) ==
    /\ pc[h] = "run"
    /\ Goto(h, "del")
    /\ done' = IF trig[h].ev > done THEN trig[h].ev ELSE done
    /\ UNCHANGED <<redis, queues, trig, held, emitted, base, torn, spent>>

\* The consumer cannot take this fire now: DebounceReschedule.
ConsumerReschedules(h) ==
    /\ pc[h] = "run"
    /\ trig[h].gen < MaxReschedules
    /\ Goto(h, "cas")
    /\ UNCHANGED <<redis, queues, trig, held, history, spent>>

ConsumerRaises(h) ==
    /\ pc[h] = "run"
    /\ Goto(h, "nack")
    /\ UNCHANGED <<redis, queues, trig, held, history, spent>>

\* Wrong variant: DEL without looking whose latest it is.
DelAlways(h) ==
    /\ pc[h] = "del"
    /\ latest' = None
    /\ count' = 0
    /\ Answered(h, "ack")
    /\ UNCHANGED <<queues, trig, held, history>>

\* _CONDITIONAL_DEL_LUA
ConditionalDel(h) ==
    /\ pc[h] = "del"
    /\ IF latest = trig[h] THEN latest' = None /\ count' = 0 ELSE UNCHANGED redis
    /\ Answered(h, "ack")
    /\ UNCHANGED <<queues, trig, held, history>>

\* Wrong variants: SET without the compare, and a new id drawn for the message
\* alone.
RescheduleSet(h) ==
    /\ pc[h] = "cas"
    /\ latest' = Rescheduled(trig[h])
    /\ Answered(h, "republish")
    /\ torn' = IF pc'[h] = "nack" THEN torn \cup {latest'} ELSE torn
    /\ UNCHANGED <<count, queues, trig, held, emitted, base, done>>

RescheduleKeepsLatest(h) ==
    /\ pc[h] = "cas"
    /\ Answered(h, IF latest = trig[h] THEN "republish" ELSE "ack")
    /\ UNCHANGED <<redis, queues, trig, held, history>>

\* _RESCHEDULE_CAS_LUA: a newer event's own timer drives the next fire.  A lost
\* reply leaves a latest nobody will publish.
RescheduleCas(h) ==
    /\ pc[h] = "cas"
    /\ \/ latest # trig[h] /\ Answered(h, "ack") /\ UNCHANGED <<latest, torn>>
       \/ /\ latest = trig[h]
          /\ latest' = Rescheduled(trig[h])
          /\ Answered(h, "republish")
          /\ torn' = IF pc'[h] = "nack" THEN torn \cup {latest'} ELSE torn
    /\ UNCHANGED <<count, queues, trig, held, emitted, base, done>>

\* The publish at the end of _do_reschedule.
Republish(h) ==
    /\ pc[h] = "republish"
    /\ \/ /\ queue' = queue \cup {Rescheduled(trig[h])}
          /\ Answered(h, "ack")
          /\ UNCHANGED torn
       \/ /\ Goto(h, "nack") /\ Spend("fault")
          /\ torn' = torn \cup {Rescheduled(trig[h])}
          /\ UNCHANGED queue
    /\ UNCHANGED <<redis, publishing, dlq, trig, held, emitted, base, done>>

Release(h) ==
    /\ Goto(h, "idle")
    /\ trig' = [trig EXCEPT ![h] = None]
    /\ held' = [held EXCEPT ![h] = FALSE]

Ack(h) ==
    /\ pc[h] = "ack"
    /\ Release(h)
    /\ UNCHANGED <<redis, queues, history, spent>>

\* process(requeue=False): dead-lettered, if the delivery's channel still lives.
Nack(h) ==
    /\ pc[h] = "nack"
    /\ dlq' = IF held[h] THEN dlq \cup {trig[h]} ELSE dlq
    /\ Release(h)
    /\ UNCHANGED <<redis, publishing, queue, history, spent>>

--------------------------------------------------------------------------------
\* A Redis call raises before its script ran, or shutdown cancels the consumer.
InfraError(h) ==
    /\ pc[h] \in {"claim", "run", "del", "cas"}
    /\ Spend("fault")
    /\ Goto(h, "nack")
    /\ UNCHANGED <<redis, queues, trig, held, history>>

Requeue(h) == queue' = IF held[h] THEN queue \cup {trig[h]} ELSE queue

Crash(h) ==
    /\ pc[h] # "idle"
    /\ Spend("crash")
    /\ Requeue(h)
    /\ Release(h)
    /\ torn' = IF pc[h] = "republish" THEN torn \cup {Rescheduled(trig[h])} ELSE torn
    /\ UNCHANGED <<redis, publishing, dlq, emitted, base, done>>

\* The connection drops; the handler's coroutine runs on.
ConnectionLoss(h) ==
    /\ held[h]
    /\ Spend("loss")
    /\ Requeue(h)
    /\ held' = [held EXCEPT ![h] = FALSE]
    /\ UNCHANGED <<redis, publishing, dlq, pc, trig, history>>

\* Wrong variant: INCR alone, so that count has no TTL.
CountNeverExpires ==
    /\ latest # None
    /\ Spend("expiry")
    /\ latest' = None
    /\ base' = emitted
    /\ UNCHANGED <<count, queues, handlers, emitted, done, torn>>

\* No event and no fire for ttl_seconds (24h at least): latest is gone.  An event
\* gives count the same TTL and a claim leaves 0 in it, so count is gone by then.
LatestExpires ==
    /\ latest # None
    /\ Spend("expiry")
    /\ latest' = None
    /\ count' = 0
    /\ base' = emitted
    /\ UNCHANGED <<queues, handlers, emitted, done, torn>>

Replay(t) ==
    /\ t \in dlq
    /\ Spend("replay")
    /\ dlq' = dlq \ {t}
    /\ queue' = queue \cup {t}
    /\ UNCHANGED <<redis, publishing, handlers, history>>

--------------------------------------------------------------------------------
HandlerStep(h) ==
    \/ Claim(h)
    \/ ConsumerReturns(h)
    \/ ConsumerReschedules(h)
    \/ ConsumerRaises(h)
    \/ ConditionalDel(h)
    \/ RescheduleCas(h)
    \/ Republish(h)
    \/ Ack(h)
    \/ Nack(h)
    \/ \E t \in Trigger : Deliver(h, t)

Environment ==
    \/ PublishLua
    \/ \E t \in Trigger : PublishFails(t) \/ Replay(t)
    \/ \E h \in Handlers : InfraError(h) \/ Crash(h) \/ ConnectionLoss(h)
    \/ LatestExpires

Next ==
    \/ Environment
    \/ \E t \in Trigger : Publish(t)
    \/ \E h \in Handlers : HandlerStep(h)

Spec == Init /\ [][Next]_vars

\* The event loops run every ready coroutine, delays end, the broker delivers to
\* an idle consumer and consumers come back.
FairSpec ==
    /\ Spec
    /\ \A t \in Trigger : WF_vars(Publish(t))
    /\ \A h \in Handlers : WF_vars(HandlerStep(h))

--------------------------------------------------------------------------------
\* The message of a trigger is on its way, in work, or where an operator finds it.
Works(h, t) == held[h] /\ trig[h] = t /\ pc[h] # "ack"

InSight(t) ==
    \/ t \in publishing \cup queue \cup dlq
    \/ \E h \in Handlers :
          \/ Works(h, t)
          \/ pc[h] = "republish" /\ t = Rescheduled(trig[h])

\* While an event has not been covered by a consumer run, the one trigger that
\* may still fire for it is in sight, or its publisher broke between the Lua
\* script and the publish: no drop of a stale trigger, no DEL, no reschedule and
\* no dead letter loses a fire.
NoLostFire ==
    spent["expiry"] = 0 /\ done < emitted =>
        latest # None /\ (InSight(latest) \/ latest \in torn)

\* Only the newest event fires (docs/guides/dataflow-framework.md: of several
\* triggers of one key only the last one runs), even when a reschedule or an old
\* fire_now message races a new event.
OnlyTheNewestFires ==
    [][\A h \in Handlers :
          pc[h] = "claim" /\ pc'[h] = "run" => trig[h].ev = emitted]_vars

\* count is the number of events behind the newest that fired, tripped the buffer
\* or outlived the keys: neither DEL nor a late claim forgets an event, and none is
\* counted that redis has forgotten, so max_buffer trips on time.
CountIsBacklog == count = emitted - base

\* A consumer that asked for a later fire gets one (life_wake.py: the batch is
\* rescheduled, never dropped).
RescheduleKeepsTheFire ==
    \A t \in torn : t.gen > 0 => latest # t

\* Why they hold: latest belongs to the newest event, no trigger is ahead of the
\* events, a handler past its run has its event covered and counted, and latest
\* has moved past a trigger that was swapped out.
Fresh == latest # None => latest.ev = emitted

Known == publishing \cup queue \cup dlq \cup torn

Passed(t) ==
    \/ latest = None
    \/ latest.ev > t.ev
    \/ latest.ev = t.ev /\ latest.gen > t.gen

Coherent ==
    /\ Fresh
    /\ done <= emitted /\ base <= emitted
    /\ \A t \in Known : t.ev <= emitted
    /\ \A h \in Handlers :
          /\ trig[h] # None => trig[h].ev <= emitted
          /\ pc[h] \in {"run", "del"} => base >= trig[h].ev
          /\ pc[h] = "del" => done >= trig[h].ev
          /\ pc[h] = "republish" => Passed(trig[h])

\* The edge as the delivery contract, one key per event: a run covers every
\* event up to the one it carries.
StatusOf(e) ==
    CASE e > emitted -> "absent"
      [] e <= done   -> "done"
      [] e <= emitted /\ e > done /\ latest # None /\ InSight(latest) ->
            IF latest \in dlq THEN "parked" ELSE "pending"
      [] OTHER       -> "lost"

Contract == INSTANCE DeliveryContract
    WITH Keys <- 1 .. MaxEvents, status <- [e \in 1 .. MaxEvents |-> StatusOf(e)]

\* Every event is covered by a later run or waits as a dead letter.
ImplementsContract == Contract!FairSpec
================================================================================
