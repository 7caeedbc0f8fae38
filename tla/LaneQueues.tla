------------------------------ MODULE LaneQueues -------------------------------
(***************************************************************************)
(* Lanes on one broker (infra/rabbitmq.py, runtime/propagation.py and the   *)
(* publishers: debounce, durable, emit_delayed, sink and source dispatch).  *)
(*                                                                         *)
(* A deployment lane has its own copy of every queue.  What a process       *)
(* publishes goes to the lane the publisher resolves; a lane queue with     *)
(* fallback hands its messages to prod when nobody takes them or a handler  *)
(* rejects them, and a queue nobody consumes ceases to exist after a day.   *)
(***************************************************************************)
EXTENDS Naturals, FiniteSets

CONSTANTS
    Lanes,      \* the deployment lanes; each has one process
    Prod,       \* the lane of production
    NoLane,       \* no lane in the context
    Mail,       \* messages published
    MaxStops        \* bound on the stops of a lane's process

\* What is published: a source's or sink's frame, the event of a durable edge, the
\* trigger of a debounced edge, a delayed emit.
Kinds == {"frame", "durable", "fire", "trigger"}

\* Production is a lane, and no lane is none.
ASSUME LanesAssumption == Prod \in Lanes /\ NoLane \notin Lanes /\ MaxStops \in Nat

\* Route.lane_fallback.
Fallback(kind) == kind \in {"frame", "durable"}

\* Debounce triggers and delayed emits go through the exchange with x-delay.
Delayed(kind) == kind \in {"fire", "trigger"}

VARIABLES
    mail,       \* the messages
    known,      \* queues that exist on the broker, <<kind, lane>>
    declared,   \* _declared_lane_queues of each process
    up,         \* lanes whose process runs and consumes
    stops,      \* stops so far
    expired     \* history: queues that ceased to exist

laneVars == <<mail, known, declared, up, stops, expired>>

\* at: the queue's lane it was routed to, or was moved to.  home: the lane its
\* publisher works for.  ranIn: the process that consumed it.
Unsent == [place |-> "none", kind |-> "frame", at |-> Prod, header |-> NoLane,
           home |-> Prod, ranIn |-> NoLane]

Queues == Kinds \X Lanes

\* Types.
LanesTypeOK ==
    /\ \A m \in Mail :
        /\ mail[m].place \in {"none", "held", "queued", "done", "dead", "gone"}
        /\ mail[m].kind \in Kinds
        /\ mail[m].at \in Lanes /\ mail[m].home \in Lanes
        /\ mail[m].header \in Lanes \cup {NoLane} /\ mail[m].ranIn \in Lanes \cup {NoLane}
    /\ known \subseteq Queues /\ expired \subseteq Queues
    /\ declared \in [Lanes -> SUBSET Queues]
    /\ up \subseteq Lanes

\* Prod is up, the other lanes are not deployed yet.
LanesInit ==
    /\ mail = [m \in Mail |-> Unsent]
    /\ known = Kinds \X {Prod}
    /\ declared = [l \in Lanes |-> {}]
    /\ up = {Prod} /\ stops = 0 /\ expired = {}

--------------------------------------------------------------------------------
\* connect, declare_topology, declare_route of every durable and debounced edge: the
\* process has the queues of its lane, and an empty cache.
BootLane(p) ==
    /\ p \notin up
    /\ up' = up \cup {p}
    /\ known' = known \cup Kinds \X {p}
    /\ declared' = [declared EXCEPT ![p] = {}]
    /\ UNCHANGED <<mail, stops, expired>>

StopLane(p) ==
    /\ p \in up /\ p # Prod
    /\ stops < MaxStops /\ stops' = stops + 1
    /\ up' = up \ {p}
    /\ UNCHANGED <<mail, known, declared, expired>>

--------------------------------------------------------------------------------
\* The first that is a lane; lane "prod" is none.
First(a, b) == IF a # NoLane /\ a # Prod THEN a ELSE b

\* current_lane: the context, then the environment.
CurrentLane(p, context) == First(context, First(p, NoLane))

\* Wrong variant: outbound_context without the environment of the deployment.
ResolvedFromContext(kind, p, context, data) ==
    CASE kind = "durable" -> First(context, First(data, NoLane))
      [] OTHER            -> First(context, NoLane)

\* The lane each publisher resolves for the header and for the queue: outbound_context;
\* the context or the data's own lane; the context alone.
Resolved(kind, p, context, data) ==
    CASE kind = "frame"   -> First(context, First(data, First(p, NoLane)))
      [] kind = "fire"    -> CurrentLane(p, context)
      [] kind = "durable" -> First(context, First(data, NoLane))
      [] kind = "trigger" -> First(context, NoLane)

QueueLane(lane) == IF lane = NoLane THEN Prod ELSE lane

\* _ensure_lane_queue: declares what is not in the cache.
Ensured(p, queue) ==
    IF queue[2] = Prod \/ queue \in declared[p] THEN known ELSE known \cup {queue}

Arrive(m, kind, lane, there) ==
    IF <<kind, lane>> \in there THEN "queued" ELSE "gone"

\* publish and publish_with_confirm, in a context of this lane or of the one a
\* request or a message brought along; data's lane is the partition it belongs to.
\* A message no queue takes is gone, and the publisher hears nothing of it.
PublishMail(p, m) ==
    /\ p \in up
    /\ mail[m].place = "none"
    /\ \E kind \in Kinds, context \in {NoLane} \cup (Lanes \ {Prod}), data \in {NoLane, p} :
        LET lane == Resolved(kind, p, context, data)
            at   == QueueLane(lane)
            now  == Ensured(p, <<kind, at>>)
        IN  /\ context = NoLane \/ p = Prod \/ context = p
            /\ known' = now
            /\ declared' = [declared EXCEPT ![p] =
                   IF at = Prod THEN @ ELSE @ \cup {<<kind, at>>}]
            /\ mail' = [mail EXCEPT ![m] =
                   [place |-> IF Delayed(kind) THEN "held" ELSE Arrive(m, kind, at, now),
                    kind |-> kind, at |-> at, header |-> lane, ranIn |-> NoLane,
                    home |-> QueueLane(CurrentLane(p, context))]]
    /\ UNCHANGED <<up, stops, expired>>

\* The delay is over: the exchange routes the message to the queues of now.
ReleaseMail(m) ==
    /\ mail[m].place = "held"
    /\ mail' = [mail EXCEPT ![m].place = Arrive(m, mail[m].kind, mail[m].at, known)]
    /\ UNCHANGED <<known, declared, up, stops, expired>>

\* x-message-ttl and the rejected messages of a queue with fallback: to prod.
ToProd(m) == [mail[m] EXCEPT !.at = Prod, !.place = "queued"]

\* Nobody took it in time.
TimesOut(m) ==
    /\ mail[m].place = "queued" /\ mail[m].at # Prod /\ Fallback(mail[m].kind)
    /\ mail' = [mail EXCEPT ![m] = ToProd(m)]
    /\ UNCHANGED <<known, declared, up, stops, expired>>

\* The lane's process handles a message in the context of its header, and acks it or
\* rejects it; a rejected message goes where _build_queue_args says.
Consume(p, m) ==
    /\ p \in up
    /\ mail[m].place = "queued" /\ mail[m].at = p
    /\ \E fails \in BOOLEAN :
        mail' = [mail EXCEPT ![m] =
            IF ~fails THEN [@ EXCEPT !.place = "done", !.ranIn = p]
            ELSE IF p # Prod /\ Fallback(mail[m].kind) THEN ToProd(m)
            ELSE [@ EXCEPT !.place = "dead", !.ranIn = p]]
    /\ UNCHANGED <<known, declared, up, stops, expired>>

\* x-expires: a lane queue without a consumer is deleted with what it holds, whatever
\* is still published to it.
Expire(queue) ==
    /\ queue \in known /\ queue[2] \notin up
    /\ known' = known \ {queue} /\ expired' = expired \cup {queue}
    /\ mail' = [m \in Mail |->
           IF mail[m].place = "queued" /\ <<mail[m].kind, mail[m].at>> = queue
             THEN [mail[m] EXCEPT !.place = "gone"] ELSE mail[m]]
    /\ UNCHANGED <<declared, up, stops>>

LanesNext ==
    \/ \E p \in Lanes : BootLane(p) \/ StopLane(p)
    \/ \E m \in Mail :
        \/ \E p \in Lanes : PublishMail(p, m) \/ Consume(p, m)
        \/ ReleaseMail(m) \/ TimesOut(m)
    \/ \E queue \in Queues : Expire(queue)

LanesSpec == LanesInit /\ [][LanesNext]_laneVars
--------------------------------------------------------------------------------
\* A lane's process only handles messages that carry its lane, and the debounced fire
\* of a process is handled in the lane that process works for, however long the lane
\* is down, and whoever is up.
RunsWhereItBelongs ==
    \A m \in Mail :
        LET ran == mail[m].ranIn IN
        /\ ran \notin {NoLane, Prod} => mail[m].header = ran
        /\ ran # NoLane /\ mail[m].kind = "fire" => ran = mail[m].home

\* A message is lost only with a queue that stood a day without a consumer.
OnlyIdleQueuesLose ==
    \A m \in Mail : mail[m].place = "gone" => <<mail[m].kind, mail[m].at>> \in expired

\* No lane consumes what another lane was sent, and only an idle queue takes messages
\* with it (infra/rabbitmq.py).
LanesStaySeparate == RunsWhereItBelongs /\ OnlyIdleQueuesLose
================================================================================
