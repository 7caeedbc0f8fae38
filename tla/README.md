# Verification of chiwei-platform

This directory holds TLA+ models of the parts of chiwei-platform whose
correctness depends on interleavings, failures and order: model-checked with TLC
on small instances and, for the safety properties that matter most, proved with
TLAPS for every value of the constants.

Paths below are relative to `src/`; `app/` stands for
`apps/agent-service/app/`.

## The system

chiwei-platform runs a group of chat personas that live a simulated life between
conversations. `agent-service` (Python, asyncio) holds the personas, the world
they live in and a home-grown dataflow runtime: a graph of `Data` types, `@node`
functions and wires, run by every replica. PostgreSQL keeps durable state, Redis
keeps locks and debounce keys, RabbitMQ carries everything that crosses a process
or must survive one. `tagger-service` (Python) tags batches of images.
`channel-server` and `qq-gateway` (TypeScript) connect Lark and QQ;
`paas-engine`, `api-gateway`, `lite-registry`, `lane-sidecar` (Go) build, release
and route the services by lane; small services (tools, sandbox, media sync,
dashboards) surround them.

Components meet through the runtime. `emit` fans an event out over its wires: a
call in the process, a call per key, a durable wire that puts it on a queue, a
debounced one that merges it with its predecessors, a queue of another app. A
process boots, migrates the schema, compiles the graph and runs a loop per
source. `EventArrived` is the only event on the debounced edge, and its consumer
is the life wake, which raises `DebounceReschedule` to be woken later. A life
round runs the agent with tools; what a persona does is written as acts that the
world pulls; the world's tools deliver events to mailboxes, and each of its ticks
knocks again for what is unread. Falling asleep starts the review of the day,
whose pages a weekly review digests into the persona. A question from a channel
becomes a `ChatRequest` on a durable edge; the reply goes out part by part to the
response worker of channel-server, and a recall to its recall worker.

### Components, their state and their operations

| Component | Source | State | Operations | Hard part |
|---|---|---|---|---|
| Durable edge | `app/runtime/durable.py`, `inflight.py`, `retry.py`, `review_queue.py` | queue, DLQ, review queue, `runtime_inflight` rows with a lease, Data row | publish, claim, take over, run, route an exception, retry, park, mark, clear | a handler can die, be overtaken or be redelivered between any two awaits |
| Debounced edge | `app/runtime/debounce.py` | Redis `latest` and `count`, delayed messages | publish, claim, fire, conditional delete, reschedule | Lua scripts are atomic, the publish after them is not; copies arrive in any order |
| Mailbox and life wake | `app/data/queries/mailbox.py`, `app/nodes/life_wake.py`, `app/agent/session*.py`, `app/runtime/single_flight.py` | envelopes, read marks, lock, cooldown, transcript versions, life state | deliver, knock, renotify, run a round, append, fold, mark read | rounds take minutes, events arrive meanwhile, a round can die at every step |
| World engine | `app/world/`, `app/data/queries/acts.py` | world row with narrative, cursor and marks, transcript, arc, acts | act, heartbeat, self wake, round, tell, reflect | five writers of one row; a cursor moved after a run that may be repeated |
| Life tools | `app/nodes/life_tools.py` | counters of a round, durable rows by derived id, channel sends | act, chat, note, jot, letter, message, read | an effect without its answer, a repeated round |
| Notebook | `app/domain/notebook.py`, `life_wake.py` | entries, dicts of writers, delayed ticks | write, move, settle, hang out, remind | a tick that outlives its entry's time |
| Reviews | `app/life/` | day pages, watermark of jottings, life state, persona versions | review at bedtime, sweep, weekly review | two triggers for one page, two writers of one chain |
| Chat and safety | `app/nodes/chat_node.py`, `safety.py`, `_chat_pre_safety.py`, `app/chat/`, two workers of `apps/channel-server` | reply, its row, segments, messages shown | stream, check, audit, show, note, recall | parts go out while the question is still checked |
| Reading | `app/agent/reading.py`, `app/nodes/reading.py` | impressions by version | paginate, read on, append | overlapping requests that run for minutes |
| Agent core and adapters | `app/agent/core.py`, `session.py`, `neutral.py`, `adapters/` | transcript, request and stream | run, stream, retry, dispatch, cap, translate | a transcript every provider must accept |
| Versioned persistence | `app/runtime/persist.py` | versions per key | insert idempotent, append, append if newest | advisory lock, what a transaction sees |
| Schema migration | `app/runtime/migrator.py` | the live columns | plan, refuse, apply | releases that boot side by side |
| Graph compiler | `app/runtime/wire.py`, `graph.py`, `placement.py` | wires | declare, compile | what compiles must run |
| Outbox | `app/runtime/outbox*.py` | `runtime_outbox` rows | append, lock, emit, commit | single emits, a batch's commit |
| DLQ administration | `app/nodes/dlq_admin.py` | dead letters, audit, inflight rows | requeue, clear | three systems changed one after the other |
| Emission | `app/runtime/emit*.py`, `delayed_trigger.py`, `scheduled.py` | waiters, calls under way | emit, wait, delay | a late reply against two timeouts |
| Source loops | `app/runtime/engine.py`, `bootstrap.py` | process, loops, frames | boot, tick, consume, watchdog, stop | frames in the channel at a stop |
| Lanes | `app/infra/rabbitmq.py`, `propagation.py` | queues per lane | resolve, declare, expire, fall back | a cache of declarations that outlives the queue |
| Configuration and skills | `packages/py-shared/.../dynamic_config.py`, `app/skills/` | snapshot per lane, registry | get, refresh, look, load | threads that refresh at once, files that change under a load |
| Tagger | `apps/tagger-service/app/service/` | SQLite rows, queue, claims, model | submit, dispatch, run, call back, recover | a batch that kills its process |
| Gateways and platform | `apps/channel-server`, `apps/qq-gateway`, `apps/paas-engine`, ... | own databases | inbound dedup, outbound send, release | not modelled |

### What makes each component correct

- Durable edge: an event is never lost before it is consumed or parked; one
  handler per key; a closed event was really handled and stays closed; nothing
  repeats without a fault; every event ends.
- Debounced edge: the newest event always has a fire on its way; an old trigger
  never fires; `max_buffer` trips on time; a rescheduled fire comes.
- Mailbox and life wake: an event is never marked read unseen; one round at a
  time; a recorded round is not run again; a fold never swallows an append;
  surroundings wake nobody; every active event is seen in the end.
- World: what the cursor and the marks cover was input of a completed run; an
  act is not deliberated twice unless the record of its run was lost; what a tool
  told the model was delivered is in the mailbox; no writer of the row undoes
  another; the world catches up.
- Tools, notebook: a thing repeated lands once, another thing is not taken for
  it; a reminder that is set comes, and it is the entry's own.
- Reviews: no jotting is dropped behind the watermark; every lived day gets its
  page; the owner's word stays in the persona; one review a week.
- Chat: a blocked question is answered by the guard only; what went out was
  judged; what was recalled is gone.
- Reading: impressions form one reading; the pages hold the text.
- Agent: every stored transcript can be given back to a provider, whichever it
  is; what acted once does not act again unnoticed.
- Runtime: versions are a chain; a compiled graph calls its consumers with what
  they declare, but for two gaps that are named; a running pod finds its columns; frames, dead letters and outbox
  rows are accounted for; waiters do not outlive their call; lanes stay apart.
- Configuration and skills: an answer is not older than its time to live; the
  registry settles on what the files say.
- Tagger: a batch is in hand once, gets its turn, and every path is answered.

## Modules

| Module | Models | Explored in |
|---|---|---|
| `DeliveryContract` | what a queued edge promises per event; the abstract specification of the next two | `liveness` |
| `DurableEdge` | one durable edge: broker queue, handlers of all replicas, inflight rows | `edge_*`, `liveness` |
| `Debounce` | one key of a debounced edge | `runtime`, `debounce_dropped`, `liveness` |
| `LifeWake` | one persona's mailbox and rounds over one day; the debounced edge appears as "a fire is on its way" | `life_*`, `liveness` |
| `WorldRound` | the rounds of a lane's world | `rounds`, `liveness` |
| `AgentRun`, `Adapters` | the agent every round runs; the providers it speaks to | `rounds` |
| `Sessions` | the two side by side, and what they promise together | `rounds` |
| `LifeTools`, `Notebook` | what a round's tools write; reminders | `rounds` |
| `DayReview`, `PersonaReview` | the review of a day; the review of a week | `rounds` |
| `HerDays` | the two side by side, and what they promise together | `rounds` |
| `Chat` | a reply, its check, its audit and its recall | `rounds`, `chat_*` |
| `Reading` | reading a file on and on | `rounds` |
| `DeadLetters`, `Outbox`, `LaneQueues`, `Emission`, `SourceLoops`, `Versions` | what the runtime has around its edges | `runtime` |
| `Promises` | dead letters, outbox and source loops side by side, and what they promise together | `runtime` |
| `Wiring`, `Schema` | what a process checks before it runs | `runtime` |
| `Snapshots` | the cached configuration and the skills of a process | `runtime` |
| `Processes` | the three side by side, and what they promise together | `runtime` |
| `Tagger` | the tagger service in its entry role | `runtime` |
| `DurableEdge_proofs`, `Debounce_proofs`, `LifeWake_proofs`, `WorldRound_proofs` | theorems about the module of that name | |
| `Runtime_proofs` | theorems about `LaneQueues`, `Versions`, `Emission`, `Processes` | |
| `Promises_proofs` | theorems about `DeadLetters`, `Outbox`, `SourceLoops`, `Tagger` | |
| `Sessions_proofs` | theorems about `AgentRun`, `Adapters`, `Reading` | |
| `HerRounds_proofs` | theorems about `LifeTools`, `Notebook`, `Chat`, `DayReview`, `PersonaReview` | |
| `MC...` | instances for TLC: handlers, keys, bounds on each kind of failure | |

`MCRuntime`, `MCRounds`, `MCLife` and `MCLiveness` hold several instances. They
share no state; a variable `part`, chosen in the initial state and never changed,
says which one moves. A run therefore explores each instance by itself, as
separate runs would, and a property that belongs to one part speaks of that part
only. `MCRuntime` and `MCRounds` extend the modules they explore, so that a
theorem states the very definition the run checks. Where a module is explored with
other constants as well (`WorldRound`, `DayReview`, `Reading`), that is an instance
of it over the same variables.

In every module a step of a process is the code between two awaits, so that any
other process, a failure or a redelivery can come between. Calls to PostgreSQL,
Redis and the broker have three outcomes where the code can tell them apart:
done, failed before anything happened, and done with the reply lost. The
operators called "wrong variant" in a comment are plausible bugs that stand
before the definition they distort; no specification uses them, they serve to
check that each property notices its bug.

How the state and the actions of each module correspond to the code:

**DurableEdge.** `ready`, `dlq`, `reviewQ` count the copies of a message the
broker holds (the retry counter in the header is part of the message);
`inflight` is the row of each key (`expired` is `processing` with `locked_until`
in the past); `dataRow` the Data table; `pc`, `msg` where each handler is; `held`
whether the broker still waits for its ack. Actions follow `handler` line by
line: `ClaimRead` / `ClaimInsert` / `ClaimTakeover` (claim_inflight: the advisory
lock is held from the first to the commit of the others and by nobody else),
`InsertIdempotent`, `MarkHistoryBackfill`, `ConsumerReturns`, `ConsumerRaises`
with `RouteOf`, `MarkSucceeded`, `MarkFailed` with `AfterFailure`,
`RetryPublish`, `ReviewPublish`, `MarkReview`, `FailThenRaise`, `Ack`, `Nack`.
The environment publishes duplicates, fails calls (`InfraError`, the lost-reply
branches of `Committed` and `Confirm`), kills a worker, drops its connection
while the coroutine runs on, expires leases, clears rows and replays dead
letters. Left out: `attempts`, `last_error`, `worker_id`, trace and lane headers,
which nobody branches on, and the delay of a retry (a delayed copy may arrive at
any time). An edge has a Data table of its own in the model; in the code two consumers
of one durable wire would share it, and the second would take the row of the first for
history, contrary to the docstring at `app/runtime/inflight.py:74`. No durable wire of
`app/wiring` has two consumers.

**Debounce.** `latest` and `count` in Redis, triggers being published, queued and
dead, and the handlers. A trigger is the event it was minted for and how often
that event was rescheduled, which stands for its uuid. `torn` is history:
triggers made `latest` whose publish never happened. Each Lua script is one
action, each publish another. `LatestExpires` takes both keys: an event gives them one
TTL, and whatever moves `latest` on without an event finds `count` at 0.

**LifeWake.** Mailbox (`envelopes`, `read`, knocks not yet emitted), chat messages
with the watermark of the life state and the lookback floor, the lock and the
cooldown key, the transcript as the set of round markers of its newest version,
and one `pc` per handler slot. A round is the batch it reads, since its id is
derived from exactly that. `Lock`, `CheckCd`, `ReadInbox`, `CheckHistory`, `Run`,
`LoadSession`, `AppendSession`, `MarkRead` (one event per step), `Fold`,
`FoldStore`, `SetCd`, `Release` follow `life_wake_node` and `_run_life_round`.
`CallFails`, `PersistFails`, `RunFails`, `Crash`, `ConnectionLoss`, `LockExpires`
are the failures; `KnockLost` is what module Debounce shows an edge may do to a
fire. The tools and the review at the end of a round are modules of their own.

**WorldRound.** `begun` and `committed` are the acts by transaction, in the order
of `created_at`; `row` is the newest `WorldState` version, `markers` the rounds in
the transcript of each day. A runner goes from `Heartbeat` or `SelfTick` through
the lock and the gate, the recovery of a recorded round (`SkipRecorded`), the
batch, the reflections that are due, the model run with its tools (`UpdateWorld`,
`Tell`, `VisitBegins`, `UpdateArc`, `Sleep`), `Persist`, `Close`, `Fold`,
`SetNextWake`, `EmitSelf`. It may fail at every call (`Abort`, `ReflectFails`,
`VisitFails`, `PersistFails`) or die. `done`, `twice` and `overtaken` are history.

**AgentRun.** `run` follows `Agent.run` and `Agent.stream`: model turns with empty
answers and limits, tools dispatched one by one, a transient failure that starts
the loop again, the cap and the write-back. **Adapters** has the neutral messages
of one session and the request under way; `Request` translates them for the
provider at hand, `Delta` and `FunctionCall` are the chunks of its stream, and
`Finish` or `Cut` its end. The loop knows of a turn how many tools it asks for, the
adapters what is called and with which signature; `Sessions` has what both promise.

**LifeTools.** A tool call is a sequence of effects, each with the id the code
derives from `act_id` and the counter of its kind; `Work` does the next,
`WorkFails` and `WorkIsLost` fail it before or after it took effect, and
`RoundFails` has the round run again under the same `act_id`. **Notebook** has
the entries' newest versions, the dict of the round and of the review, and the
delayed ticks; an edit reads and writes in two steps.

**DayReview.** Her living day with rounds, jottings and a state whose writers each
read it and append it whole; `Review` is the one function both triggers call, at
bedtime and in the sweeps. **PersonaReview** has one moment per write instead of a
clock, and the two writers of the version chain.

**Chat.** The reply's run, the check beside it, the audit inside it, the row, and
the two workers of channel-server with their queues. `PartPasses`, `PartIsBlocked`,
`PartTimesOut` and `PartIsCut` are the outcomes of `_resolve_pre_safety_for_part`.

**Reading.** Texts are the lengths of their paragraphs; `Paginate` is the code's
algorithm as a fold, and the part `pages` of `rounds` compares it with the text for
every text of up to three paragraphs. `Begins` to `Settles` are the steps of `reading_node`.

**DeadLetters.** The one queue of dead letters, the shared channel with what it
has not settled, inflight rows and the audit; a request runs `Get`, `OpenAudit`,
`Clear`, `Delete`, `Route`, `PublishAgain`, `CloseAudit`, `Settle` per letter.
**Outbox**: rows with their lock, dispatchers with a batch and the updates that
commit with it. **LaneQueues**: messages with the lane they were sent from, the
one they carry and the queue they lie in; processes per lane with their cache of
declared queues. **Emission**: the wires the graph has for the data, chosen once from
`Wirings`; calls at a wire, waiters by correlation, and what was handed to whom; `Race`
is the choice of `asyncio.wait`. **SourceLoops**: one
process from boot to stop, its loops and frames; a connection that drops is there again
by itself (`Reconnects`), what was not acked is delivered again while its node runs on and
the iterator still holds what it had (`late`), and an ack that comes too late only logs
(`NodeEndsLate`). **Versions**: writers'
transactions, which see what was committed before their statement.

**Wiring.** One wire is built by any sequence of the builder's calls and compiled
beside two that are there; what an edge does later is stated apart, from
`emit.py`, `persist.py`, `durable.py` and `debounce.py`. `CompiledCallsFit` says which
compiled graphs fail at emit, in both directions: those that keep a transient class as
latest (`KeptNowhere`) and those that join a class with a second key (`JoinedInPart`).
**Schema**: pods boot releases of one
table whose annotations and indexes differ.

**Snapshots.** One key of the lane's configuration with the threads that read it, a
refresh being a request without the lock and a store; the files of the skills,
each write with an mtime of its own, and the loop that compares, loads and
remembers.

**Tagger.** The table with its order by `updated_at`, the queue, the two sets of
ids the process has in hand, the worker, the dispatcher, the model's threads and
idle timer, and the receiver of callbacks. A stop takes its steps: `Stops` cancels the
worker while the thread of its run goes on, `StopUnloads` unloads in a second thread with
the lock the run gave back, and the process leaves when its threads have (`Leaves`).

## Runs

| Run | Instances | Distinct states |
|---|---|---|
| `edge_faults` | two publishes of an event, one retry, and once each a failing call, a death, a dropped connection, a clear, a replay | 488,566 |
| `edge_review` | the same under manual-review, on an adoption edge, with leases shorter than runs | 902,839 |
| `runtime` | the debounced edge with every kind of failure, three in one behaviour (261,327); dead letters (247,595); outbox (25,860); lanes (171,237); emissions over three graphs (192,582); source loops with reconnects (51,676); versioned rows (28,944); wires (75,600); migrations (5,448); settings and skills (66,126); tagger (106,197) | 1.2 million |
| `life_faults` | rounds that fail; rounds that overlap | 3.6 million |
| `rounds` | the world with failures (375,261), over two days (130,353) and with deliveries (83,316); agent (128,128); adapters (326,993); tools (303,475); notebook (87,765); bedtimes and mornings (258,460); weekly review (122,550); chat (35,543); reading (150,324 with the texts) | 2.0 million |
| `liveness` | both kinds of edge, the life wake, the world | 97,735 |

What each asks is its `about` in `PROJECT.json`. In `runtime` and `rounds`,
properties with a collective name are conjunctions of the properties the modules
state, each with its own comment there:

- `PromisesAreKept`: `NoLetterVanishes`, `EveryReplayIsAudited`,
  `ReplaysNeedFaults`; `EmitsAreCommitted`, `RepeatsAreEarned`.
- `LanesStaySeparate`: `RunsWhereItBelongs`, `OnlyIdleQueuesLose`; `EmissionIsClean`:
  `WaitersAreClean`, `EmitsInOrder`; `ProcessesFit`: `CompiledCallsFit`,
  `CompiledHttpArrives`, `RunningPodsFit`, `RebootsQuietly`, `ConfigIsFresh`,
  `SkillsAreCurrent`.
- `TasksAreKept`: `OnceInHand`, `OthersGetTheirTurn`, `CallbacksAreEarned`,
  `OneThread`.
- `WorldCanBeTrusted`: `MarksAreEarned`, `InputsComeOnce`, `ToldIsKept`,
  `RunsOnTheNewestArc`; `RowIsKept` is an action property.
- `RunsCanBeTrusted`: `TranscriptsReplay`, `StreamsActOnce`,
  `CallsAreTheModels`, `RequestsAreFaithful`.
- `ToolsCountRight`: `ThingsLandOnce`, `DifferentThingsAreKept`,
  `SegmentsGoOnce`; `RemindersCanBeTrusted`: `RemindersAreOnTheirWay`,
  `RemindersAreCurrent`.
- `HerDaysCanBeTrusted`: `JottingsAreAbsorbed`, `SweepsFillGapsOnly`,
  `EveryDayGetsItsPage`, `PagesAreDigested`, `OwnersWordStays`,
  `OneReviewAWeek`.
- `RepliesCanBeTrusted`: `BlockedEndsInGuard`, `RepliesAreAudited`,
  `OneMessageIsRecalled`; `ReadingCanBeTrusted`: `ReadingIsContinuous`,
  `RepeatsNeedAnother`.
- `WellTyped`: the type invariant of each part, and what the folds over data
  compute: `EveryPathIsAnswered` (the tagger's payload) in `runtime`,
  `PagesHoldTheText` (the pages of a text) in `rounds`.

Six runs end in a violation; each is a statement of the repository that the
code does not keep, with the lines in `PROJECT.json` under `findings`:

- `edge_lost`: the redelivery of a dead worker's message meets its live lease,
  is skipped and acked; the row stays `processing` for ever.
- `edge_replay`: clear and replay on an edge with a Data table closes the event
  as history without running it.
- `debounce_dropped`: a death between the swap and the publish of a reschedule
  drops the fire.
- `life_starved`: a round that was recorded but not marked read blocks the
  inbox: later wakes are skipped at its marker, and with the inbox at its cap
  what lies behind is not reached in that day's session.
- `chat_cut`: a check of the question that times out at one part cuts the reply
  at the next, where the code's comment has it fail open.
- `chat_recall`: the audit runs before the last part is sent, so a recall leaves
  that part standing although the reply counts as recalled.

Properties that hold on a condition name it. `Undisturbed` (nobody died,
disconnected or interfered so far) for `Custody`, `Leased` (no live handler is
overtaken and no row was deleted so far) for `MutualExclusion`,
`RepeatsNeedFaults` and `SucceededIsFinal`. Where a condition fails, the code
does break the property. The same holds elsewhere, and what the code does then is
worth knowing:

- A handler that outlived its lease and fails late sets a row its successor
  closed back to `failed`; under manual-review it may park an event that a
  duplicate has handled.
- An act that commits after a younger one was pulled is behind the world's cursor
  for ever (`overtaken`), since the cursor follows the time transactions began.
- A message that a handler of a lane's fallback queue rejects, or that waits there
  too long, goes to production; delayed emits are triggered in the lane of
  production (`LanesStaySeparate` speaks of the messages that carry their lane).
- A graceful stop rejects the frame in hand, which is then a dead letter.
- A dropped connection delivers the frame in hand once more to a loop that still has it:
  its node runs again after the first run, whose ack went nowhere.
- A graceful stop of the tagger unloads the model beside a thread that may still be on the
  stages; `OneThread` excludes that only until the stop, and a second run always.
- The compiler lets a graph through that keeps a transient class as latest
  (`app/runtime/emit.py:86` stores it, `migrator.py:198` makes no table), and a join of a
  class with two keys (`graph.py:308` looks at the first, `persist.py:284` needs both).
  Both fail at emit. No wire of `app/wiring` is such a one.
- An error of the database ends the outbox dispatcher, and an error in
  `mark_failed` the tagger's worker; nothing starts them again.
- A page, or a version of the owner, that is written while a weekly review runs is
  missed or written over (`late`).
- Two edits of one notebook entry at once may leave the dicts with different
  times (`crossed`).
- A life state that is marked as reviewed while a round writes hers brings the
  older state back.
- A request for the configuration that fails is kept as an empty configuration:
  until it expires, every key has its default.
- A skill edited between the first load and the first look, or that comes and goes
  between a look and its load, stays in the registry as it was read (`unseen`).
- A second delivery of a reading request reads on if another request of the same
  file wrote in between.
- A session whose bytes leave room only for the newest message of a round, when that
  message is a tool result, keeps it without its call, although the docstring of the
  cap (`app/agent/session.py:192`) has a transcript never start on one;
  `TranscriptsReplay` says that this is the only exception. The orphan stays until a
  later cut drops it.

## Bounds

Every unbounded thing is bounded by a constant: a limit for each kind of failure,
and `Max...` for events, acts, days, edits, reads and so on. Two handlers and one
key are enough for every race of the edges, all of which are between a handler
and one successor of the same key, while keys share nothing but the bounds (a
clear of a whole trace is a clear of each of its keys). One failure of a kind per
behaviour suffices to reach each error path, combinations of kinds are in the
runs (of all or of some at a time), and a second one is allowed where a repeated failure has a path of its own
(`transient` in `AgentRun`, `request` in `DeadLetters`, `sweep` in
`PersonaReview`; a second `tell` in `WorldRound` where nothing else fails). The
bedtimes have one jotting, which is dropped or not; what a day with several comes
to is explored with the mornings. `RetryN = 2` is the smallest budget with a retry.
`MaxBuffer = 2` makes the second event trip. `InboxMax = 1` with two events makes
the cap bite, `InboxMax = 2` has partial marking instead. `PullLimit = 2` with two
acts lets a full batch and a partial one happen; `MaxDay = 2` has a midnight under
a round. Three rows and batches of two give two dispatchers a contended and a
partial batch. Two frames under a prefetch of two have one in hand and one that waits
in the channel when it drops. Of the
kinds of failure of the debounced edge and of the source loops three fall in one
behaviour, of the tagger's two (`FewFaults`, `FewTroubles`, `FewTaggings` in
`MCRuntime`); the theorems have no such bound.
`QueueSize = 1` with two batches makes the tagger's queue refuse one. `MaxMessages
= 5` lets the cap fall on every kind of message. `LaneQueues` has one lane beside
production and one stop, so that a queue may expire with the cache still naming
it. Handlers, requests, dispatchers, pods and sweeps are told apart by nothing but
their name, so that the runs take them as symmetric. When the bounds are spent the system comes to rest, so deadlock is not
checked.

`rounds` gives the world one runner: `single_flight` admits one round of a lane,
and what a second runner adds is the lock held by a dead one, which `Orphan` is.

## Fairness

Handlers are weakly fair per handler slot: the event loop runs every ready
coroutine, a consumer or model returns or raises, the broker delivers to an idle
consumer and a Redis key with a TTL expires. The life wake adds the world
heartbeat, an interval source that renotifies on every tick. The world adds that
a round that was woken goes on, that heartbeats come, and that the wake time and
the TTL of a dead round's lock pass (`Progress`); its liveness is a leads-back
property that a death after the run must not break. Failures, publishes and
operator actions are never fair.

The edges' part excludes deaths (see `edge_lost`), and the life wake's excludes
failing calls and deaths between the append and the marks (see `life_starved`):
with them the liveness does not hold, which is what those violations show. The
other modules have no liveness property: the loops that would carry it (outbox
dispatcher, tagger worker, `reading_node` after its last retry) may end for good.

## Proofs

Proved for every value of the constants: every number of keys, handlers, events,
rounds, days, letters, rows, calls, tools, parts, files, pods, threads and tasks, every
graph an emit walks, every set of releases, every cap, every bound on failures.
A theorem that names a property of a run states the definition TLC checks. Every
invariant and action property of a passing run is so stated but for the two
`WellTyped` (see below).

| Module | Theorems | What they say |
|---|---|---|
| `DurableEdge_proofs` | `TypeCorrect`; `OneHandlerPerKey`; `SucceededStays`; `NothingIsLost`; `RepeatsAreFaults`; `ClosedEventsRan` | TypeOK, MutualExclusion, SucceededIsFinal, Custody, RepeatsNeedFaults, SucceededWasRun |
| | `StepsKeepContract`, `EdgeKeepsContract` | the safety half of the refinement of `DeliveryContract` |
| `Debounce_proofs` | `TypeCorrect`; `CountCorrect`; `NewestFires`; `FiresAreKept` | TypeOK, CountIsBacklog, OnlyTheNewestFires, NoLostFire |
| | `StepsKeepContract`, `FiresKeepContract` | the safety half of the refinement |
| `LifeWake_proofs` | `TypeCorrect`; `OnlyShownIsRead`; `RoundsAreSerial`; `RoundsRunOnce`; `FoldsKeepRounds`; `RepeatsAreFaults`; `SurroundingsAreQuiet` | TypeOK, ReadWasShown, OneRoundAtATime, NoRoundTwice, FoldKeepsRounds, RepeatsNeedFaults, PassiveWakesNobody |
| `WorldRound_proofs` | `WorldIsTyped`; `WorldIsTrusted`; `RowStaysWhole` | WorldTypeOK, WorldCanBeTrusted, RowIsKept |
| `Promises_proofs` | `LettersAreKept`, `RowsAreKept`, `PromisesStayKept`; `FramesStayAccounted`; `TasksAreAlwaysKept` | PromisesAreKept by its two halves, FramesAreAccounted, TasksAreKept |
| `Runtime_proofs` | `LanesAreSeparate`, `OnlyExpiryLoses`; `VersionsStayAChain`; `EmissionStaysClean` | LanesStaySeparate, VersionsAreAChain, EmissionIsClean |
| | `CompiledGraphsAlwaysFit`, `PodsAlwaysFit`, `SnapshotsAlwaysFit`; `ProcessesAlwaysFit` | ProcessesFit by its three parts |
| `Sessions_proofs` | `AdaptersAreFaithful`, `RunsCanAlwaysBeTrusted`; `ReadingCanAlwaysBeTrusted` | RunsCanBeTrusted, ReadingCanBeTrusted |
| | `SessionsStayTyped`; `ReadingStaysTyped` | AgentTypeOK and AdapterTypeOK, ReadingTypeOK |
| `HerRounds_proofs` | `ToolsAlwaysCountRight`; `RemindersCanBeTrustedAlways`; `RepliesCanAlwaysBeTrusted`; `HerDaysStayTrusted` | ToolsCountRight, RemindersCanBeTrusted, RepliesCanBeTrusted, HerDaysCanBeTrusted |

### Assumptions

The named assumption of each module (`ConstantsAssumption`, `VersionsAssumption`,
`LanesAssumption`, `EmissionAssumption`, `DeadLettersAssumption`, `OutboxAssumption`,
`LoopsAssumption`, `WorldAssumption`, `ToolsAssumption`, `NotebookAssumption`,
`ChatAssumption`, `DayAssumption`, `PersonaAssumption`, `AgentAssumption`,
`AdapterAssumption`, `ReadingAssumption`, `SchemaAssumption`, `SnapshotsAssumption`,
`TaggerAssumption`, `WiringAssumption`) says what its constants are: bounds are
numbers, the value that stands for nothing is none of the things it stands beside,
sets that are counted are finite. TLC evaluates each on the runs. Five say more:

- `AgentAssumption`: a turn asks for fewer tools than the cap has messages
  (`MaxAsks < MaxMessages`; the code's cap is 200). A turn with more of them has no
  cut that keeps it whole.
- `SchemaAssumption`: releases that declare a reserved column declare it alike. The
  planner never compares one (`app/runtime/migrator.py:230`), so that a release that
  changed its type would run on the old column.
- `SnapshotsAssumption`: the time to live of a snapshot is positive.
- `ReadingAssumption`: a text has a number of pages. That is an induction over the
  text, so the proofs take it and TLC evaluates it on the texts of the run.
- `TaggerAssumption`: a payload is not the missing result.

Two theorems have a hypothesis more, `Undisturbable`: the edges keep their
contract where the events that break it (for the durable edge deaths,
disconnections, clears, replays, an outlived lease; for the debounced one also
failing calls) have the bound 0, as they have in the run `liveness`. What happens
with them is stated without a hypothesis: `StepsKeepContract` says that every step
is a step of the contract or a stutter as long as none of them has happened.

Where a property holds on a condition (`Leased`, `Undisturbed`, a count of
failures), the condition is in the property and the theorem has no other.

### Inductive invariants

None of the properties is inductive by itself but for the types. What each needs
beside them:

- `Exclusive`: MutualExclusion speaks of `run` only. From the locked read of a
  claim to the mark that closes the row, a key has one handler, and its row is one
  no other claim takes. That needs the lease to outlive the run, and rows not to
  vanish under a handler. SucceededIsFinal follows, since only a claimer or owner
  writes a row, and with `ParksByPolicy`: only manual-review writes one without
  its lease.
- `Accounted`: Custody is not inductive because a claim acks a message on the
  strength of somebody else's lease. A live lease always has a handler or a dead
  letter, a parked row has its envelope, and a retry never exceeds its budget.
- `Charged` (durable edge): when no fault is left to pay for another run of a key,
  the key is calm: nothing that is on its way leads to one.
- `ClaimLock`, `Adopted`, `Handled`: a Data row nobody ran the consumer for is one
  of this edge's own, and as long as its inflight row is there nobody inserts the
  key again.
- `Unborn`, `AllSeen`: what was never published is nowhere; each key's status in
  the contract is what the edge's tables say.
- `Coherent` (debounced edge): `latest` belongs to the newest event; no trigger is
  ahead of the events; a handler past its run has its event covered and counted;
  `latest` has moved past a trigger that was swapped out. `OnlyTheNewestFires`, an
  action property, follows from it at the claim; `Guarded` is what the contract
  needs beside it.
- `Sound` (life wake): what is still to be marked was shown, and whoever is in a
  round holds the lock or has outlived it. `Loaded`: a version number says what the
  transcript holds, and while no lock has expired a round about to run is not in
  it. `Charged`: a run of an event that may come has a failed call, a death or an
  expired lock to its name. `Asleep`: until an active event comes, nobody knocks.
- `WorldIInv`: `RowIsSound` and `MarkersAreSound` tie the marks and the cursor to
  the rounds in the transcripts, `DeliberatedIsRemembered` has each act that was
  deliberated in a marker of its day or on the books as unrecorded, `RoundIsSound`
  says of a round under way that its batch starts at the cursor and its marks are
  still owed, `NothingTwice` is InputsComeOnce while nothing has failed.
- `LettersIInv`: `HandsOff` (a valid tag is of a letter the channel has, and two
  requests hold neither the same letter nor the same audit), `CopiesAudited` (a
  copy has an audit nobody owes another copy for), `CopiesBounded` (the copies there
  are and those that may come are one more than the faults).
- `OutboxIInv`: a dispatcher has the rows of its batch locked, each once, to be
  emitted or noted (`SoundPass`); what is locked is pending; a row that may go out
  again has gone out at most once per mishap (`RowsEarned`).
- `LoopsIInv`: a frame was at the node, or has a way to it left, at most once and once more for
  each restart and each lost connection (`FramesEarned`, over every copy the broker, the
  channel and the iterator have: `Pending`); a failed loop counts when its watchdog has come.
- `LanesIInv`: a message lies in the queue of its header's lane or in
  production's, and where one is going there is a queue or was one that expired.
- `VersionsIInv`: a transaction that has taken a number holds the key's advisory
  lock, and is about to commit the version after the newest or nothing.
- `EmissionIInv`: `WaitsFor` ties a call's place in the registry to its correlation, its
  wait and its reply; `HandsOn` says wire by wire what an emit at its place has handed
  on: something at each wire it is past and had to serve, at a fan that is under way
  the keys that are not left, at the wires to come nothing.
- `ToolsIInv`: the rows of a thing, of what is under way and of what has failed have
  one number in one round (`OnePlace`); numbers are given once unless a round runs
  again; what may still be sent was sent at most as often as something went wrong.
- `NotesIInv`: RemindersAreOnTheirWay speaks of active entries and is not inductive,
  because a settled entry may be taken up again and its tick is not hung out a
  second time; `OnTheirWay` says it whatever the status.
- `ChatIInv`: nothing of a reply is out before its check has let it (`Withheld`),
  there is one first message (`OneFirst`), and at each step after the stream the
  text has been judged (`Judged`).
- `PersonaIInv`: what a review was given holds every page and every version of the
  owner there was, but for what came since (`GivenAt`), and nobody has written
  since the week it is about began (`WeekAt`). The weekly guard looks at the newest
  review only; `HasNewest` has one there, in place of an induction over the chain.
- `AgentIInv`: TranscriptsReplay speaks of what is stored. While a round's calls are
  being dispatched its messages lack as many results at their end (`ReplayableBut`),
  and two conversations that can be given back make one when they are joined; the cut
  of the cap falls on a message that is no result, because a turn and its results fit
  below it. A stream that has given nothing has done nothing (`RunSound`).
- `AdapterIInv`: what has been heard of each call, by its place and provider
  (`StreamSound`); a signature is known only of turns that are over or of the chunk that
  brought it (`SignedSound`); every result in a conversation stands behind the turn
  whose call it answers, at the place of that call (`TalkSound`).
- `ReadingIInv`: the versions of a file go on from each other and no request wrote two
  in a row (`OneReading`); a reader at work goes on from a version that is still there
  and is not its own request's (`GoesOn`). The second is what the conditional append
  then preserves.
- `WiringIInv`: a compiled graph satisfies what the compiler checks.
- `SchemaIInv`: a pod plans from the table as it is unless another migrated meanwhile;
  what was refused is not applied; a reserved column is as some release declared it;
  after one release's own migrations the table is that release's (`MadeInv`).
- `SettingsIInv`: what a thread brings was the answer at some time since it asked, and
  the snapshot expires at most its time to live after a time at which it was the answer.
  `SkillsIInv`: the registry is of the files or of a snapshot that has a file which is
  no longer there in that form (`Gone`), so that the next look finds a difference.
- `TagsIInv`: only a process that is up has something in hand, and only the thread of its
  worker on the stages, or after a stop the one it left (`Alone`). What the worker is at fits the row of its task, what is delayed has its
  result (`RowsAgree`). OthersGetTheirTurn is not inductive: `InTurn` has whoever was
  overtaken older in the table than who overtook it and, as long as the worker lives,
  before it in the queue. A dispatch keeps that because it takes what is free by
  `updated_at`, a retry because it is not waiting for a run. `Earned` counts a callback
  that arrived and is not yet in the row; `Alone` has the thread of a process that exits
  on a late run be the worker's.
- `DayIInv`: a review at work holds its day's lock; what it wrote is in its page
  (`SoundAt`); a sweep that ended without a page has cost a failure or met the
  bedtime review of that day at work, which only the first one can (`CostAt`).

The lemmas each proof module begins with say what the model's operators do:
`Goto` and `Spend`, the batch of a dispatcher (`BatchIsOfItsRows`), the newest
version (`NewestCounts`), the last act of a batch (`LastOf`), a step's effect on the
finite sets that are counted (`OneMore`).

### Only model-checked

- Liveness, like ENABLED, is outside the prover's reach: the liveness halves of both
  refinements, `EventuallySettled`, `EventuallySeen`, `ActsAreDeliberated`.
- `PagesHoldTheText` (the pages of a text hold it) and `EveryPathIsAnswered` (a
  payload has a row for every path) say what a fold computes for every sequence, an
  induction over data, which the provers cannot instantiate.
- `WellTyped` of `runtime` and `rounds` is a conjunction over the parts of the run with
  those two beside it. The type of each part is a theorem of its specification (the
  theorems named `...Typed`), but for two conjuncts: that a
  loaded skill has a description (in `SnapshotsTypeOK`), which is what a fold computes,
  and that a counter of a round's tools stays below the bound on things (in
  `ToolsTypeOK`; `ToolsTyped` has it a number).

No module uses a RECURSIVE operator.

## Not modelled

- The gateways (`channel-server` but for the two workers of a reply, `qq-gateway`)
  and the platform (`paas-engine`, `api-gateway`, `lite-registry`,
  `lane-sidecar`): programs of their own in TypeScript and Go. What agent-service
  asks of them is in the model as a call that succeeds, fails, or succeeds
  unanswered.
- Media sync, the sandbox and tool services, dashboards and the alert webhook:
  calls without state of their own to keep consistent, or rendering.
- Reads and rendering: prompts, context windows, history search, tools that only
  read. They branch on nothing the properties speak of.
- The daily fetch of material writes one idempotent row per day and topic; the
  world has its briefing as given.
- Of modelled components: metrics, traces and logs; the fold's choice of what to
  keep of an old transcript; a session's change at midnight beyond what
  `WorldRound` has; the roster lookups behind a delivery; the vision models'
  inference.
- Liveness of the outbox dispatcher, of the tagger's worker and of a reading
  request: after an error nothing restarts the first two, and the last is parked
  after its retries.

## Plan

Every invariant and action property is proved but for the two folds above. What could
come next widens the model:

1. The inbound side of `channel-server` (dedup of a message by its id, the bind of a
   conversation to a lane) and the passive-reply window of `qq-gateway`.
2. The release state machine of `paas-engine`.
3. The queries behind a context window (`app/data/queries/messages.py`), as far as they
   decide what a round has seen.
