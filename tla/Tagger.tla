-------------------------------- MODULE Tagger ---------------------------------
(***************************************************************************)
(* The tagger service in its entry role (apps/tagger-service): a submitted  *)
(* batch of images is a row of a SQLite table; one worker takes rows from a  *)
(* bounded queue, runs the local model and the remote tagger on the batch,   *)
(* keeps the result in the row and posts it to the callback until the        *)
(* receiver replies or the retries are used up.                              *)
(*                                                                         *)
(* Only the table survives the process.  The dispatcher puts into the queue    *)
(* what the table says is unfinished and the process does not have in hand.   *)
(***************************************************************************)
EXTENDS Naturals, SequencesExt, FiniteSetsExt

CONSTANTS
    Tasks,          \* ids, one per request
    Submitted,       \* the paths of each, and whether its callback_url is allowed
    Objects,        \* names that are basenames
    Unreadable,     \* objects that cannot be read or decoded
    MaxBatchPaths, QueueSize, Retries,
    Nothing,        \* no result yet; no task
    TaggerLimit     \* bound on each of TaggerFaults

\* A stage raises; the local run takes too long; the callback is refused; it arrives and
\* its answer is lost; SQLite raises; the process dies; it is stopped.
TaggerFaults == {"stage", "timeout", "refused", "lost", "store", "crash", "stop"}

VARIABLES
    process,    \* exit_on_local_timeout as configured, and where the lifespan is
    batches,    \* tagger_tasks: status, result and attempts
    older,      \* tagger_tasks by updated_at: <<t, u>>, t was written before u
    waiting, claimed, delayed, dispatching,
    worker,     \* what _run_loop is at, and with which task
    model,      \* the idle timer, and the threads that are on the stages
    received,   \* history: how often the receiver got each callback
    overtakes,  \* history: runs of others that began while a task waited for its own
    taggings    \* how often each of TaggerFaults happened

managerVars == <<waiting, claimed, delayed, dispatching>>
historyVars == <<received, overtakes>>
taggerVars == <<process, batches, older, managerVars, worker, model, historyVars, taggings>>

Lifespan == {"down", "up", "stopping", "leaving"}
Unfinished == {"accepted", "running", "pending_callback"}
Idle == [at |-> "waits", task |-> Nothing]
Cold == [timer |-> FALSE, threads |-> {}]

TaggerInit ==
    /\ process \in [exits : BOOLEAN, at : {"down"}]
    /\ batches = [t \in Tasks |-> [status |-> "none", result |-> Nothing, attempts |-> 0]]
    /\ older = {}
    /\ waiting = <<>> /\ claimed = {} /\ delayed = {} /\ dispatching = FALSE
    /\ worker = Idle /\ model = Cold
    /\ received = [t \in Tasks |-> 0]
    /\ overtakes = [t \in Tasks |-> [o \in Tasks |-> 0]]
    /\ taggings = [f \in TaggerFaults |-> 0]

--------------------------------------------------------------------------------
\* dedup_paths: every path once, in order, and the repeated ones.
Dedup(paths) ==
    FoldLeft(LAMBDA d, p : IF Contains(d.kept, p) THEN [d EXCEPT !.dups = Append(@, p)]
                                                  ELSE [d EXCEPT !.kept = Append(@, p)],
             [kept |-> <<>>, dups |-> <<>>], paths)

Taggers == {"wd14", "eva02", "anime_rating", "phash"}
Describers == {"describe_a", "describe_b", "ocr"}
Said(capabilities, well) == [c \in capabilities |-> IF well THEN "value" ELSE "error"]

Readable(paths) == SelectSeq(Dedup(paths).kept, LAMBDA p : p \notin Unreadable)

\* infer_paths of a service over its stages: what cannot be read has an error of its own.
Inferred(p, capabilities) ==
    IF p \in Unreadable THEN Said({"input"}, FALSE) ELSE Said(capabilities, TRUE)

\* RemoteTaggerClient.infer: the backend's rows, or an error row for each path once the
\* retries are used up or no url is configured.
RemoteRow(p, replies) == IF replies THEN Inferred(p, Taggers) ELSE Said(Taggers, FALSE)

\* merge_rows_for_paths and the payload around it: one row a path, the later group's word
\* for a capability over the earlier's.
Payload(paths, replies) ==
    LET unique == Dedup(paths).kept IN
    [rows |-> [i \in DOMAIN unique |->
        [id |-> unique[i],
         caps |-> Inferred(unique[i], Describers) @@ RemoteRow(unique[i], replies)]],
     dups |-> Dedup(paths).dups]

\* An id and a result are something.
ASSUME TaggerAssumption ==
    /\ Nothing \notin Tasks /\ QueueSize \in Nat /\ Retries \in Nat
    /\ TaggerLimit \in [TaggerFaults -> Nat]
    /\ \A t \in Tasks, replies \in BOOLEAN : Payload(Submitted[t].paths, replies) # Nothing

\* Types.
TaggerTypeOK ==
    /\ process \in [exits : BOOLEAN, at : Lifespan]
    /\ \A t \in Tasks :
        /\ batches[t].status \in Unfinished \cup {"none", "completed", "failed"}
        /\ batches[t].result # Nothing => DOMAIN batches[t].result = {"rows", "dups"}
        /\ batches[t].attempts \in 0 .. (Retries + 1)
    /\ older \subseteq Tasks \X Tasks /\ ToSet(waiting) \subseteq Tasks /\ Len(waiting) <= QueueSize
    /\ claimed \subseteq Tasks /\ delayed \subseteq claimed /\ dispatching \in BOOLEAN
    /\ worker.at \in {"waits", "infers", "runs", "posts", "taken", "refused", "ended"}
    /\ model.threads \subseteq Tasks \cup {Nothing}
    /\ \A f \in TaggerFaults : taggings[f] \in 0 .. TaggerLimit[f]
--------------------------------------------------------------------------------
(* The steps that every path of the worker shares.                          *)

Once(fault) == [f \in TaggerFaults |-> IF f = fault THEN 1 ELSE 0]

\* The faults of a step, each as often as it happens in it.
Charged(faults) ==
    /\ \A f \in TaggerFaults : taggings[f] + faults[f] <= TaggerLimit[f]
    /\ taggings' = [f \in TaggerFaults |-> taggings[f] + faults[f]]

\* An UPDATE of a row, which sets its updated_at.
Update(t, row) ==
    /\ batches' = [batches EXCEPT ![t] = row]
    /\ LET others == {u \in Tasks : u # t /\ batches[u].status # "none"} IN
        older' = {p \in older : t \notin {p[1], p[2]}} \cup others \X {t}

Status(t, status) == [batches[t] EXCEPT !.status = status]

\* Wrong variant: the id is let go although its retry is scheduled.
LetGoAlways(t) == claimed' = claimed \ {t}

\* The finally of _run_loop, after which the dispatcher may pick the row up again.
LetsGo(t) == claimed' = IF t \in delayed' THEN claimed ELSE claimed \ {t}

\* The except of _run_loop: the row is failed; if SQLite raises once more, the worker's
\* task has ended and nobody restarts it.
RowFails(t, fault) ==
    /\ \/ Update(t, Status(t, "failed")) /\ worker' = Idle /\ Charged(Once(fault))
       \/ /\ worker' = [at |-> "ended", task |-> Nothing]
          /\ Charged([Once(fault) EXCEPT !["store"] = @ + 1])
          /\ UNCHANGED <<batches, older>>
    /\ UNCHANGED delayed /\ LetsGo(t)

\* Nothing is in hand and no task is there to take it.
HandsEmpty ==
    /\ waiting' = <<>> /\ claimed' = {} /\ delayed' = {} /\ dispatching' = FALSE
    /\ worker' = Idle
    /\ UNCHANGED <<batches, older, historyVars>>

\* os._exit, a death or the end of a stop: what is not in the table is gone.
Down == process' = [process EXCEPT !.at = "down"] /\ model' = Cold /\ HandsEmpty

--------------------------------------------------------------------------------
(* The process, the endpoint and the dispatcher.                             *)

\* lifespan: the local model is preloaded (a failure ends the process), then the
\* dispatcher and the worker start.
Boot ==
    /\ process.at = "down"
    /\ process' = [process EXCEPT !.at = "up"]
    /\ dispatching' = TRUE
    /\ model' = [Cold EXCEPT !.timer = TRUE]
    /\ UNCHANGED <<batches, older, waiting, claimed, delayed, worker, historyVars, taggings>>

ServiceDies == process.at # "down" /\ Charged(Once("crash")) /\ Down

Admissible(request) ==
    /\ Len(request.paths) \in 1 .. MaxBatchPaths /\ ToSet(request.paths) \subseteq Objects
    /\ request.allowed

\* POST /submit: the checks of the request, then the row.
Submit(t) ==
    /\ process.at = "up" /\ batches[t].status = "none" /\ Admissible(Submitted[t])
    /\ Update(t, Status(t, "accepted"))
    /\ UNCHANGED <<process, managerVars, worker, model, historyVars, taggings>>

Unclaimed == {t \in Tasks : batches[t].status \in Unfinished /\ t \notin claimed}

\* The first of the free rows by updated_at, as many as fit.
Fit(put) ==
    /\ \A i, j \in DOMAIN put : i < j => <<put[i], put[j]>> \in older
    /\ \A t \in Unclaimed \ ToSet(put) :
        Len(waiting) + Len(put) = QueueSize /\ \A i \in DOMAIN put : <<put[i], t>> \in older

\* _dispatch_recoverable_tasks.
Dispatch ==
    /\ process.at = "up" /\ dispatching
    /\ \E n \in 1 .. (QueueSize - Len(waiting)) : \E put \in [1 .. n -> Unclaimed] :
        /\ Fit(put)
        /\ waiting' = waiting \o put
        /\ claimed' = claimed \cup ToSet(put)
    /\ UNCHANGED <<process, batches, older, delayed, dispatching, worker, model, historyVars,
                   taggings>>

\* recoverable_tasks raises: the dispatcher's task has ended.
DispatcherEnds ==
    /\ process.at = "up" /\ dispatching /\ Charged(Once("store"))
    /\ dispatching' = FALSE
    /\ UNCHANGED <<process, batches, older, waiting, claimed, delayed, worker, model, historyVars>>

\* _requeue_later: after its delay the id goes to the end of the queue, waiting for room.
ComesBack(t) ==
    /\ t \in delayed /\ Len(waiting) < QueueSize
    /\ waiting' = Append(waiting, t)
    /\ delayed' = delayed \ {t}
    /\ UNCHANGED <<process, batches, older, claimed, dispatching, worker, model, historyVars,
                   taggings>>

--------------------------------------------------------------------------------
(* The worker.                                                              *)

WaitsForRun(t) == batches[t].status \in {"accepted", "running"}

\* A run of t begins: everybody who waits has been overtaken once more.
RunBegins(t) ==
    overtakes' = [u \in Tasks |->
        IF u # t /\ WaitsForRun(u) THEN [overtakes[u] EXCEPT ![t] = @ + 1]
                                   ELSE [o \in Tasks |-> 0]]

MarkRunning(t) == Update(t, Status(t, "running"))

\* queue.get and the beginning of _run_task: a row with a result only needs its callback.
TakeBatch ==
    /\ worker.at = "waits" /\ waiting # <<>>
    /\ waiting' = Tail(waiting)
    /\ LET t == Head(waiting) IN
        \/ /\ batches[t].status = "pending_callback" /\ batches[t].result # Nothing
           /\ worker' = [at |-> "posts", task |-> t]
           /\ UNCHANGED <<batches, older, overtakes, claimed, delayed, taggings>>
        \/ /\ ~(batches[t].status = "pending_callback" /\ batches[t].result # Nothing)
           /\ MarkRunning(t) /\ RunBegins(t)
           /\ worker' = [at |-> "infers", task |-> t]
           /\ UNCHANGED <<claimed, delayed, taggings>>
        \/ RowFails(t, "store") /\ UNCHANGED overtakes
    /\ UNCHANGED <<process, dispatching, model, received>>

\* The images are loaded and the lock of the runner is free: the idle timer is cancelled
\* and a thread goes over the stages, loading them first if they are not.
EnterStages ==
    /\ worker.at = "infers" /\ Readable(Submitted[worker.task].paths) # <<>>
    /\ Nothing \notin model.threads
    /\ worker' = [worker EXCEPT !.at = "runs"]
    /\ model' = [model EXCEPT !.timer = FALSE, !.threads = @ \cup {worker.task}]
    /\ UNCHANGED <<process, batches, older, managerVars, historyVars, taggings>>

\* The thread is back, and the idle timer starts anew.
LeaveStages ==
    model' = IF worker.at = "runs"
               THEN [timer |-> TRUE, threads |-> model.threads \ {worker.task}] ELSE model

\* Both results are there: the merged rows are kept, then posted.  A batch without a
\* readable image needs no stage.
Finish ==
    /\ \/ worker.at = "runs"
       \/ worker.at = "infers" /\ Readable(Submitted[worker.task].paths) = <<>>
    /\ LeaveStages
    /\ LET t == worker.task IN
        \/ \E replies \in BOOLEAN :
            /\ Update(t, [Status(t, "pending_callback") EXCEPT
                             !.result = Payload(Submitted[t].paths, replies)])
            /\ worker' = [worker EXCEPT !.at = "posts"]
            /\ UNCHANGED <<claimed, delayed, taggings>>
        \/ RowFails(t, "store")
    /\ UNCHANGED <<process, waiting, dispatching, historyVars>>

\* A stage raises: the runner unloads what is loaded, the task is failed.
StageFails ==
    /\ worker.at = "runs"
    /\ LeaveStages
    /\ RowFails(worker.task, "stage")
    /\ UNCHANGED <<process, waiting, dispatching, historyVars>>

\* local_infer_timeout_seconds pass.  The process exits and the row runs again in the next
\* one; without exit_on_local_timeout the task is failed and its thread stays on the stages,
\* the lock of the runner given back.
LocalTimeout ==
    /\ worker.at \in {"infers", "runs"}
    /\ \/ process.exits /\ Charged(Once("timeout")) /\ Down
       \/ /\ ~process.exits
          /\ model' = IF worker.at = "runs" THEN [model EXCEPT !.timer = TRUE] ELSE model
          /\ RowFails(worker.task, "timeout")
          /\ UNCHANGED <<process, waiting, dispatching, historyVars>>

\* A thread nobody waits for comes back.
Straggles(t) ==
    /\ t \in model.threads /\ ~(worker.at = "runs" /\ worker.task = t)
    /\ model' = [model EXCEPT !.threads = @ \ {t}]
    /\ UNCHANGED <<process, batches, older, managerVars, worker, historyVars, taggings>>

\* post_callback: answered, refused before the receiver took it, or its answer lost.
Post ==
    /\ worker.at = "posts"
    /\ \/ worker' = [worker EXCEPT !.at = "taken"] /\ UNCHANGED taggings
       \/ worker' = [worker EXCEPT !.at = "refused"] /\ Charged(Once("lost"))
       \/ worker' = [worker EXCEPT !.at = "refused"] /\ Charged(Once("refused"))
    /\ received' = IF taggings'["refused"] = taggings["refused"]
                     THEN [received EXCEPT ![worker.task] = @ + 1] ELSE received
    /\ UNCHANGED <<process, batches, older, managerVars, model, overtakes>>

\* The rest of _deliver_callback: the row is completed; after a failure it has one more
\* attempt, and is failed or comes back after a delay.
Delivered ==
    /\ worker.at \in {"taken", "refused"}
    /\ LET t == worker.task
           attempts == batches[t].attempts + 1 IN
        \/ /\ worker.at = "taken"
           /\ Update(t, Status(t, "completed"))
           /\ UNCHANGED <<delayed, taggings>> /\ worker' = Idle /\ LetsGo(t)
        \/ /\ worker.at = "refused"
           /\ Update(t, [batches[t] EXCEPT !.attempts = attempts,
                             !.status = IF attempts > Retries THEN "failed" ELSE @])
           /\ delayed' = IF attempts > Retries THEN delayed ELSE delayed \cup {t}
           /\ UNCHANGED taggings /\ worker' = Idle /\ LetsGo(t)
        \/ RowFails(t, "store")
    /\ UNCHANGED <<process, waiting, dispatching, model, historyVars>>

--------------------------------------------------------------------------------
\* idle_unload_seconds after the last run, with the lock of the runner.
IdleUnload ==
    /\ process.at # "leaving" /\ model.timer
    /\ worker.at # "runs" /\ Nothing \notin model.threads
    /\ model' = [model EXCEPT !.timer = FALSE, !.threads = @ \cup {Nothing}]
    /\ UNCHANGED <<process, batches, older, managerVars, worker, historyVars, taggings>>

Unloaded ==
    /\ Nothing \in model.threads
    /\ model' = [model EXCEPT !.threads = @ \ {Nothing}]
    /\ UNCHANGED <<process, batches, older, managerVars, worker, historyVars, taggings>>

(* A stop (the lifespan after its yield).                                    *)

\* TaskManager.stop: the dispatcher and the worker are cancelled, wherever the worker waits,
\* the retries too, and nothing is in hand any more; the queue is not read again.  The thread
\* of a run goes on, the lock of the runner given back.  A task that had already ended raises
\* here, and the lifespan is over.
Stops ==
    /\ process.at = "up" /\ Charged(Once("stop"))
    /\ process' = [process EXCEPT !.at =
                     IF dispatching /\ worker.at # "ended" THEN "stopping" ELSE "leaving"]
    /\ model' = IF worker.at = "runs" THEN [model EXCEPT !.timer = TRUE] ELSE model
    /\ HandsEmpty

\* service.unload: with the lock of the runner, in a thread.
StopUnloads ==
    /\ process.at = "stopping" /\ Nothing \notin model.threads
    /\ process' = [process EXCEPT !.at = "leaving"]
    /\ model' = [timer |-> FALSE, threads |-> model.threads \cup {Nothing}]
    /\ UNCHANGED <<batches, older, managerVars, worker, historyVars, taggings>>

\* The interpreter waits for its threads.
Leaves ==
    /\ process.at = "leaving" /\ model.threads = {}
    /\ Down
    /\ UNCHANGED taggings

TaggerNext ==
    \/ Boot \/ ServiceDies \/ Stops \/ StopUnloads \/ Leaves
    \/ Dispatch \/ DispatcherEnds
    \/ TakeBatch \/ EnterStages \/ Finish \/ StageFails \/ LocalTimeout \/ Post \/ Delivered
    \/ IdleUnload \/ Unloaded
    \/ \E t \in Tasks : Submit(t) \/ ComesBack(t) \/ Straggles(t)

TaggerSpec == TaggerInit /\ [][TaggerNext]_taggerVars
--------------------------------------------------------------------------------
\* A task the process claims is in hand exactly once: in the queue, with the worker or
\* waiting for its retry.  Less, and nobody runs it until the next start; more, and its
\* callback goes out twice.
OnceInHand ==
    LET inWork == {worker.task} \ {Nothing} IN
    /\ IsInjective(waiting)
    /\ ToSet(waiting) \cup delayed \cup inWork = claimed
    /\ ToSet(waiting) \cap delayed = {} /\ inWork \cap (ToSet(waiting) \cup delayed) = {}

\* A batch that takes the process down whenever it runs does not keep the others out: while
\* one waits for its run, no other begins twice.
OthersGetTheirTurn == \A u, t \in Tasks : overtakes[u][t] <= 1

\* A callback arrives again only after a lost answer, a death or a stop; a completed task's
\* has arrived; a task fails for its attempts or for a fault of its run.
CallbacksAreEarned ==
    \A t \in Tasks :
        /\ received[t] <= 1 + taggings["lost"] + taggings["crash"] + taggings["stop"]
        /\ batches[t].status = "completed" => received[t] > 0
        /\ batches[t].status = "failed" =>
            batches[t].attempts > Retries
            \/ taggings["stage"] + taggings["timeout"] + taggings["store"] > 0

\* One row for each path of the request, with something of every tagger or the reason why
\* the image could not be read.
EveryPathIsAnswered ==
    \A t \in Tasks : batches[t].result # Nothing =>
        LET result == batches[t].result
            paths == Submitted[t].paths IN
        /\ Len(result.rows) + Len(result.dups) = Len(paths)
        /\ \A p \in ToSet(paths) : \E i \in DOMAIN result.rows :
            /\ result.rows[i].id = p
            /\ p \notin Unreadable => DOMAIN result.rows[i].caps = Taggers \cup Describers
            /\ p \in Unreadable => result.rows[i].caps["input"] = "error"

\* As long as a late run takes the process with it, the stages never see two runs, and until
\* a stop no unloading under a run.
OneThread ==
    process.exits =>
        /\ Cardinality(model.threads \ {Nothing}) <= 1
        /\ process.at = "up" => Cardinality(model.threads) <= 1

\* A batch the tagger accepted is in hand once, has its turn however often another takes
\* the process down, and its callback is repeated only for a fault (task_manager.py);
\* nothing but a stop unloads the model under a run (runner.py).
TasksAreKept == OnceInHand /\ OthersGetTheirTurn /\ CallbacksAreEarned /\ OneThread
================================================================================
