------------------------------ MODULE SourceLoops ------------------------------
(***************************************************************************)
(* The process around the graph (runtime/engine.py, runtime/bootstrap.py,   *)
(* runtime/lane_policy.py, main.py): it boots, starts a loop per source, is *)
(* killed by its watchdog when a loop fails, and stops.                     *)
(*                                                                         *)
(* A time source starts the emit of every tick as a task of its own and     *)
(* goes on.  A queue source handles one frame after the other.              *)
(***************************************************************************)
EXTENDS Naturals, FiniteSets

CONSTANTS
    Timed,          \* cron and interval sources
    Queue,          \* a source on a queue
    Frames,         \* what arrives in that queue
    NoFrame,
    Prefetch,       \* prefetch_count
    TimeSources,    \* time_sources_enabled of this lane
    MaxTicks,       \* bound on the ticks of a source
    LoopLimit       \* bound on each of LoopEvents

\* Finitely many frames; no frame is none, and the queue is not a time source.
ASSUME LoopsAssumption ==
    /\ IsFiniteSet(Frames) /\ NoFrame \notin Frames
    /\ Queue \notin Timed /\ MaxTicks \in Nat

\* A loop hits a fatal error; a frame does not decode or its node raises; a boot
\* fails; the process is stopped, or dies; the connection drops.
LoopEvents == {"fatal", "frame", "boot", "stop", "crash", "loss"}

Sources == Timed \cup {Queue}

BootSteps == <<"graph", "trigger", "topology", "schema", "consumers", "sources">>

VARIABLES
    boot,       \* the boot step that comes next, "down" or "running"
    loops,      \* the loop of each source
    fatal,      \* _source_error
    due,        \* ticks whose time has come
    ticks,      \* ticks so far
    emitting,   \* _fire_and_forget_emits, by source
    frames,     \* the frames
    handling,   \* the frame the queue's loop awaits
    ours,       \* whether its delivery is one of the channel that is open
    late,       \* what the iterator still holds of channels that were lost, by frame
    handled,    \* history: how often each frame went to the node
    troubles    \* how often each of LoopEvents happened

frameVars == <<frames, handling, ours, late, handled>>
loopVars == <<boot, loops, fatal, due, ticks, emitting, frameVars, troubles>>

\* Types; tasks and loops are those of a process that runs.
LoopsTypeOK ==
    /\ boot \in {"down", "running"} \cup {BootSteps[i] : i \in DOMAIN BootSteps}
    /\ loops \in [Sources -> {"off", "on", "ended"}]
    /\ due \in [Timed -> 0 .. MaxTicks] /\ ticks \in [Timed -> 0 .. MaxTicks]
    /\ emitting \in [Timed -> 0 .. MaxTicks]
    /\ frames \in [Frames -> {"ready", "unacked", "acked", "dead"}]
    /\ handling \in Frames \cup {NoFrame} /\ ours \in BOOLEAN /\ late \in [Frames -> Nat]
    /\ boot # "running" => /\ \A s \in Sources : loops[s] = "off"
                           /\ \A s \in Timed : emitting[s] = 0
                           /\ handling = NoFrame /\ \A f \in Frames : late[f] = 0

LoopsInit ==
    /\ boot = "down"
    /\ loops = [s \in Sources |-> "off"]
    /\ fatal = FALSE
    /\ due = [s \in Timed |-> 0] /\ ticks = [s \in Timed |-> 0]
    /\ emitting = [s \in Timed |-> 0]
    /\ frames = [f \in Frames |-> "ready"]
    /\ handling = NoFrame /\ ours = FALSE
    /\ late = [f \in Frames |-> 0]
    /\ handled = [f \in Frames |-> 0]
    /\ troubles = [e \in LoopEvents |-> 0]

Trouble(e) == troubles[e] < LoopLimit[e] /\ troubles' = [troubles EXCEPT ![e] = @ + 1]

--------------------------------------------------------------------------------
\* prepare_for_run and the lifespan: load and compile the graph, register the trigger
\* wire, declare the durable routes, migrate, start the consumers; the sources last.
BootStep ==
    /\ boot \notin {"running"}
    /\ LET at(step) == CHOOSE i \in DOMAIN BootSteps : BootSteps[i] = step IN
       IF boot = "down" THEN boot' = BootSteps[1] /\ UNCHANGED <<loops, due>>
       ELSE IF boot # "sources"
         THEN boot' = BootSteps[at(boot) + 1] /\ UNCHANGED <<loops, due>>
       ELSE /\ boot' = "running"
            /\ loops' = [s \in Sources |-> IF s = Queue \/ TimeSources THEN "on" ELSE "off"]
            /\ due' = [s \in Timed |-> 0]
    /\ UNCHANGED <<fatal, ticks, emitting, frameVars, troubles>>

\* Any of them raises and the process is gone: a GraphError, no broker, a schema that
\* would have to be changed.
BootFails ==
    /\ boot \notin {"down", "running"}
    /\ Trouble("boot")
    /\ boot' = "down"
    /\ UNCHANGED <<loops, fatal, due, ticks, emitting, frameVars>>

--------------------------------------------------------------------------------
\* Time passes.
TickComes(s) ==
    /\ loops[s] = "on" /\ ticks[s] < MaxTicks
    /\ due' = [due EXCEPT ![s] = @ + 1] /\ ticks' = [ticks EXCEPT ![s] = @ + 1]
    /\ UNCHANGED <<boot, loops, fatal, emitting, frameVars, troubles>>

\* A tick: payload, trace, and a task that emits.
Fire(s) ==
    /\ loops[s] = "on" /\ due[s] > 0
    /\ due' = [due EXCEPT ![s] = @ - 1]
    /\ emitting' = [emitting EXCEPT ![s] = @ + 1]
    /\ UNCHANGED <<boot, loops, fatal, ticks, frameVars, troubles>>

\* That emit returns, or raises, which is logged.  It may as well hang.
EmitEnds(s) ==
    /\ emitting[s] > 0
    /\ emitting' = [emitting EXCEPT ![s] = @ - 1]
    /\ UNCHANGED <<boot, loops, fatal, due, ticks, frameVars, troubles>>

--------------------------------------------------------------------------------
Unacked == {f \in Frames : frames[f] = "unacked"}

\* The broker hands out up to Prefetch frames.
DeliverFrame(f) ==
    /\ loops[Queue] = "on"
    /\ frames[f] = "ready" /\ Cardinality(Unacked) < Prefetch
    /\ frames' = [frames EXCEPT ![f] = "unacked"]
    /\ UNCHANGED <<boot, loops, fatal, due, ticks, emitting, handling, ours, late, handled, troubles>>

\* Wrong variant: acked when it is taken.
TakeAcked(f) ==
    /\ loops[Queue] = "on" /\ handling = NoFrame
    /\ frames[f] = "unacked"
    /\ handling' = f /\ ours' = FALSE /\ UNCHANGED <<late, handled>>
    /\ frames' = [frames EXCEPT ![f] = "acked"]
    /\ UNCHANGED <<boot, loops, fatal, due, ticks, emitting, troubles>>

\* The loop takes the next one; a frame that decodes goes to the node, under its context.
Take(f) ==
    /\ loops[Queue] = "on" /\ handling = NoFrame
    /\ frames[f] = "unacked"
    /\ \/ handling' = f /\ ours' = TRUE /\ handled' = [handled EXCEPT ![f] = @ + 1]
          /\ UNCHANGED <<frames, troubles>>
       \/ Trouble("frame") /\ frames' = [frames EXCEPT ![f] = "dead"]
          /\ UNCHANGED <<handling, ours, handled>>
    /\ UNCHANGED <<boot, loops, fatal, due, ticks, emitting, late>>

\* It takes one that a lost channel had brought, and cannot tell.
TakeLate(f) ==
    /\ loops[Queue] = "on" /\ handling = NoFrame
    /\ late[f] > 0
    /\ late' = [late EXCEPT ![f] = @ - 1]
    /\ \/ handling' = f /\ handled' = [handled EXCEPT ![f] = @ + 1] /\ UNCHANGED troubles
       \/ Trouble("frame") /\ UNCHANGED <<handling, handled>>
    /\ UNCHANGED <<boot, loops, fatal, due, ticks, emitting, frames, ours>>

\* The node returns: ack.  It raises: rejected to the dead letters, and on to the next.
NodeEnds ==
    /\ handling # NoFrame /\ ours
    /\ \/ frames' = [frames EXCEPT ![handling] = "acked"] /\ UNCHANGED troubles
       \/ Trouble("frame") /\ frames' = [frames EXCEPT ![handling] = "dead"]
    /\ handling' = NoFrame /\ ours' = FALSE
    /\ UNCHANGED <<boot, loops, fatal, due, ticks, emitting, late, handled>>

\* Its channel is gone by then: the ack or the reject raises, that is logged, and the
\* loop goes on to the next.
NodeEndsLate ==
    /\ handling # NoFrame /\ ~ours
    /\ handling' = NoFrame
    /\ UNCHANGED <<boot, loops, fatal, due, ticks, emitting, frames, ours, late, handled, troubles>>

--------------------------------------------------------------------------------
Returned(fs) == [f \in Frames |-> IF f \in fs THEN "ready" ELSE frames[f]]

\* The connection drops and connect_robust has it back: the broker delivers again what
\* was not acked, while the node runs on and the iterator keeps what it had.
Reconnects ==
    /\ loops[Queue] = "on"
    /\ Trouble("loss")
    /\ frames' = Returned(Unacked)
    /\ late' = [f \in Frames |-> IF f \in Unacked /\ ~(ours /\ f = handling)
                                   THEN late[f] + 1 ELSE late[f]]
    /\ ours' = FALSE
    /\ UNCHANGED <<boot, loops, fatal, due, ticks, emitting, handling, handled>>

\* The clock, a payload, the channel or the iterator fails: the loop ends, the first
\* error is kept, and the broker has the frames of that channel back.
LoopFails(s) ==
    /\ loops[s] = "on" /\ (s = Queue => handling = NoFrame)
    /\ Trouble("fatal")
    /\ loops' = [loops EXCEPT ![s] = "ended"]
    /\ fatal' = TRUE
    /\ frames' = IF s = Queue THEN Returned(Unacked) ELSE frames
    /\ late' = IF s = Queue THEN [f \in Frames |-> 0] ELSE late
    /\ UNCHANGED <<boot, due, ticks, emitting, handling, ours, handled>>

\* What is left of a process that is gone.
Gone(left) ==
    /\ boot' = "down" /\ fatal' = FALSE
    /\ loops' = [s \in Sources |-> "off"]
    /\ due' = [s \in Timed |-> 0] /\ emitting' = [s \in Timed |-> 0]
    /\ handling' = NoFrame /\ ours' = FALSE
    /\ late' = [f \in Frames |-> 0]
    /\ frames' = left
    /\ UNCHANGED <<ticks, handled>>

\* The watchdog ends the process.
Watchdog ==
    /\ boot = "running" /\ fatal
    /\ Gone(Returned(Unacked))
    /\ UNCHANGED troubles

\* The process dies.
Dies == boot = "running" /\ Trouble("crash") /\ Gone(Returned(Unacked))

\* stop_source_loops cancels the loops, the watchdog, the tasks.  The frame under way
\* is rejected by its cancelled process(requeue=False) if its channel is there, the
\* others go back.
Stop ==
    /\ boot = "running"
    /\ Trouble("stop")
    /\ Gone([f \in Frames |-> IF ours /\ f = handling THEN "dead"
                              ELSE Returned(Unacked)[f]])

LoopsNext ==
    \/ BootStep \/ BootFails \/ NodeEnds \/ NodeEndsLate \/ Reconnects
    \/ Watchdog \/ Dies \/ Stop
    \/ \E s \in Timed : TickComes(s) \/ Fire(s) \/ EmitEnds(s)
    \/ \E f \in Frames : DeliverFrame(f) \/ Take(f) \/ TakeLate(f)
    \/ \E s \in Sources : LoopFails(s)

LoopsSpec == LoopsInit /\ [][LoopsNext]_loopVars
--------------------------------------------------------------------------------
\* A frame is acked only when its node returned, goes to the node again only after a
\* death, a failed loop or a lost connection, and is dead only when it was refused: not
\* decoded, raised, or under way when the process was stopped.
FramesAreAccounted ==
    /\ \A f \in Frames :
        /\ frames[f] = "acked" => handled[f] > 0
        /\ handled[f] <= 1 + troubles["crash"] + troubles["fatal"] + troubles["loss"]
    /\ Cardinality({f \in Frames : frames[f] = "dead"}) <= troubles["frame"] + troubles["stop"]
================================================================================
