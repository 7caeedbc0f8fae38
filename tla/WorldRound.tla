------------------------------ MODULE WorldRound -------------------------------
(***************************************************************************)
(* The rounds of the world of one lane (world/engine.py, world/state.py,   *)
(* world/tools.py, world/reflection.py, data/queries/acts.py).             *)
(*                                                                         *)
(* Personas perform acts, which are rows stamped when their transaction    *)
(* began.  The world is woken by a heartbeat and by the self ticks it      *)
(* schedules, pulls the acts behind its cursor, deliberates them in one    *)
(* model run whose tools write the narrative and fill mailboxes, and only  *)
(* then moves the cursor.  Acts are numbered in the order of their stamps  *)
(* and cursor 0 is the cursor of a world that has consumed none.           *)
(***************************************************************************)
EXTENDS Naturals, Integers, FiniteSets

CONSTANTS
    Runners,    \* coroutines that may run world_tick
    Free,       \* nobody holds the lock
    Orphan,     \* the lock is held by a round that died
    MaxActs,    \* bound: acts of all personas
    MaxDay,     \* bound: days
    MaxWakes,   \* bound: self wakes scheduled
    PullLimit,  \* WORLD_ACT_PULL_LIMIT
    Limit       \* bound on each kind of failure and on the tools' calls

\* A call of the round raises or its time is up, the reflection fails, the
\* transcript is not persisted, the process dies; the tools send an
\* event or rewrite the arc.
Events == {"fail", "reflect", "persist", "crash", "tell", "arc"}

ASSUME WorldAssumption ==
    /\ {Free, Orphan} \cap Runners = {}
    /\ Free # Orphan
    /\ {MaxActs, MaxWakes} \subseteq Nat
    /\ {MaxDay, PullLimit} \subseteq Nat \ {0}
    /\ Limit \in [Events -> Nat]

VARIABLES
    begun,      \* acts whose transaction has begun
    committed,  \* those that can be read
    row,        \* the newest WorldState version
    markers,    \* per day, the round markers in the session's transcript
    today,
    landed,     \* the days whose DailyMaterials have been fetched
    reached,    \* the next_wake_at of the row is past
    selfTicks,  \* WorldTick(reason="self") on their way, by their target
    wakes,      \* targets used so far
    worldLock,
    at,         \* where each runner is
    rnd,        \* what its round has read and decided
    mailed,     \* the EventEnvelope rows of the tools
    arc,        \* the newest version of WorldArc
    reports,    \* what the tools told the model they delivered
    narrated,   \* world facts that were ever in a narrative
    done,       \* history: what completed runs and reflections had as input
    twice,      \* history: the kinds of input one day had twice
    overtaken,  \* history: acts that committed behind a later one that was read
    used        \* how many of Events have happened

acts    == <<begun, committed>>
clock   == <<today, landed>>
wake    == <<reached, selfTicks, wakes>>
runner  == <<worldLock, at, rnd>>
told    == <<mailed, reports, narrated, arc>>
history == <<done, twice, overtaken>>
worldVars ==
    <<acts, row, markers, clock, wake, runner, told, history, used>>

Acts == 1 .. MaxActs
Days == 1 .. MaxDay

\* No row yet has version FALSE; a row without a narrative is a placeholder.
Rows == [exists : BOOLEAN, detail : BOOLEAN, next : 0 .. MaxWakes, cursor : 0 .. MaxActs,
         materials : 0 .. MaxDay, roster : 0 .. MaxDay,
         reflected : 0 .. MaxDay, digested : 0 .. MaxDay]

NoRow == [exists |-> FALSE, detail |-> FALSE, next |-> 0, cursor |-> 0,
          materials |-> 0, roster |-> 0, reflected |-> 0, digested |-> 0]

\* The marks that say what a day has had already.
Marks == {"materials", "roster", "reflected", "digested"}

\* A marker: the round id and the end of the batch.
Marker == [rid : 0 .. MaxActs, end : Acts]

Kinds == {"ambient", "surroundings", "idle_sense", "speech"}

At == {"idle", "reflect", "mark", "run", "deliver", "persist", "close", "fold",
       "wake", "emit"}

\* owed: what the day had not had when the round read the row.
Rounds == [day : Days, batch : SUBSET Acts, rid : Int, briefing : BOOLEAN,
           arc : 0 .. Limit["arc"], owed : SUBSET Marks, sleeps : BOOLEAN, visit : 0 .. Limit["tell"]]

NoRound == [day |-> 1, batch |-> {}, rid |-> 0, briefing |-> FALSE,
            arc |-> 0, owed |-> {}, sleeps |-> FALSE, visit |-> 0]

\* Types; an act is readable only once its transaction has begun.
WorldTypeOK ==
    /\ begun \in 0 .. MaxActs
    /\ committed \subseteq 1 .. begun
    /\ row \in Rows
    /\ markers \in [Days -> SUBSET Marker]
    /\ today \in Days
    /\ landed \subseteq 1 .. today
    /\ reached \in BOOLEAN
    /\ selfTicks \subseteq 1 .. wakes
    /\ wakes \in 0 .. MaxWakes
    /\ worldLock \in Runners \cup {Free, Orphan}
    /\ at \in [Runners -> At]
    /\ rnd \in [Runners -> Rounds]
    /\ overtaken \subseteq Acts
    /\ arc \in 0 .. Limit["arc"]
    /\ twice \subseteq {"act", "briefing", "roster", "reflection"} \X Days
    /\ used \in [Events -> Nat]

Nothing == [act |-> {}, briefing |-> {}, roster |-> {}, reflection |-> {}, digest |-> {},
            unrecorded |-> {}]

WorldInit ==
    /\ begun = 0 /\ committed = {}
    /\ row = NoRow
    /\ markers = [d \in Days |-> {}]
    /\ today = 1 /\ landed = {}
    /\ reached = FALSE /\ selfTicks = {} /\ wakes = 0
    /\ worldLock = Free
    /\ at = [r \in Runners |-> "idle"]
    /\ rnd = [r \in Runners |-> NoRound]
    /\ mailed = {} /\ reports = {} /\ narrated = {} /\ arc = 0
    /\ done = Nothing /\ twice = {} /\ overtaken = {}
    /\ used = [e \in Events |-> 0]

Use(e) == used[e] < Limit[e] /\ used' = [used EXCEPT ![e] = @ + 1]

Goto(r, step) == at' = [at EXCEPT ![r] = step]

\* single_flight gives the lock back.
Finish(r) ==
    /\ worldLock' = Free
    /\ rnd' = [rnd EXCEPT ![r] = NoRound]
    /\ Goto(r, "idle")

\* Wrong variant: a version built from the new fields alone.
AppendResets(new) ==
    row' = [f \in DOMAIN row |-> IF f \in DOMAIN new THEN new[f]
                                 ELSE IF f = "exists" THEN TRUE ELSE NoRow[f]]

\* insert_append of a version that keeps every field but those in new.
AppendRow(new) ==
    row' = [f \in DOMAIN row |-> IF f \in DOMAIN new THEN new[f]
                                 ELSE IF f = "exists" THEN TRUE ELSE row[f]]

\* The writers that have nothing to carry without a row leave it at that.
AppendIfRow(new) == IF row.exists THEN AppendRow(new) ELSE UNCHANGED row

--------------------------------------------------------------------------------
\* What goes on around the world.

\* perform_act: created_at is the start of the inserting transaction.
BeginAct ==
    /\ begun < MaxActs
    /\ begun' = begun + 1
    /\ UNCHANGED <<committed, row, markers, clock, wake, runner, told, history, used>>

CommitAct(a) ==
    /\ a \in (1 .. begun) \ committed
    /\ committed' = committed \cup {a}
    /\ UNCHANGED <<begun, row, markers, clock, wake, runner, told, history, used>>

MaterialsLand ==
    /\ today \notin landed
    /\ landed' = landed \cup {today}
    /\ UNCHANGED <<acts, row, markers, today, wake, runner, told, history, used>>

Midnight ==
    /\ today < MaxDay
    /\ today' = today + 1
    /\ UNCHANGED <<acts, row, markers, landed, wake, runner, told, history, used>>

WakeTimeComes ==
    /\ row.next # 0 /\ ~reached
    /\ reached' = TRUE
    /\ UNCHANGED <<acts, row, markers, clock, selfTicks, wakes, runner, told, history, used>>

--------------------------------------------------------------------------------
\* A wake.  Both sources pass the gate, and lose against the lock.

\* _self_wake_gate_passes; target 0 is the heartbeat's.
GatePasses(target) ==
    IF row.next = 0 THEN target = 0
                    ELSE reached /\ target \in {0, row.next}

\* list_recent_acts: the PullLimit oldest readable acts behind the cursor.
Batch ==
    LET behind == {a \in committed : a > row.cursor}
    IN {a \in behind : Cardinality({b \in behind : b < a}) < PullLimit}

Latest(S) == IF S = {} THEN 0 ELSE CHOOSE a \in S : \A b \in S : b <= a

\* A batch is named by the cursor it starts at, an empty one by the time.
RoundId == IF Batch # {} THEN row.cursor ELSE -1 - used["tell"]

\* Wrong variant: the transcript is not asked.
RecordedNever == {m \in markers[today] : FALSE}

\* The round is in the day's transcript.
Recorded == {m \in markers[today] : m.rid = RoundId}

\* The materials are fed, and digested, only on a day that has any.
Owed == {k \in Marks : row[k] # today
                       /\ (k \in {"materials", "digested"} => today \in landed)}

\* What the round reads and decides by before it does anything, and where it
\* goes first.
Prepared(r) ==
    /\ worldLock' = r
    /\ rnd' = [rnd EXCEPT ![r] = [
           day |-> today, batch |-> Batch, rid |-> RoundId, briefing |-> today \in landed,
           arc |-> arc, owed |-> Owed, sleeps |-> FALSE, visit |-> 0]]
    /\ overtaken' = overtaken \cup ((1 .. Latest(Batch)) \ committed)
    /\ Goto(r, IF Owed \cap {"reflected", "digested"} # {} THEN "reflect" ELSE "run")
    /\ UNCHANGED row

SkipRecordedOnly == UNCHANGED <<row, runner, overtaken>>

\* Only the cursor was not moved by a recorded round.  It goes to the end its
\* marker names, which need not be the end of this batch.
SkipRecorded ==
    /\ \E m \in Recorded : AppendIfRow([cursor |-> m.end])
    /\ UNCHANGED <<runner, overtaken>>

\* The reads of a round, under its lock: gate, acts, transcript, materials.
Wake(r, target) ==
    IF GatePasses(target)
      THEN IF Recorded # {} THEN SkipRecorded ELSE Prepared(r)
      ELSE UNCHANGED <<row, runner, overtaken>>

Heartbeat(r) ==
    /\ at[r] = "idle" /\ worldLock = Free
    /\ Wake(r, 0)
    /\ UNCHANGED <<acts, markers, clock, wake, told, done, twice, used>>

\* The delayed trigger fires at or after its target; a wake that finds the
\* lock taken is dropped.
SelfTick(r, t) ==
    /\ at[r] = "idle" /\ t \in selfTicks
    /\ t = row.next => reached
    /\ selfTicks' = selfTicks \ {t}
    /\ IF worldLock = Free THEN Wake(r, t) ELSE UNCHANGED <<row, runner, overtaken>>
    /\ UNCHANGED <<acts, markers, clock, reached, wakes, told, done, twice, used>>

\* update_arc is the reflection's alone.
UpdateArc(r) ==
    /\ at[r] = "reflect"
    /\ Use("arc")
    /\ arc' = used'["arc"]
    /\ UNCHANGED <<acts, row, markers, clock, wake, runner, mailed, reports, narrated, history>>

\* The run reads the arc after the reflection, however that one ended.
StartRun(r) ==
    /\ rnd' = [rnd EXCEPT ![r].arc = arc]
    /\ Goto(r, "run")

\* The reflection's run comes back.
Reflect(r) ==
    /\ at[r] = "reflect"
    /\ done' = [done EXCEPT !.reflection = @ \cup {rnd[r].day},
                            !.digest = IF rnd[r].briefing THEN @ \cup {rnd[r].day} ELSE @]
    /\ twice' = IF IF rnd[r].briefing THEN rnd[r].day \in done.digest
                                      ELSE rnd[r].day \in done.reflection
                  THEN twice \cup {<<"reflection", rnd[r].day>>} ELSE twice
    /\ Goto(r, "mark")
    /\ UNCHANGED <<acts, row, markers, clock, wake, worldLock, rnd, told, overtaken, used>>

\* mark_arc_reflected: the one writer that makes a row of its own.
MarkReflected(r) ==
    /\ at[r] = "mark"
    /\ IF rnd[r].briefing
         THEN AppendRow([reflected |-> rnd[r].day, digested |-> rnd[r].day])
         ELSE AppendRow([reflected |-> rnd[r].day])
    /\ StartRun(r)
    /\ UNCHANGED <<acts, markers, clock, wake, worldLock, told, history, used>>

\* The reflection or its mark raises: logged, and the round goes on.
ReflectFails(r) ==
    /\ at[r] \in {"reflect", "mark"}
    /\ Use("reflect")
    /\ StartRun(r)
    /\ UNCHANGED <<acts, row, markers, clock, wake, worldLock, told, history>>

--------------------------------------------------------------------------------
\* The run and its tools, which may be called in any order or not at all.  A
\* tool that fails is a text for the model, that is no step.

\* write_world_state; world_time is of no concern here.
UpdateWorld(r) ==
    /\ at[r] = "run" /\ ~row.detail
    /\ AppendRow([detail |-> TRUE])
    /\ UNCHANGED <<acts, markers, clock, wake, runner, told, history, used>>

\* The four derivations, in name spaces of their own.  A notice is one event
\* for all who are present; the others are one person's.
EventId(kind, to, fact, rid) ==
    [kind |-> kind, to |-> IF kind = "ambient" THEN 0 ELSE to, fact |-> fact, rid |-> rid]

Envelope(kind, to, fact, rid) ==
    [id |-> EventId(kind, to, fact, rid), kind |-> kind, to |-> to]

\* deliver_event: a second delivery of an id to a persona changes nothing.
DeliverEvent(env) ==
    mailed' = IF \E e \in mailed : e.id = env.id /\ e.to = env.to
                THEN mailed ELSE mailed \cup {env}

Report(kind, to, fact, rid) ==
    reports' = reports \cup {[kind |-> kind, to |-> to, fact |-> fact, rid |-> rid]}

\* notify, recipient by recipient, and sense; the text is always the same.
Tell(r, kind, to) ==
    /\ at[r] = "run"
    /\ Use("tell")
    /\ DeliverEvent(Envelope(kind, to, 0, rnd[r].rid))
    /\ Report(kind, to, 0, rnd[r].rid)
    /\ UNCHANGED <<acts, row, markers, clock, wake, runner, narrated, arc, history>>

\* npc_visit writes the visit into the narrative first and delivers it second.
VisitBegins(r) ==
    /\ at[r] = "run"
    /\ Use("tell")
    /\ AppendRow([detail |-> TRUE])
    /\ narrated' = narrated \cup {used'["tell"]}
    /\ rnd' = [rnd EXCEPT ![r].visit = used'["tell"]]
    /\ Goto(r, "deliver")
    /\ UNCHANGED <<acts, markers, clock, wake, worldLock, mailed, reports, arc, history>>

VisitDelivered(r, to) ==
    /\ at[r] = "deliver"
    /\ DeliverEvent(Envelope("speech", to, rnd[r].visit, rnd[r].rid))
    /\ Report("speech", to, rnd[r].visit, rnd[r].rid)
    /\ Goto(r, "run")
    /\ UNCHANGED <<acts, row, markers, clock, wake, worldLock, rnd, narrated, arc, history, used>>

\* The world remembers a visit its host has not heard of; the model is told.
VisitFails(r) ==
    /\ at[r] = "deliver"
    /\ Use("fail")
    /\ Goto(r, "run")
    /\ UNCHANGED <<acts, row, markers, clock, wake, worldLock, rnd, told, history>>

\* The last sleep of a round counts.
Sleep(r) ==
    /\ at[r] = "run" /\ ~rnd[r].sleeps /\ wakes < MaxWakes
    /\ rnd' = [rnd EXCEPT ![r].sleeps = TRUE]
    /\ UNCHANGED <<acts, row, markers, clock, wake, worldLock, at, told, history, used>>

\* The parts of the round's message that depend on what the day has had.
Stimulus(r) == [acts |-> rnd[r].batch, arc |-> rnd[r].arc,
                briefing |-> "materials" \in rnd[r].owed,
                roster |-> "roster" \in rnd[r].owed]

Briefed(r) == Stimulus(r).briefing
Introduced(r) == Stimulus(r).roster

Again(r, what, fresh) ==
    IF fresh \cap done[what] # {} THEN {<<what, rnd[r].day>>} ELSE {}

\* Agent.run comes back with an answer.
RunEnds(r) ==
    /\ at[r] = "run"
    /\ LET fed  == {rnd[r].day} \X Stimulus(r).acts
           days(cond) == IF cond THEN {rnd[r].day} ELSE {}
       IN /\ done' = [done EXCEPT !.act = @ \cup fed,
                                  !.briefing = @ \cup days(Briefed(r)),
                                  !.roster = @ \cup days(Introduced(r))]
          /\ twice' = twice \cup Again(r, "act", fed) \cup Again(r, "briefing", days(Briefed(r)))
                            \cup Again(r, "roster", days(Introduced(r)))
    /\ Goto(r, "persist")
    /\ UNCHANGED <<acts, row, markers, clock, wake, worldLock, rnd, told, overtaken, used>>

\* _persist_session appends the round, its marker with it.
Persist(r) ==
    /\ at[r] = "persist"
    /\ markers' = [markers EXCEPT ![rnd[r].day] =
           IF rnd[r].batch = {} THEN @
           ELSE @ \cup {[rid |-> rnd[r].rid, end |-> Latest(rnd[r].batch)]}]
    /\ Goto(r, "close")
    /\ UNCHANGED <<acts, row, clock, wake, worldLock, rnd, told, history, used>>

\* The run has happened and its record has not.
Unrecorded(r) ==
    /\ done' = IF at[r] = "persist"
                 THEN [done EXCEPT !.unrecorded = @ \cup {rnd[r].day}] ELSE done
    /\ UNCHANGED <<twice, overtaken>>

\* It is best-effort: a failure is logged.
PersistFails(r) ==
    /\ at[r] = "persist"
    /\ Use("persist")
    /\ Unrecorded(r)
    /\ Goto(r, "close")
    /\ UNCHANGED <<acts, row, markers, clock, wake, worldLock, rnd, told>>

\* record_world_round_close: cursor and marks in one version.
Close(r) ==
    /\ at[r] = "close"
    /\ AppendIfRow(
           [cursor    |-> IF rnd[r].batch # {} THEN Latest(rnd[r].batch) ELSE row.cursor,
            materials |-> IF Briefed(r) THEN rnd[r].day ELSE row.materials,
            roster    |-> IF Introduced(r) THEN rnd[r].day ELSE row.roster])
    /\ Goto(r, "fold")
    /\ UNCHANGED <<acts, markers, clock, wake, worldLock, rnd, told, history, used>>

\* extract_round_markers and the markers an earlier fold kept.
Kept(ms) == ms

\* fold_session replaces the transcript by a summary and its markers; whatever
\* goes wrong leaves it as it is.
Fold(r) ==
    /\ at[r] = "fold"
    /\ markers' = [markers EXCEPT ![rnd[r].day] = Kept(@)]
    /\ IF rnd[r].sleeps THEN Goto(r, "wake") /\ UNCHANGED <<worldLock, rnd>> ELSE Finish(r)
    /\ UNCHANGED <<acts, row, clock, wake, told, history, used>>

\* fire_self_wake: the row first, the tick with the same target second.
SetNextWake(r) ==
    /\ at[r] = "wake"
    /\ wakes' = wakes + 1
    /\ AppendIfRow([next |-> wakes'])
    /\ reached' = (reached /\ ~row.exists)
    /\ Goto(r, "emit")
    /\ UNCHANGED <<acts, markers, clock, selfTicks, worldLock, rnd, told, history, used>>

\* Wrong variant: the tick's target is derived anew.
EmitSelfAnew(r) ==
    /\ at[r] = "emit"
    /\ selfTicks' = selfTicks \cup {wakes + 1}
    /\ Finish(r)
    /\ UNCHANGED <<acts, row, markers, clock, reached, wakes, told, history, used>>

EmitSelf(r) ==
    /\ at[r] = "emit"
    /\ selfTicks' = selfTicks \cup {wakes}
    /\ Finish(r)
    /\ UNCHANGED <<acts, row, markers, clock, reached, wakes, told, history, used>>

\* Any call raises, or wait_for cancels the round before the lock runs out.
Abort(r) ==
    /\ at[r] # "idle"
    /\ Use("fail")
    /\ Finish(r)
    /\ Unrecorded(r)
    /\ UNCHANGED <<acts, row, markers, clock, wake, told>>

\* The process dies; its lock stays until the TTL.
Crash(r) ==
    /\ at[r] # "idle"
    /\ Use("crash")
    /\ Unrecorded(r)
    /\ worldLock' = Orphan
    /\ rnd' = [rnd EXCEPT ![r] = NoRound]
    /\ Goto(r, "idle")
    /\ UNCHANGED <<acts, row, markers, clock, wake, told>>

WorldLockExpires ==
    /\ worldLock = Orphan
    /\ worldLock' = Free
    /\ UNCHANGED <<acts, row, markers, clock, wake, at, rnd, told, history, used>>

--------------------------------------------------------------------------------
RoundStep(r) ==
    \/ Reflect(r) \/ MarkReflected(r)
    \/ RunEnds(r) \/ Persist(r) \/ Close(r) \/ Fold(r)
    \/ SetNextWake(r) \/ EmitSelf(r)

ToolStep(r) ==
    \/ UpdateWorld(r) \/ UpdateArc(r)
    \/ \E kind \in Kinds \ {"speech"}, to \in {1, 2} : Tell(r, kind, to)
    \/ VisitBegins(r)
    \/ \E to \in {1, 2} : VisitDelivered(r, to)
    \/ Sleep(r)

WorldNext ==
    \/ BeginAct
    \/ \E a \in Acts : CommitAct(a)
    \/ MaterialsLand
    \/ Midnight
    \/ WakeTimeComes
    \/ WorldLockExpires
    \/ \E r \in Runners :
           \/ Heartbeat(r)
           \/ \E t \in 1 .. MaxWakes : SelfTick(r, t)
           \/ RoundStep(r) \/ ToolStep(r)
           \/ ReflectFails(r) \/ VisitFails(r) \/ PersistFails(r) \/ Abort(r) \/ Crash(r)

WorldSpec == WorldInit /\ [][WorldNext]_worldVars
--------------------------------------------------------------------------------
Deliberated == {pair[2] : pair \in done.act}

\* The cursor and the marks of the row are only ever ahead of what completed
\* runs and reflections have had as input by the acts that an uncommitted
\* transaction kept from being read.
MarksAreEarned ==
    /\ 1 .. row.cursor \subseteq overtaken \cup Deliberated
    /\ row.materials # 0 => row.materials \in done.briefing
    /\ row.roster # 0 => row.roster \in done.roster
    /\ row.reflected # 0 => row.reflected \in done.reflection
    /\ row.digested # 0 => row.digested \in done.digest

\* A day has an act deliberated twice only if the record of a run was lost that
\* day, and a briefing, a roster or a reflection twice only after a failure.
InputsComeOnce ==
    /\ \A input \in twice : input[1] = "act" => input[2] \in done.unrecorded
    /\ twice # {} => \E e \in Events \ {"tell", "arc"} : used[e] > 0

\* Whatever writes a version of the row keeps the narrative, the cursor and the
\* marks the others have set.
RowIsKept ==
    [][/\ row.exists => row'.exists
       /\ row.detail => row'.detail
       /\ row'.cursor >= row.cursor
       /\ \A k \in Marks \cup {"next"} : row'[k] >= row[k]]_row

\* What a tool told the model it delivered is in the mailbox, as the kind it is,
\* and a visit is in the narrative before anybody hears of it.
ToldIsKept ==
    /\ \A p \in reports : \E e \in mailed :
           /\ e.kind = p.kind /\ e.to = p.to
           /\ e.id.fact = p.fact /\ e.id.rid = p.rid
    /\ \A e \in mailed : e.kind = "speech" => e.id.fact \in narrated

\* The world goes on from the arc its reflection left, even one that failed after
\* it wrote.
RunsOnTheNewestArc == \A r \in Runners : at[r] = "run" => Stimulus(r).arc = arc

\* What the cursor of the world covers was deliberated, an act reaches one committed
\* round only, what a round tells stays told, and a run has the arc as the last
\* reflection left it (world/engine.py, world/tools.py, world/reflection.py).
WorldCanBeTrusted == MarksAreEarned /\ InputsComeOnce /\ ToldIsKept /\ RunsOnTheNewestArc

\* A round that was woken goes on, a heartbeat comes, and time passes: the wake
\* time comes and a dead round's lock runs out.
Progress(r) == RoundStep(r) \/ Heartbeat(r) \/ WakeTimeComes \/ WorldLockExpires

\* The world catches up, again and again, with every act that can be read, though
\* a round dies after its run.
ActsAreDeliberated == []<>(committed \subseteq overtaken \cup Deliberated)
================================================================================
