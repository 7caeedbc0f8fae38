-------------------------------- MODULE DayReview --------------------------------
(***************************************************************************)
(* The bedtime review (life/review.py, review_cron.py, pages.py,            *)
(* living_day.py, domain/jotting.py, life_state.py and the end of a round   *)
(* in life_wake.py).                                                       *)
(*                                                                         *)
(* A round in which she falls asleep reviews the living day; the sweeps of  *)
(* the next morning review the day before if it has no page.  A review      *)
(* reads the jottings behind the watermark, lets the model write the page,  *)
(* moves the watermark if a version was written, and marks the day in her   *)
(* state.  One review per day at a time; reviews of two days may overlap.   *)
(***************************************************************************)
EXTENDS Naturals, FiniteSets

CONSTANTS
    MaxLiving,      \* bound on living days
    Sweeps,         \* sweeps of a morning
    MaxRounds,      \* bound on her rounds
    MaxJots,        \* bound on jottings
    MaxWrites,      \* bound on versions a review writes
    DayLimit        \* bound on each of DayEvents

\* A round fails; a review fails or times out; its process dies; it writes nothing; the
\* watermark cannot be moved.
DayEvents == {"round", "review", "crash", "idle", "turn"}

LivingDays == 1 .. MaxLiving
Shifts == {"sleep", "sweep"}
Unset == 0

ASSUME DayAssumption ==
    /\ MaxLiving \in Nat \ {0} /\ Sweeps \in Nat \ {0}
    /\ MaxRounds \in Nat /\ MaxJots \in Nat /\ MaxWrites \in Nat
    /\ DayLimit \in [DayEvents -> Nat]

VARIABLES
    living,         \* the living day
    swept,          \* sweeps of this morning that are over
    rounds,         \* her rounds so far
    life,           \* the round under way
    state,          \* her newest state: which update it shows, asleep, day_reviewed_date
    updates,        \* updates of her state so far
    born,           \* the day of the first of them
    lived,          \* days that left something to review
    jots,           \* jottings so far
    watermark,      \* up to which jotting they are absorbed, and its version
    turned,         \* the farthest cursor ever turned to
    pages,          \* day -> version of its page and the jottings that went into it
    lock,           \* day -> who holds the review's lock
    shift,          \* the reviews under way
    dayFaults       \* how often each of DayEvents happened

dayVars == <<living, swept, rounds, life, state, updates, born, lived, jots, watermark,
             turned, pages, lock, shift, dayFaults>>

lifeVars == <<rounds, life, updates, born, lived, jots>>

NoLifeRound == [pc |-> "off", day |-> Unset, asleep |-> FALSE, read |-> Unset]
NoShift == [pc |-> "off", day |-> Unset, floor |-> Unset, cursor |-> Unset, old |-> Unset,
            writes |-> 0, ver |-> 0, read |-> [shows |-> Unset, asleep |-> FALSE, marked |-> Unset]]

DayTypeOK ==
    /\ living \in LivingDays /\ swept \in 0 .. Sweeps
    /\ life.pc \in {"off", "run", "save", "review"}
    /\ state.shows \in 0 .. updates /\ state.marked \in {Unset} \cup LivingDays
    /\ watermark.at \in 0 .. jots
    /\ \A d \in LivingDays : pages[d].from \subseteq 1 .. jots
    /\ \A d \in LivingDays : lock[d] \in {"free", "orphan"} \cup Shifts
    /\ \A s \in Shifts : shift[s].pc \in {"off", "lock", "check", "run", "turn", "cas", "mark", "row"}
    /\ life.pc = "review" <=> shift["sleep"].pc # "off"

DayInit ==
    /\ living = 1 /\ swept = 0
    /\ rounds = 0 /\ life = NoLifeRound
    /\ state = [shows |-> Unset, asleep |-> FALSE, marked |-> Unset] /\ updates = 0 /\ born = Unset
    /\ lived = {} /\ jots = 0
    /\ watermark = [at |-> 0, ver |-> 0] /\ turned = 0
    /\ pages = [d \in LivingDays |-> [ver |-> 0, from |-> {}]]
    /\ lock = [d \in LivingDays |-> "free"]
    /\ shift = [s \in Shifts |-> NoShift]
    /\ dayFaults = [e \in DayEvents |-> 0]

Fault(e) == dayFaults[e] < DayLimit[e] /\ dayFaults' = [dayFaults EXCEPT ![e] = @ + 1]
HasPage(d) == pages[d].ver > 0

\* The next living day begins at four; the sweeps of the last one are over.
NextDay ==
    /\ living < MaxLiving
    /\ living = 1 \/ (swept = Sweeps /\ shift["sweep"].pc = "off")
    /\ living' = living + 1 /\ swept' = 0
    /\ UNCHANGED <<lifeVars, state, watermark, turned, pages, lock, shift, dayFaults>>

--------------------------------------------------------------------------------
\* A round begins: living_day(now), and whether the state she had was sleep.
StartRound ==
    /\ life.pc = "off" /\ rounds < MaxRounds
    /\ rounds' = rounds + 1
    /\ life' = [NoLifeRound EXCEPT !.pc = "run", !.day = living, !.asleep = state.asleep]
    /\ UNCHANGED <<living, swept, state, updates, born, lived, jots, watermark, turned, pages, lock,
                   shift, dayFaults>>

\* jot_down.
Jot ==
    /\ life.pc = "run" /\ jots < MaxJots
    /\ jots' = jots + 1
    /\ UNCHANGED <<living, swept, rounds, life, state, updates, born, lived, watermark, turned, pages, lock,
                   shift, dayFaults>>

\* save_life_state reads the mark of the newest state ...
SaveReads ==
    /\ life.pc = "run" /\ updates < MaxRounds
    /\ life' = [life EXCEPT !.pc = "save", !.read = state.marked]
    /\ UNCHANGED <<living, swept, rounds, state, updates, born, lived, jots, watermark, turned, pages, lock,
                   shift, dayFaults>>

\* ... and appends the new one with it.
SaveWrites ==
    /\ life.pc = "save"
    /\ updates' = updates + 1
    /\ born' = IF updates = 0 THEN life.day ELSE born
    /\ \E asleep \in BOOLEAN :
        state' = [shows |-> updates + 1, asleep |-> asleep, marked |-> life.read]
    /\ life' = [life EXCEPT !.pc = "run"]
    /\ UNCHANGED <<living, swept, rounds, lived, jots, watermark, turned, pages, lock, shift, dayFaults>>

\* The round is over; it goes on with the review if she fell asleep in it.
EndRound ==
    /\ life.pc = "run"
    /\ lived' = lived \cup {life.day}
    /\ IF state.asleep /\ ~life.asleep
         THEN /\ life' = [life EXCEPT !.pc = "review"]
              /\ shift' = [shift EXCEPT !["sleep"] = [NoShift EXCEPT !.pc = "lock", !.day = life.day]]
         ELSE life' = NoLifeRound /\ UNCHANGED shift
    /\ UNCHANGED <<living, swept, rounds, state, updates, born, jots, watermark, turned, pages, lock, dayFaults>>

RoundFails ==
    /\ life.pc \in {"run", "save"} /\ Fault("round")
    /\ life' = NoLifeRound
    /\ UNCHANGED <<living, swept, rounds, state, updates, born, lived, jots, watermark, turned, pages, lock, shift>>

--------------------------------------------------------------------------------
\* The review s is over; it frees its lock.
Leaves(s) ==
    /\ shift' = [shift EXCEPT ![s] = NoShift]
    /\ life' = IF s = "sleep" THEN NoLifeRound ELSE life
    /\ swept' = IF s = "sweep" THEN swept + 1 ELSE swept

Frees(s) == lock' = [d \in LivingDays |-> IF lock[d] = s THEN "free" ELSE lock[d]]

Moves(s, pc) == shift' = [shift EXCEPT ![s].pc = pc] /\ UNCHANGED <<life, swept>>

\* day_page_exists.
Done(d) == HasPage(d)

\* day_review_sweep_node, for the day before; nothing for one who never lived.  When the
\* first sweep comes, an hour after four, a round from the day before is over, at the
\* next one also its review.
MorningSweep ==
    /\ life.pc \in {"run", "save"} \/ (life.pc = "review" /\ swept > 0) => life.day = living
    /\ living > 1 /\ swept < Sweeps /\ shift["sweep"].pc = "off"
    /\ IF state.shows = Unset \/ Done(living - 1)
         THEN swept' = swept + 1 /\ UNCHANGED shift
         ELSE /\ shift' = [shift EXCEPT !["sweep"] = [NoShift EXCEPT !.pc = "lock", !.day = living - 1]]
              /\ UNCHANGED swept
    /\ UNCHANGED <<lifeVars, living, state, watermark, turned, pages, lock, dayFaults>>

\* single_flight: the other one is at it, or it is ours.
LockDay(s) ==
    /\ shift[s].pc = "lock"
    /\ IF lock[shift[s].day] # "free"
         THEN Leaves(s) /\ UNCHANGED lock
         ELSE Moves(s, "check") /\ lock' = [lock EXCEPT ![shift[s].day] = s]
    /\ UNCHANGED <<living, rounds, state, updates, born, lived, jots, watermark, turned, pages, dayFaults>>

\* Wrong variant: what the sweep saw before it had the lock is good enough.
TrustsPrecheck(s) == FALSE

\* A sweep looks again under the lock.
Superseded(s) == s = "sweep" /\ HasPage(shift[s].day)

Evidence(d) == lived \cap {d, d + 1} # {}

\* The evidence: the jottings behind the watermark and the page as it is.
Gather(s) ==
    /\ shift[s].pc = "check"
    /\ IF Superseded(s) \/ ~Evidence(shift[s].day)
         THEN Leaves(s) /\ Frees(s)
         ELSE /\ shift' = [shift EXCEPT ![s].pc = "run", ![s].floor = watermark.at,
                                        ![s].cursor = IF jots > watermark.at THEN jots ELSE Unset,
                                        ![s].old = pages[shift[s].day].ver]
              /\ UNCHANGED <<life, swept, lock>>
    /\ UNCHANGED <<living, rounds, state, updates, born, lived, jots, watermark, turned, pages, dayFaults>>

\* update_day_page: the whole page again, from the window and the page there was.
WritePage(s) ==
    /\ shift[s].pc = "run" /\ shift[s].writes < MaxWrites
    /\ pages' = [pages EXCEPT ![shift[s].day] =
                    [ver |-> @.ver + 1, from |-> @.from \cup (shift[s].floor + 1 .. shift[s].cursor)]]
    /\ shift' = [shift EXCEPT ![s].writes = @ + 1]
    /\ UNCHANGED <<lifeVars, living, swept, state, watermark, turned, lock, dayFaults>>

\* A version newer than the one that was read.
Wrote(s) == pages[shift[s].day].ver > shift[s].old

\* The run returns; without a page the review has failed, without a new version the
\* watermark stays.
ReviewEnds(s) ==
    /\ shift[s].pc = "run"
    /\ IF shift[s].writes = 0 THEN Fault("idle") ELSE UNCHANGED dayFaults
    /\ IF ~HasPage(shift[s].day)
         THEN Leaves(s) /\ Frees(s)
         ELSE Moves(s, IF Wrote(s) /\ shift[s].cursor # Unset THEN "turn" ELSE "mark") /\ UNCHANGED lock
    /\ UNCHANGED <<living, rounds, state, updates, born, lived, jots, watermark, turned, pages>>

\* turn_jotting_page: never back ...
TurnReads(s) ==
    /\ shift[s].pc = "turn"
    /\ IF shift[s].cursor <= watermark.at THEN Moves(s, "mark")
       ELSE shift' = [shift EXCEPT ![s].pc = "cas", ![s].ver = watermark.ver] /\ UNCHANGED <<life, swept>>
    /\ UNCHANGED <<living, rounds, state, updates, born, lived, jots, watermark, turned, pages, lock, dayFaults>>

Unmoved(s) == watermark.ver = shift[s].ver

\* ... and only on the version that was read.
TurnWrites(s) ==
    /\ shift[s].pc = "cas"
    /\ IF Unmoved(s)
         THEN /\ watermark' = [at |-> shift[s].cursor, ver |-> watermark.ver + 1]
              /\ turned' = IF shift[s].cursor > turned THEN shift[s].cursor ELSE turned
              /\ Moves(s, "mark")
         ELSE Moves(s, "turn") /\ UNCHANGED <<watermark, turned>>
    /\ UNCHANGED <<living, rounds, state, updates, born, lived, jots, pages, lock, dayFaults>>

\* The watermark cannot be moved: logged, the rest goes on.
TurnFails(s) ==
    /\ shift[s].pc \in {"turn", "cas"} /\ Fault("turn")
    /\ Moves(s, "mark")
    /\ UNCHANGED <<living, rounds, state, updates, born, lived, jots, watermark, turned, pages, lock>>

\* mark_day_reviewed reads her newest state ...
MarkReads(s) ==
    /\ shift[s].pc = "mark"
    /\ shift' = [shift EXCEPT ![s].pc = "row", ![s].read = state]
    /\ UNCHANGED <<lifeVars, living, swept, state, watermark, turned, pages, lock, dayFaults>>

\* ... and appends it again with the mark.
MarkWrites(s) ==
    /\ shift[s].pc = "row"
    /\ state' = [shift[s].read EXCEPT !.marked = shift[s].day]
    /\ Leaves(s) /\ Frees(s)
    /\ UNCHANGED <<living, rounds, updates, born, lived, jots, watermark, turned, pages, dayFaults>>

Working(s) == shift[s].pc \notin {"off", "lock"}

\* The model, the tools or the database fail, or the review hits its timeout: logged.
ReviewFails(s) ==
    /\ Working(s) /\ Fault("review")
    /\ Leaves(s) /\ Frees(s)
    /\ UNCHANGED <<living, rounds, state, updates, born, lived, jots, watermark, turned, pages>>

\* The process dies with the lock.
ReviewDies(s) ==
    /\ Working(s) /\ Fault("crash")
    /\ Leaves(s)
    /\ lock' = [lock EXCEPT ![shift[s].day] = "orphan"]
    /\ UNCHANGED <<living, rounds, state, updates, born, lived, jots, watermark, turned, pages>>

DayLockExpires ==
    /\ \E d \in LivingDays : lock[d] = "orphan" /\ lock' = [lock EXCEPT ![d] = "free"]
    /\ UNCHANGED <<lifeVars, living, swept, state, watermark, turned, pages, shift, dayFaults>>

Review(s) ==
    \/ LockDay(s) \/ Gather(s) \/ WritePage(s) \/ ReviewEnds(s) \/ TurnReads(s) \/ TurnWrites(s)
    \/ TurnFails(s) \/ MarkReads(s) \/ MarkWrites(s) \/ ReviewFails(s) \/ ReviewDies(s)

DayNext ==
    \/ NextDay \/ StartRound \/ Jot \/ SaveReads \/ SaveWrites \/ EndRound \/ RoundFails
    \/ MorningSweep \/ DayLockExpires \/ \E s \in Shifts : Review(s)

DaySpec == DayInit /\ [][DayNext]_dayVars
--------------------------------------------------------------------------------
\* Whatever overlaps, fails or writes nothing: every jotting behind the watermark went
\* into the page of some day, and the watermark never goes back.
JottingsAreAbsorbed ==
    /\ 1 .. watermark.at \subseteq UNION {pages[d].from : d \in LivingDays}
    /\ watermark.at = turned

\* A sweep writes the first version of a page, never over one that a review at bedtime
\* has written; one review of a day runs at a time.
SweepsFillGapsOnly ==
    /\ shift["sweep"].pc \notin {"off", "lock", "check"} => shift["sweep"].old = 0
    /\ Working("sweep") /\ Working("sleep") => shift["sweep"].day # shift["sleep"].day

\* When the sweeps of a morning are over, the day before has a page if there was something
\* to write about, or its review is under way: a sweep makes up for every review that
\* failed or wrote nothing, as long as there is one more of them.
EveryDayGetsItsPage ==
    dayFaults["crash"] = 0 /\ dayFaults["review"] + dayFaults["idle"] < Sweeps =>
        \A d \in lived :
            /\ born # Unset /\ d >= born
            /\ d < living - 1 \/ (d = living - 1 /\ swept = Sweeps)
            => HasPage(d) \/ \E s \in Shifts : Working(s) /\ shift[s].day = d
================================================================================
