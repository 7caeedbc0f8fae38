------------------------------ MODULE PersonaReview ------------------------------
(***************************************************************************)
(* The slow drift of her identity (life/persona_review.py, its cron, tool   *)
(* and diff push, persona_chain.py).                                       *)
(*                                                                         *)
(* A daily sweep reviews a persona that has no review version this week:    *)
(* the model gets the day pages written after the newest review version     *)
(* and the newest text, and rewrites it.  The owner may write versions of   *)
(* his own; they do not count as a review.                                 *)
(***************************************************************************)
EXTENDS Naturals, Sequences, FiniteSets

CONSTANTS
    Sweepers,       \* sweeps that may overlap
    Dates,          \* bound: the living days with a page
    MaxTime,        \* bound on the moments something is written
    MaxDrafts,      \* bound on versions a review writes
    PersonaLimit    \* bound on each of PersonaEvents

\* The run raises or hits its timeout; the process dies; the model writes nothing; the
\* owner writes; a sweep comes.
PersonaEvents == {"raise", "crash", "idle", "owner", "sweep"}

ASSUME PersonaAssumption ==
    /\ MaxTime \in Nat /\ PersonaLimit \in [PersonaEvents -> Nat]
    /\ {"free", "orphan"} \cap Sweepers = {}

VARIABLES
    now,            \* the moment of the last write
    monday,         \* the moment this week began
    written,        \* date -> when its newest page was written
    chain,          \* the versions of her identity
    reviewing,      \* who holds the lock
    drift,          \* the reviews under way
    late,           \* pages and owner's versions written while a review ran
    events          \* how often each of PersonaEvents happened

personaVars == <<now, monday, written, chain, reviewing, drift, late, events>>

NoDrift == [pc |-> "off", week |-> 0, pages |-> {}, base |-> {}, drafts |-> 0]

\* from: the pages and the owner's versions the text has grown from.
Version(source, from) == [source |-> source, at |-> now + 1, from |-> from]
Newest == IF chain = <<>> THEN {} ELSE chain[Len(chain)].from
Page(d) == <<"page", d, written[d]>>

PersonaTypeOK ==
    /\ now \in 0 .. MaxTime /\ monday \in 0 .. now
    /\ \A d \in Dates : written[d] \in 0 .. now
    /\ \A i \in DOMAIN chain : chain[i].source \in {"seed", "review", "owner"} /\ chain[i].at <= now
    /\ \A i \in DOMAIN chain : chain[i].source = "seed" <=> i = 1 /\ chain[1].source = "seed"
    /\ reviewing \in {"free", "orphan"} \cup Sweepers
    /\ \A s \in Sweepers : drift[s].pc \in {"off", "lock", "check", "read", "base", "run"}

PersonaInit ==
    /\ now = 0 /\ monday = 0
    /\ written = [d \in Dates |-> 0]
    /\ chain = <<>>
    /\ reviewing = "free"
    /\ drift = [s \in Sweepers |-> NoDrift]
    /\ late = {}
    /\ events = [e \in PersonaEvents |-> 0]

Event(e) == events[e] < PersonaLimit[e] /\ events' = [events EXCEPT ![e] = @ + 1]
Running == \E s \in Sweepers : drift[s].pc \in {"base", "run"}
Passes == now < MaxTime /\ now' = now + 1

\* A bedtime review writes a page of a day, or writes it again.
PageWritten ==
    /\ Passes
    /\ \E d \in Dates :
        /\ written' = [written EXCEPT ![d] = now + 1]
        /\ late' = IF Running THEN late \cup {<<"page", d, now + 1>>} ELSE late
    /\ UNCHANGED <<monday, chain, reviewing, drift, events>>

\* The owner puts a version of his own over the newest one.
OwnerWrites ==
    /\ chain # <<>> /\ Passes /\ Event("owner")
    /\ chain' = Append(chain, Version("owner", Newest \cup {<<"owner", 0, now + 1>>}))
    /\ late' = IF Running THEN late \cup {<<"owner", 0, now + 1>>} ELSE late
    /\ UNCHANGED <<monday, written, reviewing, drift>>

NextWeek ==
    /\ Passes
    /\ monday' = now + 1
    /\ UNCHANGED <<written, chain, reviewing, drift, late, events>>

--------------------------------------------------------------------------------
Sources == {"review"}

\* read_latest_review_written_at.
Cursor ==
    LET mine == {chain[i].at : i \in {j \in DOMAIN chain : chain[j].source \in Sources}}
    IN IF mine = {} THEN 0 ELSE CHOOSE t \in mine : \A u \in mine : u <= t

\* has_review_version_this_week.
ReviewedSince(week) == Cursor # 0 /\ Cursor >= week

Off(s) == drift' = [drift EXCEPT ![s] = NoDrift]
Unlocks(s) == reviewing' = "free"
To(s, pc) == drift' = [drift EXCEPT ![s].pc = pc]

\* persona_review_sweep_node.
WeeklySweep(s) ==
    /\ drift[s].pc = "off" /\ Event("sweep")
    /\ IF ReviewedSince(monday) THEN UNCHANGED drift
       ELSE drift' = [drift EXCEPT ![s] = [NoDrift EXCEPT !.pc = "lock", !.week = monday]]
    /\ UNCHANGED <<now, monday, written, chain, reviewing, late>>

LockPersona(s) ==
    /\ drift[s].pc = "lock"
    /\ IF reviewing = "free" THEN reviewing' = s /\ To(s, "check") ELSE Off(s) /\ UNCHANGED reviewing
    /\ UNCHANGED <<now, monday, written, chain, late, events>>

ReviewedMeanwhile(s) == ReviewedSince(drift[s].week)

\* Again under the lock; then seed_persona_chain, which writes on an empty chain only.
Check(s) ==
    /\ drift[s].pc = "check"
    /\ IF ReviewedMeanwhile(s)
         THEN Off(s) /\ Unlocks(s) /\ UNCHANGED <<now, chain>>
         ELSE /\ To(s, "read")
              /\ IF chain = <<>> THEN chain' = <<Version("seed", {})>> /\ Passes ELSE UNCHANGED <<now, chain>>
              /\ UNCHANGED reviewing
    /\ UNCHANGED <<monday, written, late, events>>

\* read_day_pages_written_after; without a new page there is nothing to do.
ReadPages(s) ==
    /\ drift[s].pc = "read"
    /\ LET new == {d \in Dates : written[d] > Cursor}
       IN IF new = {} THEN Off(s) /\ Unlocks(s)
          ELSE /\ drift' = [drift EXCEPT ![s].pc = "base", ![s].pages = {Page(d) : d \in new}]
               /\ UNCHANGED reviewing
    /\ UNCHANGED <<now, monday, written, chain, late, events>>

Base == Newest

ReadBase(s) ==
    /\ drift[s].pc = "base"
    /\ drift' = [drift EXCEPT ![s].pc = "run", ![s].base = Base]
    /\ UNCHANGED <<now, monday, written, chain, reviewing, late, events>>

\* update_persona, which refuses a blank text.
Update(s) ==
    /\ drift[s].pc = "run" /\ drift[s].drafts < MaxDrafts
    /\ Passes
    /\ chain' = Append(chain, Version("review", drift[s].base \cup drift[s].pages))
    /\ drift' = [drift EXCEPT ![s].drafts = @ + 1]
    /\ UNCHANGED <<monday, written, reviewing, late, events>>

\* The run is over: what landed this week counts, even if the run raised after it; the
\* diff is pushed, which may fail.
DriftEnds(s) ==
    /\ drift[s].pc = "run"
    /\ drift[s].drafts = 0 => Event("idle")
    /\ drift[s].drafts > 0 => UNCHANGED events
    /\ Off(s) /\ Unlocks(s)
    /\ UNCHANGED <<now, monday, written, chain, late>>

\* Any step raises, or all of it is cut off by the timeout: logged, the next sweep tries.
DriftFails(s) ==
    /\ drift[s].pc \notin {"off", "lock"} /\ Event("raise")
    /\ Off(s) /\ Unlocks(s)
    /\ UNCHANGED <<now, monday, written, chain, late>>

DriftDies(s) ==
    /\ drift[s].pc \notin {"off", "lock"} /\ Event("crash")
    /\ Off(s) /\ reviewing' = "orphan"
    /\ UNCHANGED <<now, monday, written, chain, late>>

PersonaLockExpires ==
    /\ reviewing = "orphan" /\ reviewing' = "free"
    /\ UNCHANGED <<now, monday, written, chain, drift, late, events>>

PersonaNext ==
    \/ PageWritten \/ OwnerWrites \/ NextWeek \/ PersonaLockExpires
    \/ \E s \in Sweepers :
        \/ WeeklySweep(s) \/ LockPersona(s) \/ Check(s) \/ ReadPages(s) \/ ReadBase(s) \/ Update(s)
        \/ DriftEnds(s) \/ DriftFails(s) \/ DriftDies(s)

PersonaSpec == PersonaInit /\ [][PersonaNext]_personaVars
--------------------------------------------------------------------------------
\* Every page the cursor has left behind went into her identity, unless it was written
\* while a review was running, whatever the owner wrote and whichever reviews failed.
PagesAreDigested ==
    \A d \in Dates : written[d] # 0 /\ written[d] <= Cursor => Page(d) \in Newest \cup late

\* A version of the owner is in every later text, unless it came while a review was
\* running, which then wrote over it.
OwnersWordStays ==
    \A i \in DOMAIN chain :
        chain[i].source = "owner" => <<"owner", 0, chain[i].at>> \in Newest \cup late

\* Two reviews never write in the same week: review versions of one week with another
\* between them come from one run.
OneReviewAWeek ==
    \A s \in Sweepers : drift[s].pc \in {"read", "base", "run"} /\ drift[s].drafts = 0 =>
        ~\E i \in DOMAIN chain : chain[i].source = "review" /\ chain[i].at >= drift[s].week
================================================================================
