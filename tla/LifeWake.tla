------------------------------- MODULE LifeWake --------------------------------
(***************************************************************************)
(* The mailbox of one persona and the rounds that read it, over one day,   *)
(* that is one session transcript (data/queries/mailbox.py,                *)
(* nodes/life_wake.py, agent/session.py, agent/session_fold.py,            *)
(* runtime/single_flight.py).                                              *)
(*                                                                         *)
(* The knock is an EventArrived on the debounced edge of module Debounce;  *)
(* knocked says that a fire of it is on its way.  What the model writes is *)
(* left out: a round is the batch it reads, which is also what its id is   *)
(* derived from.  Events are numbered in the order they occurred, which    *)
(* need not be the order they are delivered in.                            *)
(***************************************************************************)
EXTENDS Naturals, FiniteSets

CONSTANTS
    Events,    \* events the mailbox may get
    Passive,   \* those of a kind in PASSIVE_EVENT_KINDS
    Runners,   \* handler slots that may run life_wake_node
    None,      \* nobody holds the lock
    InboxMax,  \* _LIFE_INBOX_MAX
    MaxChats,  \* bound: chat messages of the day
    Limit      \* bound on each kind of failure

\* A database or Redis call, the model, a process, a connection, a knock, a
\* lock whose TTL runs out under a live round, a transcript past its hard cap.
Faults == {"call", "model", "crash", "loss", "knock", "expiry", "cap"}

ASSUME ConstantsAssumption ==
    /\ Events \subseteq Nat
    /\ Passive \subseteq Events
    /\ None \notin Runners
    /\ InboxMax \in Nat \ {0}
    /\ MaxChats \in Nat
    /\ Limit \in [Faults -> Nat]

VARIABLES
    envelopes,   \* the EventEnvelope rows
    read,        \* the EventRead rows
    knocking,    \* delivered events whose EventArrived is still to be emitted
    knocked,     \* a fire of the debounced edge is on its way
    chats,       \* how many chat messages there are
    watermark,   \* LifeState.observed_at: the newest chat message it covers
    aged,        \* the newest chat message past _RECENT_CHAT_MIN_LOOKBACK_MS
    lock,        \* the single-flight key, held by a token
    cd,          \* the cooldown key
    transcript,  \* the round markers in the session's newest version
    ver,         \* the number of that version
    pc,          \* where each runner is
    round,       \* the batch each runner has read
    now,         \* the newest chat message when it did
    copy,        \* the transcript it loaded to write back
    todo,        \* the events it still has to mark read
    overrun,     \* history: runners whose lock expired under them
    shown,       \* history: how many completed runs have had an event as input
    spent        \* how many failures of each kind have happened

mailbox == <<envelopes, read, knocking>>
chat    == <<chats, watermark, aged>>
redis   == <<lock, cd>>
session == <<transcript, ver>>
runner  == <<pc, round, now, copy, todo>>
vars    == <<mailbox, knocked, chat, redis, session, runner, overrun, shown, spent>>

Round == [events : SUBSET Events, chats : SUBSET (1 .. MaxChats)]

\* A stored version: its markers and its number.
Version == [markers : SUBSET Round, ver : Nat]

\* Where life_wake_node is.
PCs == {"idle", "lock", "cd", "inbox", "history", "run", "load", "append",
        "mark", "fold", "foldStore", "cool", "giveBack", "release"}

TypeOK ==
    /\ envelopes \subseteq Events
    /\ read \subseteq Events
    /\ knocking \subseteq Events
    /\ knocked \in BOOLEAN
    /\ chats \in 0 .. MaxChats
    /\ watermark \in 0 .. MaxChats
    /\ aged \in 0 .. MaxChats
    /\ lock \in Runners \cup {None}
    /\ cd \in BOOLEAN
    /\ transcript \subseteq Round
    /\ ver \in Nat
    /\ pc \in [Runners -> PCs]
    /\ round \in [Runners -> Round]
    /\ now \in [Runners -> 0 .. MaxChats]
    /\ copy \in [Runners -> Version]
    /\ todo \in [Runners -> SUBSET Events]
    /\ overrun \subseteq Runners
    /\ shown \in [Events -> Nat]
    /\ spent \in [Faults -> Nat]

NoRound   == [events |-> {}, chats |-> {}]
NoVersion == [markers |-> {}, ver |-> 0]

--------------------------------------------------------------------------------
Init ==
    /\ envelopes = {} /\ read = {} /\ knocking = {}
    /\ knocked = FALSE
    /\ chats = 0 /\ watermark = 0 /\ aged = 0
    /\ lock = None /\ cd = FALSE
    /\ transcript = {} /\ ver = 0
    /\ pc = [r \in Runners |-> "idle"]
    /\ round = [r \in Runners |-> NoRound]
    /\ now = [r \in Runners |-> 0]
    /\ copy = [r \in Runners |-> NoVersion]
    /\ todo = [r \in Runners |-> {}]
    /\ overrun = {}
    /\ shown = [e \in Events |-> 0]
    /\ spent = [f \in Faults |-> 0]

Spend(f) == spent[f] < Limit[f] /\ spent' = [spent EXCEPT ![f] = @ + 1]

Goto(r, step) == pc' = [pc EXCEPT ![r] = step]

InRound(r) == pc[r] \notin {"idle", "lock"}

Unread == envelopes \ read

\* The n that occurred first.
Oldest(n, S) == {e \in S : Cardinality({f \in S : f < e}) < n}

--------------------------------------------------------------------------------
\* deliver_event inserts, and emits EventArrived for a new event of an active
\* kind; the two are not atomic.  A second delivery changes nothing.
Deliver(e) ==
    /\ e \notin envelopes
    /\ envelopes' = envelopes \cup {e}
    /\ knocking' = IF e \in Passive THEN knocking ELSE knocking \cup {e}
    /\ UNCHANGED <<read, knocked, chat, redis, session, runner, overrun, shown, spent>>

Knock(e) ==
    /\ e \in knocking
    /\ knocking' = knocking \ {e}
    /\ knocked' = TRUE
    /\ UNCHANGED <<envelopes, read, chat, redis, session, runner, overrun, shown, spent>>

\* The emit raises, or the process dies before it.
KnockFails(e) ==
    /\ e \in knocking
    /\ Spend("knock")
    /\ knocking' = knocking \ {e}
    /\ UNCHANGED <<envelopes, read, knocked, chat, redis, session, runner, overrun, shown>>

\* What the debounced edge may do to a fire: a publish that fails after the
\* trigger was made the only valid one.
KnockLost ==
    /\ knocked
    /\ Spend("knock")
    /\ knocked' = FALSE
    /\ UNCHANGED <<mailbox, chat, redis, session, runner, overrun, shown>>

\* Wrong variant: surroundings count as unread here too.
RenotifyAll ==
    /\ Unread # {}
    /\ knocked' = TRUE
    /\ UNCHANGED <<mailbox, chat, redis, session, runner, overrun, shown, spent>>

\* renotify_unread, at the head of every world tick.
Renotify ==
    /\ Unread \ Passive # {}
    /\ knocked' = TRUE
    /\ UNCHANGED <<mailbox, chat, redis, session, runner, overrun, shown, spent>>

ChatArrives ==
    /\ chats < MaxChats
    /\ chats' = chats + 1
    /\ UNCHANGED <<mailbox, knocked, watermark, aged, redis, session, runner, overrun, shown, spent>>

ChatAges ==
    /\ aged < chats
    /\ aged' = aged + 1
    /\ UNCHANGED <<mailbox, knocked, chats, watermark, redis, session, runner, overrun, shown, spent>>

--------------------------------------------------------------------------------
\* What _recent_chat_since_ms lets through: past the watermark, or recent.
RecentChats == {c \in 1 .. chats : c > watermark \/ c > aged}

Start(r) ==
    /\ pc[r] = "idle"
    /\ knocked
    /\ knocked' = FALSE
    /\ Goto(r, "lock")
    /\ UNCHANGED <<mailbox, chat, redis, session, round, now, copy, todo, overrun, shown, spent>>

\* Wrong variant: SET without NX.
LockAlways(r) ==
    /\ pc[r] = "lock"
    /\ lock' = r
    /\ Goto(r, "cd")
    /\ UNCHANGED <<mailbox, knocked, chat, cd, session, round, now, copy, todo, overrun, shown, spent>>

\* single_flight's SET NX; a conflict gives the fire back to the edge.
Lock(r) ==
    /\ pc[r] = "lock"
    /\ \/ lock = None /\ lock' = r /\ Goto(r, "cd") /\ UNCHANGED knocked
       \/ lock # None /\ Goto(r, "idle") /\ knocked' = TRUE /\ UNCHANGED lock
    /\ UNCHANGED <<mailbox, chat, cd, session, round, now, copy, todo, overrun, shown, spent>>

CheckCd(r) ==
    /\ pc[r] = "cd"
    /\ Goto(r, IF cd THEN "giveBack" ELSE "inbox")
    /\ UNCHANGED <<mailbox, knocked, chat, redis, session, round, now, copy, todo, overrun, shown, spent>>

\* The oldest unread events and the recent chats; the chat query may fail and is
\* then taken as empty.
ReadInbox(r) ==
    /\ pc[r] = "inbox"
    /\ \E heard \in {RecentChats, {}} :
          /\ round' = [round EXCEPT ![r] =
                          [events |-> Oldest(InboxMax, Unread), chats |-> heard]]
          /\ IF heard = RecentChats THEN UNCHANGED spent ELSE Spend("call")
    /\ now' = [now EXCEPT ![r] = chats]
    /\ Goto(r, IF round'[r] = NoRound THEN "release" ELSE "history")
    /\ UNCHANGED <<mailbox, knocked, chat, redis, session, copy, todo, overrun, shown>>

\* Wrong variant: nobody looks for the marker.
IgnoreHistory(r) ==
    /\ pc[r] = "history"
    /\ Goto(r, "run")
    /\ UNCHANGED <<mailbox, knocked, chat, redis, session, round, now, copy, todo, overrun, shown, spent>>

\* _round_already_processed: the same batch is not run twice.
CheckHistory(r) ==
    /\ pc[r] = "history"
    /\ Goto(r, IF round[r] \in transcript THEN "release" ELSE "run")
    /\ UNCHANGED <<mailbox, knocked, chat, redis, session, round, now, copy, todo, overrun, shown, spent>>

\* Wrong variant: the watermark is put one message past the last one heard.
RunSkipsAhead(r) ==
    /\ pc[r] = "run"
    /\ watermark' \in {watermark, now[r] + 1}
    /\ shown' = [e \in Events |-> IF e \in round[r].events THEN shown[e] + 1 ELSE shown[e]]
    /\ todo' = [todo EXCEPT ![r] = round[r].events]
    /\ Goto(r, "load")
    /\ UNCHANGED <<mailbox, knocked, chats, aged, redis, session, round, now, copy, overrun, spent>>

\* Agent.run comes back.  The model may have called update_life_state, which
\* moves the watermark to the time of this round.
Run(r) ==
    /\ pc[r] = "run"
    /\ watermark' \in {watermark, now[r]}
    /\ shown' = [e \in Events |-> IF e \in round[r].events THEN shown[e] + 1 ELSE shown[e]]
    /\ todo' = [todo EXCEPT ![r] = round[r].events]
    /\ Goto(r, "load")
    /\ UNCHANGED <<mailbox, knocked, chats, aged, redis, session, round, now, copy, overrun, spent>>

\* It raises, perhaps after a tool has run: the round is not closed.
RunFails(r) ==
    /\ pc[r] = "run"
    /\ Spend("model")
    /\ watermark' \in {watermark, now[r]}
    /\ Goto(r, "release")
    /\ UNCHANGED <<mailbox, knocked, chats, aged, redis, session, round, now, copy, todo, overrun, shown>>

\* append_session reads the transcript and writes it back with this round.
LoadSession(r) ==
    /\ pc[r] = "load"
    /\ copy' = [copy EXCEPT ![r] = [markers |-> transcript, ver |-> ver]]
    /\ Goto(r, "append")
    /\ UNCHANGED <<mailbox, knocked, chat, redis, session, round, now, todo, overrun, shown, spent>>

\* Past the hard cap the oldest messages are dropped, markers and all.
AppendSession(r) ==
    /\ pc[r] = "append"
    /\ \E kept \in SUBSET copy[r].markers :
          /\ transcript' = kept \cup {round[r]}
          /\ IF kept = copy[r].markers THEN UNCHANGED spent ELSE Spend("cap")
    /\ ver' = ver + 1
    /\ Goto(r, "mark")
    /\ UNCHANGED <<mailbox, knocked, chat, redis, round, now, copy, todo, overrun, shown>>

\* _persist_session swallows a failure of either half.
PersistFails(r) ==
    /\ pc[r] \in {"load", "append"}
    /\ Spend("call")
    /\ Goto(r, "mark")
    /\ UNCHANGED <<mailbox, knocked, chat, redis, session, round, now, copy, todo, overrun, shown>>

\* Wrong variant: everything unread is marked, read or not in this round.
MarkAllRead(r) ==
    /\ pc[r] = "mark"
    /\ read' = read \cup envelopes
    /\ Goto(r, "fold")
    /\ UNCHANGED <<envelopes, knocking, knocked, chat, redis, session, round, now, copy, todo, overrun, shown, spent>>

\* mark_events_read: one insert, and one transaction, per event.
MarkRead(r) ==
    /\ pc[r] = "mark"
    /\ IF todo[r] = {} THEN Goto(r, "fold") /\ UNCHANGED <<read, todo>>
       ELSE \E e \in Oldest(1, todo[r]) :
               /\ read' = read \cup {e}
               /\ todo' = [todo EXCEPT ![r] = @ \ {e}]
               /\ UNCHANGED pc
    /\ UNCHANGED <<envelopes, knocking, knocked, chat, redis, session, round, now, copy, overrun, shown, spent>>

\* fold_session loads the transcript, if it has reached the threshold, and ...
Fold(r) ==
    /\ pc[r] = "fold"
    /\ \/ Goto(r, "cool") /\ UNCHANGED copy
       \/ /\ Goto(r, "foldStore")
          /\ copy' = [copy EXCEPT ![r] = [markers |-> transcript, ver |-> ver]]
    /\ UNCHANGED <<mailbox, knocked, chat, redis, session, round, now, todo, overrun, shown, spent>>

\* Wrong variant: the fold overwrites whatever is there.
FoldOverwrites(r) ==
    /\ pc[r] = "foldStore"
    /\ transcript' = copy[r].markers /\ ver' = ver + 1
    /\ Goto(r, "cool")
    /\ UNCHANGED <<mailbox, knocked, chat, redis, round, now, copy, todo, overrun, shown, spent>>

\* ... replaces it, markers kept, unless a newer version is there; it may fail.
FoldStore(r) ==
    /\ pc[r] = "foldStore"
    /\ \/ ver = copy[r].ver /\ transcript' = copy[r].markers /\ ver' = ver + 1
       \/ UNCHANGED session
    /\ Goto(r, "cool")
    /\ UNCHANGED <<mailbox, knocked, chat, redis, round, now, copy, todo, overrun, shown, spent>>

SetCd(r) ==
    /\ pc[r] = "cool"
    /\ cd' = TRUE
    /\ Goto(r, "release")
    /\ UNCHANGED <<mailbox, knocked, chat, lock, session, round, now, copy, todo, overrun, shown, spent>>

Done(r) ==
    /\ Goto(r, "idle")
    /\ round' = [round EXCEPT ![r] = NoRound]
    /\ now' = [now EXCEPT ![r] = 0]
    /\ copy' = [copy EXCEPT ![r] = NoVersion]
    /\ todo' = [todo EXCEPT ![r] = {}]
    /\ overrun' = overrun \ {r}

\* Wrong variant: DEL without looking at the token.
ReleaseAny(r) ==
    /\ pc[r] \in {"release", "giveBack"}
    /\ lock' = None
    /\ knocked' = (knocked \/ pc[r] = "giveBack")
    /\ Done(r)
    /\ UNCHANGED <<mailbox, chat, cd, session, shown, spent>>

\* The finally of single_flight deletes the key if it still holds our token;
\* DebounceReschedule then gives the fire back.
Release(r) ==
    /\ pc[r] \in {"release", "giveBack"}
    /\ lock' = IF lock = r THEN None ELSE lock
    /\ knocked' = (knocked \/ pc[r] = "giveBack")
    /\ Done(r)
    /\ UNCHANGED <<mailbox, chat, cd, session, shown, spent>>

--------------------------------------------------------------------------------
\* A call raises before it took effect: out through the finally, to the DLQ.
\* Before the lock is taken, and in the finally itself, there is nothing left to
\* do: a key that was set stays until its TTL.
CallFails(r) ==
    /\ pc[r] \in {"lock", "cd", "inbox", "history", "mark", "cool", "release", "giveBack"}
    /\ Spend("call")
    /\ IF pc[r] \in {"lock", "release", "giveBack"}
       THEN Done(r)
       ELSE Goto(r, "release") /\ UNCHANGED <<round, now, copy, todo, overrun>>
    /\ UNCHANGED <<mailbox, knocked, chat, redis, session, shown>>

\* The worker dies; its message is delivered again and fires again unless a
\* newer trigger has taken its place.
Crash(r) ==
    /\ pc[r] # "idle"
    /\ Spend("crash")
    /\ knocked' \in {knocked, TRUE}
    /\ Done(r)
    /\ UNCHANGED <<mailbox, chat, redis, session, shown>>

\* The connection drops: the message is delivered again while the round goes on.
ConnectionLoss(r) ==
    /\ pc[r] # "idle"
    /\ Spend("loss")
    /\ knocked' = TRUE
    /\ UNCHANGED <<mailbox, chat, redis, session, runner, overrun, shown>>

\* The TTL of a lock whose holder died, or of one under a round that takes
\* longer than _LIFE_WAKE_LOCK_TTL_SECONDS.
OrphanExpires ==
    /\ lock # None
    /\ ~InRound(lock)
    /\ lock' = None
    /\ UNCHANGED <<mailbox, knocked, chat, cd, session, runner, overrun, shown, spent>>

LockExpires ==
    /\ lock # None
    /\ InRound(lock)
    /\ Spend("expiry")
    /\ overrun' = overrun \cup {lock}
    /\ lock' = None
    /\ UNCHANGED <<mailbox, knocked, chat, cd, session, runner, shown>>

CdExpires ==
    /\ cd
    /\ cd' = FALSE
    /\ UNCHANGED <<mailbox, knocked, chat, lock, session, runner, overrun, shown, spent>>

--------------------------------------------------------------------------------
RunnerStep(r) ==
    \/ Start(r)
    \/ Lock(r)
    \/ CheckCd(r)
    \/ ReadInbox(r)
    \/ CheckHistory(r)
    \/ Run(r)
    \/ LoadSession(r)
    \/ AppendSession(r)
    \/ MarkRead(r)
    \/ Fold(r)
    \/ FoldStore(r)
    \/ SetCd(r)
    \/ Release(r)

RunnerFails(r) ==
    \/ RunFails(r)
    \/ PersistFails(r)
    \/ CallFails(r)
    \/ Crash(r)
    \/ ConnectionLoss(r)

Next ==
    \/ \E e \in Events : Deliver(e) \/ Knock(e) \/ KnockFails(e)
    \/ KnockLost
    \/ Renotify
    \/ ChatArrives
    \/ ChatAges
    \/ \E r \in Runners : RunnerStep(r) \/ RunnerFails(r)
    \/ OrphanExpires
    \/ LockExpires
    \/ CdExpires

Spec == Init /\ [][Next]_vars

\* The event loop runs every ready coroutine and the model answers or raises,
\* the world's heartbeat ticks on, and Redis keys expire.
FairSpec ==
    /\ Spec
    /\ \A r \in Runners : WF_vars(RunnerStep(r))
    /\ WF_vars(Renotify)
    /\ WF_vars(OrphanExpires)
    /\ WF_vars(CdExpires)

--------------------------------------------------------------------------------
\* An event is marked read only after a completed run had it as input: what
\* arrived while the model was thinking stays unread (life_wake.py: only the
\* batch that was read, never all of the persona).  Holds even between rounds
\* that overlap because a lock expired.
ReadWasShown == \A e \in read : shown[e] > 0

\* Two rounds of one persona overlap only while one of them has outlived the
\* lock's TTL: a round that comes to its end late does not free the lock of the
\* next one (single_flight.py).
OneRoundAtATime ==
    \A r, s \in Runners :
        r # s /\ InRound(r) /\ InRound(s) => r \in overrun \/ s \in overrun

\* An event is input to one completed run only, whatever knocks, redeliveries
\* and failed runs there are, but for calls that fail, workers that die and
\* locks that expire.
RepeatsNeedFaults ==
    \A e \in Events : shown[e] <= 1 + spent["call"] + spent["crash"] + spent["expiry"]

\* Surroundings wake nobody, neither on delivery nor through the renotify of a
\* world tick (PASSIVE_EVENT_KINDS).
PassiveWakesNobody == envelopes \subseteq Passive => \A r \in Runners : pc[r] = "idle"

\* A round that is in the transcript is not run again (the turn is idempotent),
\* however often its batch is knocked for, unless a lock has expired under a
\* round: then its append may come after the check of the next.
NoRoundTwice ==
    [][\A r \in Runners :
          /\ pc[r] = "run" /\ pc'[r] = "load"
          /\ spent["expiry"] = 0
          => round[r] \notin transcript]_vars

\* A transcript loses a round's marker only to an append: to the hard cap, or
\* when the append overlaps another round's, whose lock has expired under it.  A
\* fold that an append has overtaken gives way (session_fold.py).
FoldKeepsRounds ==
    [][\/ transcript \subseteq transcript'
       \/ /\ \E r \in Runners : pc[r] = "append" /\ pc'[r] = "mark"
          /\ spent["expiry"] > 0 \/ spent'["cap"] > spent["cap"]]_vars

\* Every active event is input to a completed run in the end: a lost knock is made
\* up for by the next renotify (mailbox.py), a batch cut off by the inbox cap
\* leaves the rest to a later round (life_wake.py).
EventuallySeen ==
    \A e \in Events \ Passive : (e \in envelopes) ~> (shown[e] > 0)
================================================================================
