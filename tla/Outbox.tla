-------------------------------- MODULE Outbox ---------------------------------
(***************************************************************************)
(* The outbox (runtime/outbox.py, runtime/outbox_dispatcher.py): a row is   *)
(* appended in the caller's transaction, and the dispatcher of each process *)
(* of the app emits what is committed and due.                              *)
(*                                                                         *)
(* One pass of a dispatcher is one transaction: it locks a batch, emits row *)
(* by row, and commits at the end what it noted on every row.               *)
(***************************************************************************)
EXTENDS Naturals, Sequences, FiniteSets

CONSTANTS
    Rows,           \* ids of rows, handed out in order
    Dispatchers,    \* one per process
    BatchSize,
    MaxAttempts,    \* bound on the retries of one row
    OutboxLimit     \* bound on each of OutboxFaults

\* Ids are numbers, finitely many; no dispatcher is none.
ASSUME OutboxAssumption ==
    /\ Rows \subseteq Nat /\ IsFiniteSet(Rows) /\ "none" \notin Dispatchers
    /\ BatchSize \in Nat /\ MaxAttempts \in Nat

\* emit raises; a statement or the commit fails; a process dies.
OutboxFaults == {"emit", "db", "crash"}

VARIABLES
    outbox,     \* runtime_outbox as committed, with the rows of open transactions
    locked,     \* rows under FOR UPDATE, and by whom
    drain,      \* each dispatcher's pass
    emits,      \* history: how often emit was called with each row's data
    whole,      \* history: rows of which a call of emit returned
    mishaps     \* how often each of OutboxFaults happened

outboxVars == <<outbox, locked, drain, emits, whole, mishaps>>

RowStates == {"none", "open", "rolledback", "pending", "dispatched"}

\* A pass: its batch, how far it is, and its uncommitted updates.
NoDrain == [pc |-> "idle", batch |-> <<>>, updates |-> {}]

\* Types.
OutboxTypeOK ==
    /\ \A r \in Rows : /\ outbox[r].state \in RowStates
                       /\ outbox[r].due \in BOOLEAN
                       /\ outbox[r].attempts \in 0 .. MaxAttempts
    /\ locked \in [Rows -> Dispatchers \cup {"none"}]
    /\ \A d \in Dispatchers : drain[d].pc \in {"idle", "row", "over", "ended"}
    /\ emits \in [Rows -> Nat] /\ whole \subseteq Rows

OutboxInit ==
    /\ outbox = [r \in Rows |-> [state |-> "none", due |-> TRUE, attempts |-> 0]]
    /\ locked = [r \in Rows |-> "none"]
    /\ drain = [d \in Dispatchers |-> NoDrain]
    /\ emits = [r \in Rows |-> 0] /\ whole = {}
    /\ mishaps = [f \in OutboxFaults |-> 0]

Mishap(f) == mishaps[f] < OutboxLimit[f] /\ mishaps' = [mishaps EXCEPT ![f] = @ + 1]

--------------------------------------------------------------------------------
\* OutboxEmitter.append in the session of a business transaction: the id is given
\* out at the INSERT, the row is visible to others from the commit on.
AppendRow(r) ==
    /\ outbox[r].state = "none"
    /\ \A q \in Rows : q < r => outbox[q].state # "none"
    /\ outbox' = [outbox EXCEPT ![r].state = "open"]
    /\ UNCHANGED <<locked, drain, emits, whole, mishaps>>

\* The end of that transaction, by the caller's get_session.
EndTransaction(r) ==
    /\ outbox[r].state = "open"
    /\ \E state \in {"pending", "rolledback"} : outbox' = [outbox EXCEPT ![r].state = state]
    /\ UNCHANGED <<locked, drain, emits, whole, mishaps>>

\* next_attempt_at comes.
ComesDue(r) ==
    /\ outbox[r].state = "pending" /\ ~outbox[r].due
    /\ outbox' = [outbox EXCEPT ![r].due = TRUE]
    /\ UNCHANGED <<locked, drain, emits, whole, mishaps>>

--------------------------------------------------------------------------------
Unlocked(r) == locked[r] = "none"
Dispatchable(r) == outbox[r].state = "pending" /\ outbox[r].due /\ Unlocked(r)

\* The first BatchSize rows in order of id.
Batch(rows) ==
    LET Before(r) == {q \in rows : q < r} IN
    [i \in 1 .. (IF Cardinality(rows) < BatchSize THEN Cardinality(rows) ELSE BatchSize) |->
        CHOOSE r \in rows : Cardinality(Before(r)) = i - 1]

Rest(rows) == {rows[i] : i \in DOMAIN rows}

\* SELECT ... FOR UPDATE SKIP LOCKED of the due rows of this app and lane.
\* No rows: the loop sleeps.
Select(d) ==
    /\ drain[d].pc = "idle"
    /\ LET batch == Batch({r \in Rows : Dispatchable(r)}) IN
        /\ batch # <<>>
        /\ drain' = [drain EXCEPT ![d] = [pc |-> "row", batch |-> batch, updates |-> {}]]
        /\ locked' = [r \in Rows |-> IF r \in Rest(batch) THEN d ELSE locked[r]]
    /\ UNCHANGED <<outbox, emits, whole, mishaps>>

\* emit of the next row, and the UPDATE of its row: dispatched, or one more attempt
\* and a back-off.  What emit did before it raised stays done.
EmitRow(d) ==
    /\ drain[d].pc = "row"
    /\ \E fails \in BOOLEAN :
        LET r == Head(drain[d].batch) IN
        /\ IF fails
             THEN Mishap("emit") /\ outbox[r].attempts < MaxAttempts
             ELSE UNCHANGED mishaps
        /\ emits' = [emits EXCEPT ![r] = @ + 1]
        /\ whole' = IF fails THEN whole ELSE whole \cup {r}
        /\ drain' = [drain EXCEPT
               ![d].pc = IF Len(drain[d].batch) = 1 THEN "over" ELSE "row",
               ![d].batch = Tail(@),
               ![d].updates = @ \cup {[row |-> r, dispatched |-> ~fails]}]
    /\ UNCHANGED <<outbox, locked>>

UnlockBatch(d) == locked' = [r \in Rows |-> IF locked[r] = d THEN "none" ELSE locked[r]]

\* What the updates of a pass make of a row.
Updated(r, updates) ==
    IF [row |-> r, dispatched |-> TRUE] \in updates
      THEN [outbox[r] EXCEPT !.state = "dispatched"]
    ELSE IF [row |-> r, dispatched |-> FALSE] \in updates
      THEN [outbox[r] EXCEPT !.due = FALSE, !.attempts = @ + 1]
    ELSE outbox[r]

\* The commit, after which the next pass begins.
CommitBatch(d) ==
    /\ drain[d].pc = "over"
    /\ outbox' = [r \in Rows |-> Updated(r, drain[d].updates)]
    /\ UnlockBatch(d)
    /\ drain' = [drain EXCEPT ![d] = NoDrain]
    /\ UNCHANGED <<emits, whole, mishaps>>

\* A statement or the commit fails.  The UPDATE in the handler of the first fails
\* as well, in a transaction that is void already, so the error leaves the loop:
\* the task has ended, the process lives, and the rows are as they were.
DatabaseFails(d) ==
    /\ drain[d].pc \in {"idle", "row", "over"}
    /\ Mishap("db")
    /\ UnlockBatch(d)
    /\ drain' = [drain EXCEPT ![d] = [NoDrain EXCEPT !.pc = "ended"]]
    /\ UNCHANGED <<outbox, emits, whole>>

\* A death, or the cancellation of a stop; the process comes back with a new loop.
Restart(d) ==
    /\ Mishap("crash")
    /\ UnlockBatch(d)
    /\ drain' = [drain EXCEPT ![d] = NoDrain]
    /\ UNCHANGED <<outbox, emits, whole>>

DispatcherStep(d) == Select(d) \/ EmitRow(d) \/ CommitBatch(d)

OutboxNext ==
    \/ \E r \in Rows : AppendRow(r) \/ EndTransaction(r) \/ ComesDue(r)
    \/ \E d \in Dispatchers : DispatcherStep(d) \/ DatabaseFails(d) \/ Restart(d)

OutboxSpec == OutboxInit /\ [][OutboxNext]_outboxVars
--------------------------------------------------------------------------------
\* What a committed transaction promised is emitted, what was rolled back never is:
\* no row is emitted before its commit, and none is closed that was not emitted,
\* whole, by somebody.
EmitsAreCommitted ==
    \A r \in Rows :
        /\ emits[r] > 0 => outbox[r].state \in {"pending", "dispatched"}
        /\ outbox[r].state = "dispatched" => r \in whole

\* However many processes drain, a row's data goes out a second time only after a
\* failed emit, a failed statement or a death, once for each of them.
RepeatsAreEarned ==
    \A r \in Rows : emits[r] <= 1 + mishaps["emit"] + mishaps["db"] + mishaps["crash"]
================================================================================
