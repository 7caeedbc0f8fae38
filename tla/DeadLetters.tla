------------------------------ MODULE DeadLetters ------------------------------
(***************************************************************************)
(* The administration of dead letters (nodes/dlq_admin.py,                 *)
(* capabilities/dlq.py, runtime/dlq_audit.py, infra/rabbitmq.py).          *)
(*                                                                         *)
(* A requeue takes letters off the one queue all dead letters go to, over  *)
(* the channel the whole process shares, clears their inflight rows,       *)
(* publishes them again and acks them.  Queue, rows and audit are three    *)
(* systems, and every step between two awaits may be the last.             *)
(***************************************************************************)
EXTENDS Naturals, Sequences, FiniteSets

CONSTANTS
    Requests,   \* slots for admin requests under way
    Letters,    \* dead letters
    NoLetter,
    Body,       \* what each letter carries, see Bodies
    MaxBatch,   \* bound on a requeue's limit
    DeadLimit       \* bound on each of Events

\* An envelope has data, origin_queue and the keys of its inflight row.  What a
\* durable edge dead-letters is the bare event, with none of the three.
Bodies == {"envelope", "bare", "unreadable"}

\* A letter has a body of one of these kinds; finitely many requests are under way.
ASSUME DeadLettersAssumption ==
    /\ Body \in [Letters -> Bodies] /\ MaxBatch \in Nat
    /\ IsFiniteSet(Requests)

\* A request comes; a call fails; the connection drops.
Events == {"request", "fault", "drop"}

VARIABLES
    dead,       \* letters waiting in dead_letters
    unacked,    \* letters the shared channel has and has not settled
    copies,     \* how often each letter was published to its origin queue
    rows,       \* the inflight row of each letter's event
    audits,     \* runtime_dlq_audit
    admin,      \* the requests under way
    logged,     \* history: letters whose row a requeue has deleted
    happened    \* how often each of Events did

deadVars == <<dead, unacked, copies, rows, audits, admin, logged, happened>>

Outcomes == {"requeued", "publish_failed", "zombie_acked"}
Steps == {"idle", "get", "open", "clear", "delete", "route", "publish", "close",
          "settle", "wipe", "log"}

\* tag: the delivery tag of the letter is still valid.
NoRequest == [pc |-> "idle", letter |-> NoLetter, left |-> 0, clear |-> FALSE,
              tag |-> FALSE, audit |-> 0, outcome |-> "publish_failed"]

\* Types; a letter is in one place at a time.
DeadLettersTypeOK ==
    /\ dead \subseteq Letters /\ unacked \subseteq Letters
    /\ dead \cap unacked = {}
    /\ copies \in [Letters -> Nat]
    /\ rows \in [Letters -> {"none", "open", "succeeded"}]
    /\ \A i \in DOMAIN audits : audits[i].status \in Outcomes \cup {"cleared", "already_succeeded"}
    /\ \A q \in Requests : /\ admin[q].pc \in Steps
                           /\ admin[q].left \in 0 .. MaxBatch
                           /\ admin[q].tag => admin[q].letter \in unacked

DeadLettersInit ==
    /\ dead = Letters /\ unacked = {}
    /\ copies = [l \in Letters |-> 0]
    /\ rows = [l \in Letters |-> "open"]
    /\ audits = <<>>
    /\ admin = [q \in Requests |-> NoRequest]
    /\ logged = {}
    /\ happened = [e \in Events |-> 0]

Happens(e) == happened[e] < DeadLimit[e] /\ happened' = [happened EXCEPT ![e] = @ + 1]

On(q, step) == admin[q].pc = step
Letter(q) == admin[q].letter
Then(q, new) == admin' = [admin EXCEPT ![q] = [f \in DOMAIN @ |->
                              IF f \in DOMAIN new THEN new[f] ELSE @[f]]]

--------------------------------------------------------------------------------
\* POST requeue: queue, limit and whether to clear.
RequeueLetters(q) ==
    /\ On(q, "idle")
    /\ Happens("request")
    /\ \E limit \in 1 .. MaxBatch, clear \in BOOLEAN :
           Then(q, [pc |-> "get", left |-> limit, clear |-> clear])
    /\ UNCHANGED <<dead, unacked, copies, rows, audits, logged>>

\* basic_get; an empty queue ends the loop.  A body that is no JSON goes back.
Get(q) ==
    /\ On(q, "get")
    /\ IF admin[q].left = 0 \/ dead = {}
         THEN Then(q, NoRequest) /\ UNCHANGED <<dead, unacked>>
         ELSE \E l \in dead :
                /\ dead' = dead \ {l} /\ unacked' = unacked \cup {l}
                /\ Then(q, [letter |-> l, left |-> admin[q].left - 1, tag |-> TRUE,
                            outcome |-> "publish_failed",
                            pc |-> IF Body[l] = "unreadable" THEN "settle" ELSE "open"])
    /\ UNCHANGED <<copies, rows, audits, logged, happened>>

Audit(letter, status) == audits' = Append(audits, [letter |-> letter, status |-> status])

\* Step 2: the audit row comes first.
OpenAudit(q) ==
    /\ On(q, "open")
    /\ Audit(Letter(q), "cleared")
    /\ Then(q, [audit |-> Len(audits'), pc |-> IF admin[q].clear THEN "clear" ELSE "route"])
    /\ UNCHANGED <<dead, unacked, copies, rows, logged, happened>>

\* A request that raises is over.  Its letter stays unacked on the channel.
Raise(q) == Then(q, NoRequest)

\* Step 3, delete_inflight by edge and key: without keys it raises, a succeeded
\* row is not deleted.
Clear(q) ==
    /\ On(q, "clear")
    /\ CASE Body[Letter(q)] # "envelope"      -> Raise(q)
         [] rows[Letter(q)] = "succeeded"     -> Then(q, [pc |-> "close", outcome |-> "zombie_acked"])
         [] OTHER                             -> Then(q, [pc |-> "delete"])
    /\ UNCHANGED <<dead, unacked, copies, rows, audits, logged, happened>>

\* The DELETE asks for the state again.
Delete(q) ==
    /\ On(q, "delete")
    /\ IF rows[Letter(q)] = "open"
         THEN rows' = [rows EXCEPT ![Letter(q)] = "none"] /\ logged' = logged \cup {Letter(q)}
         ELSE UNCHANGED <<rows, logged>>
    /\ Then(q, [pc |-> "route"])
    /\ UNCHANGED <<dead, unacked, copies, audits, happened>>

\* Step 4: the origin queue must be one of ALL_ROUTES, which dead_letters is not.
Route(q) ==
    /\ On(q, "route")
    /\ Then(q, [pc |-> IF Body[Letter(q)] = "envelope" THEN "publish" ELSE "close"])
    /\ UNCHANGED <<dead, unacked, copies, rows, audits, logged, happened>>

\* publish_with_confirm: False also when the broker took the message and the
\* confirm was late.
PublishAgain(q) ==
    /\ On(q, "publish")
    /\ \/ /\ copies' = [copies EXCEPT ![Letter(q)] = @ + 1]
          /\ Then(q, [pc |-> "close", outcome |-> "requeued"])
          /\ UNCHANGED happened
       \/ /\ Happens("fault")
          /\ \E taken \in {0, 1} : copies' = [copies EXCEPT ![Letter(q)] = @ + taken]
          /\ Then(q, [pc |-> "close"])
    /\ UNCHANGED <<dead, unacked, rows, audits, logged>>

\* update_audit_status.
CloseAudit(q) ==
    /\ On(q, "close")
    /\ audits' = [audits EXCEPT ![admin[q].audit].status = admin[q].outcome]
    /\ Then(q, [pc |-> "settle"])
    /\ UNCHANGED <<dead, unacked, copies, rows, logged, happened>>

\* Wrong variant: what could not be published is acked like the rest.
SettleAcks(q) ==
    /\ On(q, "settle")
    /\ unacked' = IF admin[q].tag THEN unacked \ {Letter(q)} ELSE unacked
    /\ Then(q, [pc |-> "get", tag |-> FALSE])
    /\ UNCHANGED <<dead, copies, rows, audits, logged, happened>>

\* ack what was requeued or has succeeded, nack(requeue=True) the rest; with a tag
\* of a connection that is gone both raise.
Settle(q) ==
    /\ On(q, "settle")
    /\ IF admin[q].tag
         THEN /\ unacked' = unacked \ {Letter(q)}
              /\ dead' = IF admin[q].outcome = "publish_failed" THEN dead \cup {Letter(q)} ELSE dead
              /\ Then(q, [pc |-> "get", tag |-> FALSE])
         ELSE Raise(q) /\ UNCHANGED <<dead, unacked>>
    /\ UNCHANGED <<copies, rows, audits, logged, happened>>

--------------------------------------------------------------------------------
\* POST clear-idempotent, of one row or of a trace (here: of every letter): the
\* rows first, the audit second.
ClearIdempotent(q) ==
    /\ On(q, "idle")
    /\ Happens("request")
    /\ \E l \in Letters : Then(q, [pc |-> "wipe", letter |-> l])
    /\ UNCHANGED <<dead, unacked, copies, rows, audits, logged>>

WipeOne(q) ==
    /\ On(q, "wipe")
    /\ rows' = [rows EXCEPT ![Letter(q)] = IF @ = "open" THEN "none" ELSE @]
    /\ Then(q, [pc |-> "log", clear |-> rows[Letter(q)] # "succeeded"])
    /\ UNCHANGED <<dead, unacked, copies, audits, logged, happened>>

WipeTrace(q) ==
    /\ On(q, "wipe")
    /\ rows' = [l \in Letters |-> IF rows[l] = "open" THEN "none" ELSE rows[l]]
    /\ Then(q, [pc |-> "log", clear |-> TRUE])
    /\ UNCHANGED <<dead, unacked, copies, audits, logged, happened>>

LogWipe(q) ==
    /\ On(q, "log")
    /\ Audit(Letter(q), IF admin[q].clear THEN "cleared" ELSE "already_succeeded")
    /\ Then(q, NoRequest)
    /\ UNCHANGED <<dead, unacked, copies, rows, logged, happened>>

--------------------------------------------------------------------------------
\* Any call of a request raises.
Fails(q) ==
    /\ admin[q].pc # "idle"
    /\ Happens("fault")
    /\ Raise(q)
    /\ UNCHANGED <<dead, unacked, copies, rows, audits, logged>>

\* The connection drops, with the process (then every request ends) or without:
\* the broker has every unsettled letter back.
Drop ==
    /\ Happens("drop")
    /\ dead' = dead \cup unacked /\ unacked' = {}
    /\ \E dies \in BOOLEAN : admin' = [q \in Requests |->
           IF dies THEN NoRequest ELSE [admin[q] EXCEPT !.tag = FALSE]]
    /\ UNCHANGED <<copies, rows, audits, logged>>

\* Another delivery of the event succeeds after all.
Succeeds(l) ==
    /\ rows[l] = "open"
    /\ rows' = [rows EXCEPT ![l] = "succeeded"]
    /\ UNCHANGED <<dead, unacked, copies, audits, admin, logged, happened>>

RequestStep(q) ==
    \/ Get(q) \/ OpenAudit(q) \/ Clear(q) \/ Delete(q) \/ Route(q) \/ PublishAgain(q)
    \/ CloseAudit(q) \/ Settle(q)
    \/ WipeOne(q) \/ WipeTrace(q) \/ LogWipe(q)

DeadLettersNext ==
    \/ \E q \in Requests : RequeueLetters(q) \/ ClearIdempotent(q) \/ RequestStep(q) \/ Fails(q)
    \/ Drop
    \/ \E l \in Letters : Succeeds(l)

DeadLettersSpec == DeadLettersInit /\ [][DeadLettersNext]_deadVars
--------------------------------------------------------------------------------
\* Whatever dies between publish, audit and ack: a dead letter is in its queue, or
\* in the channel, or was published again, or its event has succeeded.
NoLetterVanishes ==
    \A l \in Letters : l \in dead \cup unacked \/ copies[l] > 0 \/ rows[l] = "succeeded"

AuditsOf(l) == {i \in DOMAIN audits : audits[i].letter = l}

\* The audit is never behind the deed: every copy and every row a requeue deleted
\* has an audit row, and what an audit row says was requeued was published.
EveryReplayIsAudited ==
    \A l \in Letters :
        /\ copies[l] <= Cardinality(AuditsOf(l))
        /\ l \in logged => AuditsOf(l) # {}
        /\ Cardinality({i \in AuditsOf(l) : audits[i].status = "requeued"}) <= copies[l]

\* A letter is published twice only after a failed call or a dropped connection.
ReplaysNeedFaults ==
    \A l \in Letters : copies[l] <= 1 + happened["fault"] + happened["drop"]
================================================================================
