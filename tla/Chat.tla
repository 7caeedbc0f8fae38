---------------------------------- MODULE Chat ----------------------------------
(***************************************************************************)
(* A reply to a person (nodes/chat_node.py, chat/render.py, nodes/safety.py *)
(* and the two workers of channel-server).                                 *)
(*                                                                         *)
(* chat_node streams a reply and sends it part by part.  A check of the     *)
(* question runs beside it and is asked at every part; an audit of the      *)
(* answer runs when the stream ends, before the last part is sent, and may  *)
(* have the reply recalled.  The response worker shows the parts and notes  *)
(* them in the row of the reply, from which the recall worker works.        *)
(***************************************************************************)
EXTENDS Naturals, FiniteSets

CONSTANTS
    MaxParts,       \* MAX_MESSAGES
    MaxRecalls,     \* MAX_RETRY of the recall worker
    MaxMuddles      \* bound: how many of ChatEvents happen, each once

\* A step of the node raises; the check raises; it outlasts the wait for it; the stream
\* ends badly; a write or publish fails that the node swallows; a part cannot be shown,
\* or noted; a worker dies; a message cannot be recalled; the trigger comes again.
ChatEvents == {"raise", "check", "timeout", "render", "swallow", "show", "note", "crash",
               "recall", "again"}

ASSUME ChatAssumption == MaxParts \in Nat \ {0} /\ MaxRecalls \in Nat /\ MaxMuddles \in Nat

VARIABLES
    reply,          \* chat_node: its run, the part it is at, what the last part is
    check,          \* the check of the question
    replyRow,       \* the row of the reply in common_agent_response
    sending,        \* segments on their way to the response worker
    showing,        \* segments shown and not noted yet
    shown,          \* messages the person has seen
    recalls,        \* recalls on their way, with the times they were put off
    recaller,       \* the recall being worked off
    gone,           \* messages recalled
    known,          \* the run whose reply her life knows of
    muddles         \* those of ChatEvents that happened

chatVars == <<reply, check, replyRow, sending, showing, shown, recalls, recaller, gone, known, muddles>>

nodeVars == <<reply, check, known>>
workerVars == <<sending, showing, shown>>
recallVars == <<recalls, recaller, gone>>

NoReply == [pc |-> "off", run |-> 0, part |-> 0, kind |-> "text"]
Terminal == {"passed", "recalled", "recall_failed"}
Message(seg) == [run |-> seg.run, part |-> seg.part, kind |-> seg.kind, copy |-> seg.copy]
Visible == shown \ gone
NothingToSay == reply.kind = "empty" /\ reply.part = 0

ChatTypeOK ==
    /\ reply.pc \in {"off", "prep", "stream", "part", "audit", "judge", "last", "wake",
                     "done", "failed", "cut"}
    /\ reply.part \in 0 .. MaxParts - 1 /\ reply.kind \in {"text", "empty"}
    /\ check \in {"runs", "passed", "blocked", "raised", "cancelled"}
    /\ replyRow.status \in {"none", "pending", "completed", "failed"}
    /\ replyRow.safety \in {"pending"} \cup Terminal
    /\ \A seg \in sending \cup showing : seg.kind \in {"text", "guard", "notice", "empty"}
    /\ replyRow.replies \subseteq shown /\ gone \subseteq shown
    /\ recalls \subseteq 0 .. MaxRecalls
    /\ known \in 0 .. reply.run /\ muddles \subseteq ChatEvents

\* channel-server makes the row before it publishes the trigger; that may have failed.
ChatInit ==
    /\ reply = NoReply /\ check = "runs"
    /\ replyRow \in [status : {"none", "pending"}, safety : {"pending"}, replies : {{}}]
    /\ sending = {} /\ showing = {} /\ shown = {}
    /\ recalls = {} /\ recaller = {} /\ gone = {}
    /\ known = 0
    /\ muddles = {}

Muddle(e) == e \notin muddles /\ Cardinality(muddles) < MaxMuddles /\ muddles' = muddles \cup {e}

--------------------------------------------------------------------------------
\* route_chat_node: a completed reply is not given again.  The edge to chat_node lets a
\* request through once, and again if the first run did not succeed.
Trigger ==
    /\ reply.pc \in {"off", "failed", "cut"}
    /\ replyRow.status # "completed"
    /\ IF reply.pc = "off" THEN UNCHANGED muddles ELSE Muddle("again")
    /\ reply' = [NoReply EXCEPT !.pc = "prep", !.run = reply.run + 1]
    /\ check' = "runs"
    /\ UNCHANGED <<replyRow, workerVars, recallVars, known>>

Segment(kind, last) ==
    [run |-> reply.run, part |-> reply.part, kind |-> kind, last |-> last, copy |-> 1]

Emits(kind, last) == sending' = sending \cup {Segment(kind, last)}

\* Without its message there is nothing to answer: one segment says so.
Prep ==
    /\ reply.pc = "prep"
    /\ \/ reply' = [reply EXCEPT !.pc = "stream"] /\ UNCHANGED sending
       \/ reply' = [reply EXCEPT !.pc = "done"] /\ Emits("notice", TRUE)
    /\ UNCHANGED <<check, replyRow, showing, shown, recallVars, known, muddles>>

\* run_pre_safety answers: fails open inside, but the wait for it may raise.
CheckEnds ==
    /\ check = "runs" /\ reply.pc \in {"stream", "part", "audit", "judge", "last"}
    /\ \/ check' \in {"passed", "blocked"} /\ UNCHANGED muddles
       \/ check' = "raised" /\ Muddle("check")
    /\ UNCHANGED <<reply, replyRow, workerVars, recallVars, known>>

\* The stream reaches a split marker; the last part takes all that comes after.
PartEnds ==
    /\ reply.pc = "stream" /\ reply.part < MaxParts - 1
    /\ reply' = [reply EXCEPT !.pc = "part"]
    /\ UNCHANGED <<check, replyRow, workerVars, recallVars, known, muddles>>

\* Wrong variant: the text after the last marker decides what is audited.
ToAuditLast(kind) == kind # "empty"

\* Is there anything to audit in the whole text?
ToAudit(kind) == ~(kind = "empty" /\ reply.part = 0)

\* The stream ends, with or without text after the last marker.
StreamEnds ==
    /\ reply.pc = "stream"
    /\ \E kind \in {"text", "empty"} :
          reply' = [reply EXCEPT !.kind = kind, !.pc = IF ToAudit(kind) THEN "audit" ELSE "last"]
    /\ UNCHANGED <<check, replyRow, workerVars, recallVars, known, muddles>>

\* A filter, a truncation, an error or a missing context puts a text of its own at the
\* end, unaudited.
StreamBreaks ==
    /\ reply.pc = "stream" /\ Muddle("render")
    /\ reply' = [reply EXCEPT !.pc = "last"]
    /\ UNCHANGED <<check, replyRow, workerVars, recallVars, known>>

\* run_post_safety reads the row; without one it raises, which is logged.
Audit ==
    /\ reply.pc = "audit"
    /\ reply' = [reply EXCEPT !.pc = IF replyRow.status = "none" \/ replyRow.safety \in Terminal THEN "last"
                                     ELSE "judge"]
    /\ UNCHANGED <<check, replyRow, workerVars, recallVars, known, muddles>>

\* ... and judges: passed is written, a recall goes to the recall worker, which writes.
Judge ==
    /\ reply.pc = "judge"
    /\ reply' = [reply EXCEPT !.pc = "last"]
    /\ \/ replyRow' = [replyRow EXCEPT !.safety = "passed"] /\ UNCHANGED <<recalls, muddles>>
       \/ recalls' = recalls \cup {0} /\ UNCHANGED <<replyRow, muddles>>
       \/ Muddle("swallow") /\ UNCHANGED <<replyRow, recalls>>
    /\ UNCHANGED <<check, workerVars, recaller, gone, known>>

--------------------------------------------------------------------------------
\* _resolve_pre_safety_for_part: what is asked, and waited for, at every part.
Resolved(part) == check

AtPart == reply.pc \in {"part", "last"}

SendsPart ==
    IF reply.pc = "last"
      THEN Emits(reply.kind, TRUE) /\ reply' = [reply EXCEPT !.pc = "wake"]
      ELSE Emits("text", FALSE) /\ reply' = [reply EXCEPT !.pc = "stream", !.part = @ + 1]

PartPasses ==
    /\ AtPart /\ Resolved(reply.part) \in {"passed", "raised"}
    /\ SendsPart
    /\ UNCHANGED <<check, replyRow, showing, shown, recallVars, known, muddles>>

\* The guard message is the last segment.
PartIsBlocked ==
    /\ AtPart /\ Resolved(reply.part) = "blocked"
    /\ Emits("guard", TRUE)
    /\ reply' = [reply EXCEPT !.pc = "done"]
    /\ UNCHANGED <<check, replyRow, showing, shown, recallVars, known, muddles>>

\* After five seconds wait_for cancels the check, and the part goes out.
PartTimesOut ==
    /\ AtPart /\ Resolved(reply.part) = "runs" /\ Muddle("timeout")
    /\ check' = "cancelled"
    /\ SendsPart
    /\ UNCHANGED <<replyRow, showing, shown, recallVars, known>>

\* The result of a cancelled task is a CancelledError, which except Exception lets pass.
PartIsCut ==
    /\ AtPart /\ Resolved(reply.part) = "cancelled"
    /\ reply' = [reply EXCEPT !.pc = "cut"]
    /\ UNCHANGED <<check, replyRow, workerVars, recallVars, known, muddles>>

\* _wake_life_after_chat, unless there was nothing to say; the id is the request's.
WakeLife ==
    /\ reply.pc = "wake"
    /\ reply' = [reply EXCEPT !.pc = "done"]
    /\ IF NothingToSay THEN UNCHANGED <<known, muddles>>
       ELSE \/ known' = (IF known = 0 THEN reply.run ELSE known) /\ UNCHANGED muddles
            \/ Muddle("swallow") /\ UNCHANGED known
    /\ UNCHANGED <<check, replyRow, workerVars, recallVars>>

\* The node raises or dies.
NodeFails ==
    /\ reply.pc \notin {"off", "done", "failed", "cut"} /\ Muddle("raise")
    /\ reply' = [reply EXCEPT !.pc = "failed"]
    /\ UNCHANGED <<check, replyRow, workerVars, recallVars, known>>

--------------------------------------------------------------------------------
Status(status) == [replyRow EXCEPT !.status = IF @ = "none" THEN @ ELSE status]

\* The response worker, with up to ten segments in hand, shows one; what cannot be shown
\* is logged and acked.
Show(seg) ==
    /\ seg \in sending
    /\ sending' = sending \ {seg}
    /\ \/ /\ seg.kind = "empty"
          /\ replyRow' = IF seg.last THEN Status("completed") ELSE replyRow
          /\ UNCHANGED <<showing, shown, muddles>>
       \/ /\ seg.kind # "empty"
          /\ showing' = showing \cup {seg} /\ shown' = shown \cup {Message(seg)}
          /\ UNCHANGED <<replyRow, muddles>>
       \/ /\ seg.kind # "empty" /\ Muddle("show")
          /\ replyRow' = Status("failed")
          /\ UNCHANGED <<showing, shown>>
    /\ UNCHANGED <<nodeVars, recallVars>>

\* ... and notes it in the row of the reply, if it has one.
Note(seg) ==
    /\ seg \in showing
    /\ showing' = showing \ {seg}
    /\ \/ /\ replyRow' = IF replyRow.status = "none" THEN replyRow
                    ELSE [replyRow EXCEPT !.replies = @ \cup {Message(seg)},
                                     !.status = IF seg.last THEN "completed" ELSE @]
          /\ UNCHANGED muddles
       \/ Muddle("note") /\ replyRow' = Status("failed")
    /\ UNCHANGED <<nodeVars, sending, shown, recallVars>>

\* A worker that dies in between shows it again.
WorkerDies(seg) ==
    /\ seg \in showing /\ Muddle("crash")
    /\ showing' = showing \ {seg}
    /\ sending' = sending \cup {[seg EXCEPT !.copy = @ + 1]}
    /\ UNCHANGED <<nodeVars, replyRow, shown, recallVars>>

\* A recall that finds no message is put off, and given up in the end.
NothingYet(r) == IF r < MaxRecalls THEN replyRow.safety ELSE "recall_failed"

\* The recall worker reads the row.
RecallReads(r) ==
    /\ r \in recalls
    /\ IF replyRow.safety \in {"recalled", "recall_failed"}
         THEN recalls' = recalls \ {r} /\ UNCHANGED <<replyRow, recaller>>
       ELSE IF replyRow.replies = {}
         THEN /\ replyRow' = [replyRow EXCEPT !.safety = NothingYet(r)]
              /\ recalls' = (recalls \ {r}) \cup ({r + 1} \cap 0 .. MaxRecalls)
              /\ UNCHANGED recaller
       ELSE /\ recaller' = {<<r, replyRow.replies>>} /\ recalls' = recalls \ {r}
            /\ UNCHANGED replyRow
    /\ recaller = {}
    /\ UNCHANGED <<nodeVars, workerVars, gone, muddles>>

\* ... recalls what it has read, one after the other, and writes what came of it.
RecallEnds ==
    /\ \E job \in recaller, missed \in SUBSET shown :
        /\ missed \subseteq job[2] /\ Cardinality(missed) <= 1
        /\ gone' = gone \cup (job[2] \ missed)
        /\ replyRow' = [replyRow EXCEPT !.safety = IF job[2] = missed THEN "recall_failed" ELSE "recalled"]
        /\ IF missed # {} THEN Muddle("recall") /\ UNCHANGED recalls
           ELSE \/ UNCHANGED <<recalls, muddles>>
                \/ Muddle("crash") /\ recalls' = recalls \cup {job[1]}
    /\ recaller' = {}
    /\ UNCHANGED <<nodeVars, workerVars>>

ChatNext ==
    \/ Trigger \/ Prep \/ CheckEnds \/ PartEnds \/ StreamEnds \/ StreamBreaks \/ Audit \/ Judge
    \/ PartPasses \/ PartIsBlocked \/ PartTimesOut \/ PartIsCut \/ WakeLife \/ NodeFails
    \/ \E seg \in sending \cup showing : Show(seg) \/ Note(seg) \/ WorkerDies(seg)
    \/ RecallEnds \/ \E r \in recalls : RecallReads(r)

ChatSpec == ChatInit /\ [][ChatNext]_chatVars
--------------------------------------------------------------------------------
Saying(kind) == {seg \in sending : seg.kind = kind} \cup {m \in shown : m.kind = kind}

\* Nothing of the reply to a blocked question goes out, and it ends in the guard message,
\* at whatever part the verdict came.
BlockedEndsInGuard ==
    check = "blocked" =>
        /\ \A seg \in Saying("text") : seg.run # reply.run
        /\ reply.pc \in {"wake", "done"} /\ "show" \notin muddles =>
            \E seg \in Saying("guard") : seg.run = reply.run

\* A reply of one message that was recalled is gone, if it was given and shown once and
\* the channel took it back.
OneMessageIsRecalled ==
    /\ replyRow.safety = "recalled" /\ \A m \in shown : m.part = 0
    /\ muddles \cap {"crash", "recall", "again"} = {}
    => Visible = {}

\* When the last part of a reply goes out, the whole text has been judged, and a judgement
\* against it is not lost: unless the stream ended badly, a failure was swallowed, the
\* reply is a second one or has no row, its safety is or will be settled.
RepliesAreAudited ==
    /\ reply.pc \in {"wake", "done"} /\ Saying("text") # {} /\ replyRow.status # "none" /\ check # "blocked"
    /\ ~NothingToSay /\ muddles \cap {"render", "swallow", "again"} = {}
    => replyRow.safety \in Terminal \/ recalls # {} \/ recaller # {}

\* A blocked question is answered by the guard message only, a reply that went out was
\* judged as a whole, and a single message whose recall succeeded is gone (chat_node.py,
\* nodes/safety.py, recall-worker.ts).
RepliesCanBeTrusted == BlockedEndsInGuard /\ RepliesAreAudited /\ OneMessageIsRecalled

\* recall-worker.ts:4-5 recalls the messages of a reply, post_actions.py:52-53 has the
\* audit queued on its own: when all is worked off, nobody sees what was recalled.
RecalledLeavesNothing ==
    /\ replyRow.safety = "recalled" /\ reply.pc = "done" /\ sending = {} /\ showing = {} /\ muddles = {}
    => Visible = {}

\* _chat_pre_safety.py:32-33: a check that raises or outlasts its wait lets the reply go on,
\* to its last segment.
FailsOpen == check = "cancelled" => reply.pc # "cut"
================================================================================
