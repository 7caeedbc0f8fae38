------------------------------- MODULE LifeTools -------------------------------
(***************************************************************************)
(* The tools of a life round (nodes/life_tools.py): acting, talking,        *)
(* writing, reading.                                                       *)
(*                                                                         *)
(* Every durable write of a tool has an id derived from the round's act_id  *)
(* and the number of things of that kind done so far; the store keeps the   *)
(* first row of an id.  The number moves only when the tool has succeeded.  *)
(* tool_error hands a failure back to the model, which repeats the thing or *)
(* does another one; a failed round is run again under the same act_id.     *)
(***************************************************************************)
EXTENDS Naturals, Sequences, FiniteSets

CONSTANTS
    Tools,          \* the tools of this instance
    MaxToolRounds,  \* bound on rounds
    MaxThings,      \* bound on things done
    ToolLimit       \* bound on each of ToolEvents

\* An effect fails; it is there and its answer is lost; the round fails; who can be
\* reached changes.
ToolEvents == {"fail", "lost", "again", "drift"}

ToolNames == {"act", "chat", "note", "jot", "letter", "user", "group", "read"}

ASSUME ToolsAssumption ==
    /\ Tools \subseteq ToolNames
    /\ MaxToolRounds \in Nat /\ MaxThings \in Nat /\ ToolLimit \in [ToolEvents -> Nat]

\* What a person or a group is reached through: a private chat with her own bot; the
\* whitelist, the group being alive, her bot's identity in it.
Facts == {"chatted", "listed", "alive", "spoke"}

VARIABLES
    hand,           \* the round: its number, whether it is on, and the counters
    call,           \* the tool call under way
    failed,         \* per counter: the thing the model was told has failed
    kept,           \* id -> the thing stored under it
    segments,       \* id -> how many messages went to the channel under it
    answered,       \* <<id, thing>>: what the model was told is done
    facts,          \* what of Facts holds
    things,         \* things so far
    mishaps         \* how often each of ToolEvents happened

toolVars == <<hand, call, failed, kept, segments, answered, facts, things, mishaps>>

\* chat: what she says to the other one, then to the world that they talk.
Spoken == <<"speech", "meta">>

\* send_message to a person or a group: in her words, to the channel, to her own mailbox.
Sent == <<"render", "segment", "own">>

\* The effects of a tool in order.
Steps(tool) ==
    CASE tool = "chat" -> Spoken
      [] tool \in {"user", "group"} -> Sent
      [] tool \in {"act", "note", "jot", "letter", "read"} -> <<tool>>

\* send_message has one counter; read_book has none, its id is the book's.
Counter(tool) == IF tool \in {"letter", "user", "group"} THEN "send" ELSE tool
Counters == {Counter(tool) : tool \in Tools}

NoCall == [tool |-> "none", seq |-> 0, thing |-> 0, steps |-> <<>>]
Idle == call = NoCall

ToolsTypeOK ==
    /\ hand.n \in 0 .. MaxToolRounds /\ hand.pc \in {"off", "on", "failed"}
    /\ \A c \in Counters : hand.count[c] \in 0 .. MaxThings
    /\ call # NoCall => call.tool \in Tools /\ call.steps # <<>> /\ hand.pc = "on"
    /\ facts \subseteq Facts
    /\ \A id \in DOMAIN kept : kept[id] \in 1 .. things

ToolsInit ==
    /\ hand = [n |-> 0, pc |-> "off", count |-> [c \in Counters |-> 0]]
    /\ call = NoCall
    /\ failed = [c \in Counters |-> 0]
    /\ kept = <<>> /\ segments = <<>> /\ answered = {}
    /\ facts = Facts
    /\ things = 0
    /\ mishaps = [e \in ToolEvents |-> 0]

Mishap(e) == mishaps[e] < ToolLimit[e] /\ mishaps' = [mishaps EXCEPT ![e] = @ + 1]

--------------------------------------------------------------------------------
\* build_life_tools: the counters begin with the round, a repeated one keeps its act_id.
BuildTools ==
    /\ hand.pc # "on"
    /\ hand.pc = "off" => hand.n < MaxToolRounds
    /\ hand' = [n |-> IF hand.pc = "off" THEN hand.n + 1 ELSE hand.n, pc |-> "on",
                count |-> [c \in Counters |-> 0]]
    /\ failed' = [c \in Counters |-> 0]
    /\ UNCHANGED <<call, kept, segments, answered, facts, things, mishaps>>

LeaveTools ==
    /\ hand.pc = "on" /\ Idle
    /\ hand' = [hand EXCEPT !.pc = "off"]
    /\ UNCHANGED <<call, failed, kept, segments, answered, facts, things, mishaps>>

\* The run raises or its process dies; the wake comes again with the same inputs.
RoundBreaks ==
    /\ hand.pc = "on" /\ Mishap("again")
    /\ hand' = [hand EXCEPT !.pc = "failed"]
    /\ call' = NoCall
    /\ UNCHANGED <<failed, kept, segments, answered, facts, things>>

--------------------------------------------------------------------------------
\* _resolve_user: a person she has chatted with through her own bot.
ReachesUser == "chatted" \in facts

\* _resolve_group: a group she hears and is in.
ReachesGroup == {"listed", "alive", "spoke"} \subseteq facts

\* resolve_delivery: her sisters can always be reached, by letter.
Resolves(tool) == (tool = "user" => ReachesUser) /\ (tool = "group" => ReachesGroup)

FactChanges ==
    /\ Mishap("drift")
    /\ \E f \in Facts : facts' = IF f \in facts THEN facts \ {f} ELSE facts \cup {f}
    /\ UNCHANGED <<hand, call, failed, kept, segments, answered, things>>

\* The number of the thing in its round; a book is known by itself.
Seq1(tool, thing) == IF tool = "read" THEN thing ELSE hand.count[Counter(tool)] + 1

Id(tool, seq, effect) == <<hand.n, Counter(tool), seq, effect>>

\* Something new; what the model was told has failed; or, in a round that runs again,
\* what an earlier attempt did at this place.
Chosen(tool) ==
    LET place == Id(tool, Seq1(tool, 0), Steps(tool)[1])
    IN ({things + 1, failed[Counter(tool)]} \ {0}) \cup {kept[id] : id \in {place} \cap DOMAIN kept}

\* Wrong variant: a call is counted when it begins.
CountsAtOnce(phase) == phase = "call"

Counts(phase) == phase = "answer"

Count(phase, tool, seq) ==
    hand' = IF Counts(phase) /\ tool # "read" THEN [hand EXCEPT !.count[Counter(tool)] = seq] ELSE hand

\* The model calls a tool.  A call that is refused (an unknown or unreachable addressee,
\* herself, a bad time, a title that is not one book's) leaves everything as it is.
Call ==
    /\ hand.pc = "on" /\ Idle
    /\ \E tool \in Tools :
        /\ Resolves(tool)
        /\ \E thing \in {t \in Chosen(tool) : t <= MaxThings} :
            /\ call' = [tool |-> tool, seq |-> Seq1(tool, thing), thing |-> thing, steps |-> Steps(tool)]
            /\ things' = IF thing > things THEN thing ELSE things
            /\ Count("call", tool, Seq1(tool, thing))
    /\ UNCHANGED <<failed, kept, segments, answered, facts, mishaps>>

Effect == Head(call.steps)
CallId(effect) == Id(call.tool, call.seq, effect)

\* The rows are keyed by their ids and the first one stays; the channel takes every
\* segment it is given; rendering writes nothing.
Stored ==
    /\ kept' = IF Effect \in {"render", "segment"} \/ (CallId(Effect) \in DOMAIN kept) THEN kept
               ELSE [id \in DOMAIN kept \cup {CallId(Effect)} |->
                        IF id \in DOMAIN kept THEN kept[id] ELSE call.thing]
    /\ segments' = IF Effect # "segment" THEN segments
                   ELSE [id \in DOMAIN segments \cup {CallId(Effect)} |->
                            IF id \notin DOMAIN segments THEN 1
                            ELSE segments[id] + (IF id = CallId(Effect) THEN 1 ELSE 0)]

\* The tool answers: the counter moves, the model learns that it is done.
Answer ==
    /\ call' = NoCall
    /\ Count("answer", call.tool, call.seq)
    /\ failed' = [failed EXCEPT ![Counter(call.tool)] = 0]
    /\ answered' = answered \cup {<<CallId(Steps(call.tool)[1]), call.thing>>}

Goes ==
    IF Len(call.steps) = 1 THEN Answer
    ELSE call' = [call EXCEPT !.steps = Tail(@)] /\ UNCHANGED <<hand, failed, answered>>

Work ==
    /\ ~Idle
    /\ Stored
    /\ Goes
    /\ UNCHANGED <<facts, things, mishaps>>

\* What was said is out: that she does not hear of it herself is logged.
Swallowed == Effect = "own"

\* tool_error: the model is told that it failed; the counter stays.
Fails ==
    IF Swallowed THEN Answer
    ELSE /\ call' = NoCall
         /\ failed' = [failed EXCEPT ![Counter(call.tool)] = call.thing]
         /\ UNCHANGED <<hand, answered>>

WorkFails ==
    /\ ~Idle /\ Mishap("fail")
    /\ Fails
    /\ UNCHANGED <<kept, segments, facts, things>>

WorkIsLost ==
    /\ ~Idle /\ Mishap("lost")
    /\ Stored
    /\ Fails
    /\ UNCHANGED <<facts, things>>

ToolsNext ==
    \/ BuildTools \/ LeaveTools \/ RoundBreaks \/ FactChanges
    \/ Call \/ Work \/ WorkFails \/ WorkIsLost

ToolsSpec == ToolsInit /\ [][ToolsNext]_toolVars
--------------------------------------------------------------------------------
\* However often a thing fails and is done again, its rows are there once: no effect of
\* one thing is stored under two ids.
ThingsLandOnce ==
    \A a, b \in DOMAIN kept : kept[a] = kept[b] /\ a[4] = b[4] => a = b

\* What the model was told is done has a row, and two things it was told are done have
\* one each as long as no round runs again.
DifferentThingsAreKept ==
    \A d, e \in answered :
        /\ d[1][4] # "render" => d[1] \in DOMAIN kept
        /\ d[1] = e[1] /\ mishaps["again"] = 0 => d = e

\* One message reaches the channel a second time only for a lost answer or a round that
\* ran again, not because her own mailbox could not be written.
SegmentsGoOnce ==
    \A id \in DOMAIN segments : segments[id] <= 1 + mishaps["lost"] + mishaps["again"]

\* However a round's tools fail and are repeated, a thing is there once and another
\* thing is not taken for it (life_tools.py).
ToolsCountRight == ThingsLandOnce /\ DifferentThingsAreKept /\ SegmentsGoOnce
================================================================================
