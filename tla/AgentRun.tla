------------------------------- MODULE AgentRun --------------------------------
(***************************************************************************)
(* Agent.run and Agent.stream (agent/core.py, tooling.py, session.py).      *)
(*                                                                         *)
(* A run calls the model until it asks for no more tools, dispatches what   *)
(* it asks for one by one, and writes the round back to the session when    *)
(* all is over.  A transient failure starts the whole loop again: always in *)
(* run, in stream only while nothing was handed to the consumer.            *)
(***************************************************************************)
EXTENDS Naturals, Sequences

CONSTANTS
    MaxRetries,     \* attempts of a run
    RecursionLimit, \* model turns of an attempt
    EmptyAttempts,  \* _EMPTY_TURN_MAX_ATTEMPTS
    MaxMessages,    \* TRANSCRIPT_MAX_MESSAGES
    MaxAsks,       \* bound on the tool calls of a turn
    MaxRuns,        \* bound on runs of the session
    RunLimit        \* bound on each of RunEvents

\* A turn asks for fewer tools than a transcript keeps messages.
ASSUME AgentAssumption ==
    /\ {MaxRetries, RecursionLimit, EmptyAttempts, MaxMessages} \subseteq Nat \ {0}
    /\ MaxAsks \in 1 .. MaxMessages - 1

\* A transient error; any other error; the write-back fails; the consumer leaves; a
\* transcript has more than TRANSCRIPT_MAX_BYTES.
RunEvents == {"transient", "error", "persist", "leave", "bytes"}

\* A tool that acts, an unknown tool or arguments that do not bind, no_reply.
CallKinds == {"acts", "refused", "no_reply"}

VARIABLES
    transcript,     \* the session's newest version
    run,            \* the run under way
    runs,           \* runs so far
    setbacks        \* how often each of RunEvents happened

agentVars == <<transcript, run, runs, setbacks>>

\* A message: asks is how many tools an assistant turn asks for.
M(role, asks) == [role |-> role, asks |-> asks]
User == M("user", 0)
Tool == M("tool", 0)
Reply == M("assistant", 0)

\* tries: samples of this turn; todo: calls still to dispatch; given: a chunk went to
\* the consumer; acted: tools that acted in this attempt; again: those of attempts
\* that were thrown away.
NoRun == [pc |-> "idle", kind |-> "run", session |-> FALSE, attempt |-> 0, turn |-> 0,
          tries |-> 0, todo |-> <<>>, sink |-> <<>>, given |-> FALSE, acted |-> 0, again |-> 0]

AgentTypeOK ==
    /\ transcript \in Seq([role : {"user", "assistant", "tool"}, asks : 0 .. MaxAsks])
    /\ Len(transcript) <= MaxMessages
    /\ run.pc \in {"idle", "model", "tools", "persist"}
    /\ run.kind \in {"run", "stream"}
    /\ run.attempt \in 0 .. MaxRetries /\ run.turn \in 0 .. RecursionLimit
    /\ run.tries \in 0 .. EmptyAttempts
    /\ run.pc = "tools" => run.todo # <<>>

AgentInit ==
    /\ transcript = <<>>
    /\ run = NoRun /\ runs = 0
    /\ setbacks = [e \in RunEvents |-> 0]

Setback(e) == setbacks[e] < RunLimit[e] /\ setbacks' = [setbacks EXCEPT ![e] = @ + 1]
RunAt(pc) == run.pc = pc
RunGoes(new) == run' = [f \in DOMAIN run |-> IF f \in DOMAIN new THEN new[f] ELSE run[f]]

--------------------------------------------------------------------------------
\* Agent.run or Agent.stream; no_reply is a tool of the chat agent only, which has no
\* session.
BeginRun ==
    /\ RunAt("idle") /\ runs < MaxRuns
    /\ runs' = runs + 1
    /\ \E kind \in {"run", "stream"}, session \in BOOLEAN :
        RunGoes([pc |-> "model", kind |-> kind, session |-> session, attempt |-> 1, turn |-> 1,
              tries |-> 0, sink |-> <<>>, given |-> FALSE, acted |-> 0, again |-> 0])
    /\ UNCHANGED <<transcript, setbacks>>

\* Every chunk of a stream goes to the consumer as it comes, the bare ones too.
Given == run.given \/ run.kind = "stream"

\* A turn with neither text nor calls is sampled again, and accepted in the end.
EmptyTurn ==
    /\ RunAt("model")
    /\ \E given \in {run.given, Given} :
        IF run.tries + 1 < EmptyAttempts
          THEN RunGoes([tries |-> run.tries + 1, given |-> given])
          ELSE RunGoes([pc |-> "persist", sink |-> Append(run.sink, Reply), given |-> given])
    /\ UNCHANGED <<transcript, runs, setbacks>>

\* The final reply.
FinalTurn ==
    /\ RunAt("model")
    /\ RunGoes([pc |-> "persist", sink |-> Append(run.sink, Reply), given |-> Given])
    /\ UNCHANGED <<transcript, runs, setbacks>>

Asked == {kinds \in UNION {[1 .. n -> CallKinds] : n \in 1 .. MaxAsks} :
            run.session => \A i \in DOMAIN kinds : kinds[i] # "no_reply"}

\* The model asks for tools.
ToolTurn ==
    /\ RunAt("model")
    /\ \E kinds \in Asked :
        RunGoes([pc |-> "tools", todo |-> kinds, given |-> Given,
              sink |-> Append(run.sink, M("assistant", Len(kinds)))])
    /\ UNCHANGED <<transcript, runs, setbacks>>

\* The turn after the last call: another one, or the limit, with no final reply.
AfterLastCall == IF run.turn < RecursionLimit THEN [pc |-> "model", turn |-> run.turn + 1, tries |-> 0]
            ELSE [pc |-> "persist", turn |-> run.turn, tries |-> 0]

\* Calls are dispatched in turn.  What cannot be called becomes a result the model
\* sees; no_reply ends the run, whatever calls are left.
Dispatch ==
    /\ RunAt("tools")
    /\ LET kind == Head(run.todo)
           sink == Append(run.sink, Tool)
           acted == run.acted + (IF kind = "acts" THEN 1 ELSE 0)
           last == Len(run.todo) = 1
       IN IF kind = "no_reply"
            THEN RunGoes([pc |-> "persist", todo |-> <<>>, acted |-> acted, sink |-> Append(sink, Reply)])
            ELSE RunGoes([pc |-> IF last THEN AfterLastCall.pc ELSE "tools",
                       turn |-> IF last THEN AfterLastCall.turn ELSE run.turn,
                       tries |-> IF last THEN AfterLastCall.tries ELSE run.tries,
                       todo |-> Tail(run.todo), acted |-> acted, sink |-> sink])
    /\ UNCHANGED <<transcript, runs, setbacks>>

MayRetry(given) == run.attempt < MaxRetries /\ (run.kind = "stream" => ~given)

\* The model call, or a tool that does not turn its errors into results, fails; the
\* tool may have acted.  A retry begins with the first turn and an empty sink.
Transient ==
    /\ RunAt("model") \/ RunAt("tools")
    /\ Setback("transient")
    /\ \E acted \in {run.acted, run.acted + (IF RunAt("tools") THEN 1 ELSE 0)}, given \in {run.given, Given} :
        IF MayRetry(given)
          THEN RunGoes([pc |-> "model", attempt |-> run.attempt + 1, turn |-> 1, tries |-> 0,
                     todo |-> <<>>, sink |-> <<>>, acted |-> 0, again |-> run.again + acted])
          ELSE run' = NoRun
    /\ UNCHANGED <<transcript, runs>>

\* Any other exception leaves the run; the consumer of a stream may close it.
RunRaises ==
    /\ \/ (RunAt("model") \/ RunAt("tools")) /\ Setback("error")
       \/ ~RunAt("idle") /\ run.kind = "stream" /\ Setback("leave")
    /\ run' = NoRun
    /\ UNCHANGED <<transcript, runs>>

--------------------------------------------------------------------------------
Drops(s, n) == SubSeq(s, n + 1, Len(s))

\* The oldest messages that are too many.
TooMany(s) == IF Len(s) > MaxMessages THEN Len(s) - MaxMessages ELSE 0

\* Wrong variant: the cap cuts and looks at nothing else.
CapBluntly(s, cut) == Drops(s, cut)

\* _cap_transcript from a cut on: the tool results whose request went go too; the newest
\* message stays.
CapFrom(s, cut) ==
    LET boundary == CHOOSE n \in cut .. Len(s) - 1 :
                        /\ n = Len(s) - 1 \/ s[n + 1].role # "tool"
                        /\ \A i \in cut .. n - 1 : s[i + 1].role = "tool"
    IN Drops(s, boundary)

\* The round is written back once, when all is over.  A transcript that has too many bytes
\* is cut further, wherever that is; a failing write is logged.
PersistRound ==
    /\ RunAt("persist")
    /\ \/ ~run.session /\ UNCHANGED <<transcript, setbacks>>
       \/ run.session /\ Setback("persist") /\ UNCHANGED transcript
       \/ /\ run.session
          /\ LET new == transcript \o <<User>> \o run.sink IN
             \/ /\ transcript' = IF TooMany(new) = 0 THEN new ELSE CapFrom(new, TooMany(new))
                /\ UNCHANGED setbacks
             \/ /\ Setback("bytes")
                /\ \E cut \in TooMany(new) + 1 .. Len(new) - 1 : transcript' = CapFrom(new, cut)
    /\ run' = NoRun
    /\ UNCHANGED runs

AgentNext ==
    \/ BeginRun \/ EmptyTurn \/ FinalTurn \/ ToolTurn \/ Dispatch
    \/ Transient \/ RunRaises \/ PersistRound

AgentSpec == AgentInit /\ [][AgentNext]_agentVars
--------------------------------------------------------------------------------
\* What a provider accepts: a tool result only right after the turn that asked for
\* it, and one for each of its calls.
Replayable(s) ==
    \A i \in DOMAIN s :
        /\ s[i].role = "tool" =>
            \E j \in 1 .. i - 1 :
                /\ s[j].role = "assistant" /\ i - j <= s[j].asks
                /\ \A k \in j + 1 .. i - 1 : s[k].role = "tool"
        /\ \A n \in 1 .. s[i].asks : i + n \in DOMAIN s /\ s[i + n].role = "tool"

\* Whatever runs fail, are retried, stop at their limit or lose their write-back, and
\* wherever the cap cuts: the session can be given back to the model.  One message may be
\* the exception: when its bytes leave only the newest message of a round that ended on a
\* tool result, the cap keeps the orphan.
TranscriptsReplay ==
    \/ Replayable(transcript)
    \/ /\ setbacks["bytes"] > 0
       /\ transcript[1].role = "tool" /\ Replayable(Tail(transcript))

\* A stream that starts again has not done anything yet; what a run repeats is paid
\* for by a transient failure.
StreamsActOnce ==
    /\ run.kind = "stream" => run.again = 0
    /\ run.again > 0 => setbacks["transient"] > 0 /\ run.attempt > 1
================================================================================
