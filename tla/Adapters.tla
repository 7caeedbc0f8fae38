-------------------------------- MODULE Adapters -------------------------------
(***************************************************************************)
(* The model adapters (agent/neutral.py, agent/adapters/openai.py,          *)
(* agent/adapters/gemini.py): a conversation in neutral messages is          *)
(* translated to the provider's wire for every request, and what the         *)
(* provider streams is put together again into neutral messages.              *)
(*                                                                         *)
(* A session is kept between wakes and may be given to another provider.     *)
(* Texts, images and arguments are there or not; a call is told apart by     *)
(* the turn and the position it was made in.                                 *)
(***************************************************************************)
EXTENDS Integers, Sequences, FiniteSetsExt

CONSTANTS
    NoValue,
    MaxReadings, MaxTurns, MaxCalls,   \* bounds on wakes, requests and calls of the session
    MaxPieces,              \* bound on the pieces of a call's arguments
    MaxCuts                 \* bound on streams that end without a finish_reason

\* No name, id or finish_reason is the missing one.
ASSUME AdapterAssumption ==
    /\ NoValue \notin Nat \X Nat /\ NoValue \notin {"stop", "length"}
    /\ MaxPieces \in Nat /\ MaxCalls \in Nat

Providers == {"openai", "deepseek", "google"}

VARIABLES
    convo,      \* the neutral messages of the session and of the wake
    stream,     \* the request under way, or the last one
    woken, cuts,
    signed      \* history: names of the calls Gemini signed

adapterVars == <<convo, stream, woken, cuts, signed>>

\* A content is a string or a list of blocks.
Content(list, blocks) == [list |-> list, blocks |-> blocks]
Empty == Content(FALSE, <<>>)
Contents == {Content(FALSE, <<"text">>), Content(TRUE, <<"text", "image">>)}

Neutral(role, content) ==
    [role |-> role, content |-> content, reasoning |-> FALSE, calls |-> <<>>, answers |-> NoValue]

\* A stream: the calls the model means, the fragments or parts of each that came, and
\* what the adapter has handed on.
NoStream == [at |-> "idle", provider |-> "openai", turn |-> 0, meant |-> <<>>, heard |-> <<>>,
             calls |-> <<>>, finish |-> NoValue]

AdapterInit ==
    /\ convo = <<Neutral("system", Content(FALSE, <<"text">>))>>
    /\ stream = NoStream /\ woken = 0 /\ cuts = 0 /\ signed = {}

--------------------------------------------------------------------------------
(* The session: to_replay_dict and from_replay_dict.                         *)

Without(f, keys) == [k \in DOMAIN f \ keys |-> f[k]]

\* What a chat completion, or the trace, takes of a call.
Unsigned(call) == Without(call, {"signature"})

StoredCall(call) == Without(call, IF call.signature = NoValue THEN {"signature"} ELSE {})

\* What is empty is left out of the JSON.
StoredMessage(m) ==
    Without([m EXCEPT !.calls = [i \in DOMAIN @ |-> StoredCall(@[i])]],
            (IF m.reasoning THEN {} ELSE {"reasoning"}) \cup (IF m.calls = <<>> THEN {"calls"} ELSE {})
            \cup (IF m.answers = NoValue THEN {"answers"} ELSE {}))

Get(dict, key, default) == IF key \in DOMAIN dict THEN dict[key] ELSE default

LoadedMessage(d) ==
    [role |-> d.role, content |-> d.content, reasoning |-> Get(d, "reasoning", FALSE),
     answers |-> Get(d, "answers", NoValue),
     calls |-> LET calls == Get(d, "calls", <<>>) IN
        [i \in DOMAIN calls |->
            [id |-> calls[i].id, name |-> calls[i].name, args |-> calls[i].args,
             signature |-> Get(calls[i], "signature", NoValue)]]]

\* The transcript as the next wake reads it.
Replayed(messages) == [i \in DOMAIN messages |-> LoadedMessage(StoredMessage(messages[i]))]

--------------------------------------------------------------------------------
(* Neutral to wire.                                                         *)

\* Blocks of a kind are alike here: it is their number that counts.
OfKind(blocks, kind) == [i \in 1 .. Cardinality({k \in DOMAIN blocks : blocks[k] = kind}) |-> kind]

TextOnly(content) == Content(FALSE, OfKind(content.blocks, "text"))

\* Chat completions: message by message; deepseek takes no list as content and wants its
\* reasoning back.
ChatMessage(m, provider) ==
    [role |-> m.role, answers |-> m.answers,
     content |-> IF provider = "deepseek" THEN TextOnly(m.content) ELSE m.content,
     reasoning |-> m.reasoning /\ provider = "deepseek",
     calls |-> [i \in DOMAIN m.calls |-> Unsigned(m.calls[i])]]

ChatMessages(messages, provider) ==
    [i \in DOMAIN messages |-> ChatMessage(messages[i], provider)]

Part(kind, name, signature) == [kind |-> kind, name |-> name, signature |-> signature]
Plain(kind) == Part(kind, NoValue, NoValue)

\* A string that is empty is no part.
ContentParts(content) == [i \in DOMAIN content.blocks |-> Plain(content.blocks[i])]
CallPart(call) == Part("call", call.name, call.signature)

\* The name of the last call with this id among some messages.
NameAmong(messages, positions, id) ==
    LET Asks(j, k) == messages[j].calls[k].id = id
        asking == {j \in positions : \E k \in DOMAIN messages[j].calls : Asks(j, k)} IN
    IF asking = {} THEN NoValue
    ELSE messages[Max(asking)].calls[CHOOSE k \in DOMAIN messages[Max(asking)].calls :
                                        Asks(Max(asking), k)].name

\* The name of the call a tool message answers, as known when the walk comes to it.
Named(messages, i) == NameAmong(messages, 1 .. i, messages[i].answers)

\* A tool's images follow its response in the same turn.
ResponseParts(messages, i) ==
    <<Part("response", Named(messages, i), NoValue)>>
    \o ContentParts(Content(TRUE, OfKind(messages[i].content.blocks, "image")))

GeminiParts(messages, i) ==
    IF messages[i].role = "tool" THEN ResponseParts(messages, i)
    ELSE ContentParts(messages[i].content)
         \o [k \in DOMAIN messages[i].calls |-> CallPart(messages[i].calls[k])]

\* Gemini: system messages become the system_instruction, a tool's result is the user's.
Dialogue(messages) == {i \in DOMAIN messages : messages[i].role # "system"}
GeminiContents(messages) ==
    [i \in Dialogue(messages) |->
        [role |-> IF messages[i].role = "assistant" THEN "model" ELSE "user",
         parts |-> GeminiParts(messages, i)]]

--------------------------------------------------------------------------------
(* Wire to neutral.                                                         *)

Whole(i) == stream.heard[i] = stream.meant[i].pieces + 1

\* _parse_args: a piece of JSON is no JSON, and what does not parse is no arguments.
Args(i) == IF Whole(i) /\ stream.meant[i].pieces > 0 THEN "given" ELSE "none"

\* Ids tell the calls of a turn apart; Gemini may leave them out, then they are made up.
Called(i) ==
    [id |-> IF stream.meant[i].named THEN <<0, i>> ELSE <<stream.turn, i>>,
     name |-> <<stream.turn, i>>, args |-> Args(i),
     signature |-> IF stream.provider = "google" THEN <<stream.turn, i>> ELSE NoValue]

\* The calls of which the fragment with the id came, in order of index.
Begun == {i \in DOMAIN stream.meant : stream.heard[i] > 0}
Flushed == [k \in 1 .. Cardinality(Begun) |->
               Called(CHOOSE i \in Begun : Cardinality({j \in Begun : j <= i}) = k)]

\* A wake reads the session and adds what it has to say.
ReadSession ==
    /\ stream.at = "idle" /\ woken < MaxReadings
    /\ woken' = woken + 1
    /\ convo' = Append(Replayed(convo), Neutral("user", Content(TRUE, <<"text", "image">>)))
    /\ \E provider \in Providers :
        stream' = [NoStream EXCEPT !.at = "asks", !.provider = provider, !.turn = stream.turn]
    /\ UNCHANGED <<cuts, signed>>

\* The request is sent, and the model makes up its mind.  Only Gemini leaves ids out and
\* hands its arguments over in one piece.
Request ==
    /\ stream.at = "asks" /\ stream.turn < MaxTurns
    /\ \E n \in 0 .. MaxCalls - Cardinality({i \in DOMAIN convo : convo[i].role = "tool"}) :
       \E meant \in [1 .. n -> [pieces : 0 .. MaxPieces, named : BOOLEAN]] :
        /\ \A i \in 1 .. n : IF stream.provider = "google" THEN meant[i].pieces <= 1 ELSE meant[i].named
        /\ stream' = [NoStream EXCEPT
               !.at = "streams", !.provider = stream.provider, !.turn = stream.turn + 1,
               !.meant = meant, !.heard = [i \in 1 .. n |-> 0]]
    /\ UNCHANGED <<convo, woken, cuts, signed>>

\* A delta of a chat completion: the next fragment of some call, the first with its id
\* and name.  Fragments of several calls may alternate.
Delta(i) ==
    /\ stream.at = "streams" /\ stream.provider # "google" /\ ~Whole(i)
    /\ stream' = [stream EXCEPT !.heard[i] = @ + 1]
    /\ UNCHANGED <<convo, woken, cuts, signed>>

\* A function_call part of Gemini is whole and handed on at once.
FunctionCall(i) ==
    /\ stream.at = "streams" /\ stream.provider = "google" /\ stream.heard[i] = 0
    /\ \A j \in 1 .. i - 1 : Whole(j)
    /\ LET heard == [stream EXCEPT !.heard[i] = stream.meant[i].pieces + 1] IN
        stream' = [heard EXCEPT !.calls = Append(@, [Called(i) EXCEPT
                      !.args = IF stream.meant[i].pieces > 0 THEN "given" ELSE "none"])]
    /\ signed' = signed \cup {<<stream.turn, i>>}
    /\ UNCHANGED <<convo, woken, cuts>>

\* The turn as the agent keeps it, and a result for each of its calls.
Turn(said, reasoning, calls) ==
    [Neutral("assistant", IF said THEN Content(FALSE, <<"text">>) ELSE Empty) EXCEPT
        !.reasoning = reasoning, !.calls = calls]
Results(calls, content) ==
    [i \in DOMAIN calls |-> [Neutral("tool", content) EXCEPT !.answers = calls[i].id]]

\* Text and thoughts that came with it are kept; a plain chat completion has no thoughts.
TurnEnds(calls, finish) ==
    /\ \E content \in (IF calls = <<>> THEN {Empty} ELSE Contents), said \in BOOLEAN,
          reasoning \in (IF stream.provider = "openai" THEN {FALSE} ELSE BOOLEAN) :
        convo' = convo \o <<Turn(said, reasoning, calls)>> \o Results(calls, content)
    /\ stream' = [stream EXCEPT !.at = IF calls = <<>> THEN "idle" ELSE "asks",
                                !.calls = calls, !.finish = finish]

\* What a finish_reason brings: the assembler's calls, of which Gemini needs none.
Emitted == IF stream.provider = "google" THEN stream.calls ELSE Flushed

\* The model has said everything; or it ran into max_tokens, wherever that is.
FinishTurn ==
    /\ stream.at = "streams"
    /\ \E finish \in {"stop", "length"} :
        /\ finish = "stop" => \A i \in DOMAIN stream.meant : Whole(i)
        /\ TurnEnds(Emitted, finish)
    /\ UNCHANGED <<woken, cuts, signed>>

\* The stream ends without a finish_reason: calls that wait for it are never handed on.
Cut ==
    /\ stream.at = "streams" /\ cuts < MaxCuts
    /\ cuts' = cuts + 1
    /\ TurnEnds(stream.calls, NoValue)
    /\ UNCHANGED <<woken, signed>>

AdapterNext ==
    \/ ReadSession \/ Request \/ FinishTurn \/ Cut
    \/ \E i \in DOMAIN stream.meant : Delta(i) \/ FunctionCall(i)

AdapterSpec == AdapterInit /\ [][AdapterNext]_adapterVars
--------------------------------------------------------------------------------
\* Types.
AdapterTypeOK ==
    /\ \A i \in DOMAIN convo :
        /\ convo[i].role \in {"system", "user", "assistant", "tool"}
        /\ convo[i].content \in Contents \cup {Empty, Content(FALSE, <<"text">>)} /\ convo[i].reasoning \in BOOLEAN
        /\ \A k \in DOMAIN convo[i].calls : convo[i].calls[k].args \in {"given", "none"}
    /\ stream.at \in {"idle", "asks", "streams"} /\ stream.provider \in Providers
    /\ \A i \in DOMAIN stream.meant : stream.heard[i] \in 0 .. stream.meant[i].pieces + 1

\* However its fragments alternate, a turn the model finished has the calls it meant, in
\* its order, each with all of its arguments.
CallsAreTheModels ==
    stream.finish = "stop" =>
        /\ Len(stream.calls) = Len(stream.meant)
        /\ \A i \in DOMAIN stream.meant :
            /\ stream.calls[i].name = <<stream.turn, i>>
            /\ stream.calls[i].args = IF stream.meant[i].pieces > 0 THEN "given" ELSE "none"

\* The call the message at i answers: results follow their turn in the order of its calls.
TurnBefore(i) == Max({j \in 1 .. i : convo[j].role = "assistant"})
Answered(i) == convo[TurnBefore(i)].calls[i - TurnBefore(i)]

\* Whichever provider gets the conversation next: a result is named after the call it
\* answers and brings its images, a call Gemini signed has its signature after any number
\* of wakes, deepseek gets no list and every thought.
RequestsAreFaithful ==
    stream.at = "asks" =>
        LET contents == GeminiContents(convo)
            flat == ChatMessages(convo, "deepseek")
            Images(content) == {k \in DOMAIN content.blocks : content.blocks[k] = "image"}
            Shown(parts) == {k \in DOMAIN parts : parts[k].kind = "image"} IN
        \A i \in DOMAIN convo :
            /\ convo[i].role = "tool" =>
                /\ contents[i].parts[1].name = Answered(i).name
                /\ Cardinality(Shown(contents[i].parts)) = Cardinality(Images(convo[i].content))
            /\ convo[i].role = "assistant" => \A k \in DOMAIN contents[i].parts :
                LET part == contents[i].parts[k] IN
                part.kind = "call" =>
                    part.signature = IF part.name \in signed THEN part.name ELSE NoValue
            /\ ~flat[i].content.list
            /\ flat[i].content.blocks = <<>> <=> convo[i].content = Empty
            /\ flat[i].reasoning = convo[i].reasoning
================================================================================
