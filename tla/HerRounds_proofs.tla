---------------------------- MODULE HerRounds_proofs ----------------------------
(***************************************************************************)
(* Proofs about a persona's rounds and what runs beside them: the tools of   *)
(* a round, her notebook, a reply in a chat, and the reviews of her days and *)
(* weeks; for every set of tools, entries, parts, days, sweepers and dates   *)
(* and every bound.                                                        *)
(***************************************************************************)
EXTENDS LifeTools, Notebook, Chat, HerDays, TLAPS

(***************************************************************************)
(* The tools of a round                                                    *)
(***************************************************************************)
Effects == {"act", "note", "jot", "letter", "read", "speech", "meta", "render", "segment", "own"}
Ids == Nat \X Counters \X Nat \X Effects

\* What a call may still have to do.
Turns(tool) ==
    CASE tool = "chat" -> {Spoken, <<"meta">>}
      [] tool \in {"user", "group"} -> {Sent, <<"segment", "own">>, <<"own">>}
      [] tool \in {"act", "note", "jot", "letter", "read"} -> {<<tool>>}

ToolsTyped ==
    /\ hand \in [n : Nat, pc : {"off", "on", "failed"}, count : [Counters -> Nat]]
    /\ call # NoCall =>
        /\ call \in [tool : Tools, seq : Nat, thing : 1 .. things, steps : Turns(call.tool)]
        /\ hand.pc = "on"
    /\ failed \in [Counters -> 0 .. things]
    /\ DOMAIN kept \subseteq Ids /\ \A id \in DOMAIN kept : kept[id] \in 1 .. things
    /\ DOMAIN segments \subseteq Ids /\ \A id \in DOMAIN segments : segments[id] \in Nat
    /\ answered \subseteq Ids \X Nat
    /\ facts \subseteq Facts /\ things \in Nat
    /\ mishaps \in [ToolEvents -> Nat]

\* The number a call of this counter has in the round.
Place(c, thing) == IF c = "read" THEN thing ELSE hand.count[c] + 1
At(id, c, seq) == id[1] = hand.n /\ id[2] = c /\ id[3] = seq

\* The rows of a thing have one number in one round; so have those of what is under way
\* and of what has failed, and what has failed for one counter is not what another is at.
OnePlace ==
    /\ \A a, b \in DOMAIN kept : kept[a] = kept[b] => a[1] = b[1] /\ a[2] = b[2] /\ a[3] = b[3]
    /\ \A a \in DOMAIN kept : a[2] = "read" => a[3] = kept[a]
    /\ ~Idle =>
        /\ call.seq = Place(Counter(call.tool), call.thing)
        /\ \A a \in DOMAIN kept : kept[a] = call.thing => At(a, Counter(call.tool), call.seq)
        /\ \A c \in Counters : failed[c] = call.thing => c = Counter(call.tool)
    /\ \A c \in Counters : failed[c] # 0 =>
        /\ \A a \in DOMAIN kept : kept[a] = failed[c] => At(a, c, Place(c, failed[c]))
        /\ \A b \in Counters : failed[b] = failed[c] => b = c

\* What a call has done is stored; an answer came with its number.
RowsInTurn ==
    /\ ~Idle /\ call.steps = <<"meta">> => CallId("speech") \in DOMAIN kept
    /\ \A d \in answered : d[1][4] # "render" => d[1] \in DOMAIN kept
    /\ \A d \in answered : d[1][2] = "read" => d[1][3] = d[2]

\* Without a round that runs again, numbers are given once.
NumbersGivenOnce ==
    mishaps["again"] = 0 =>
        /\ hand.pc # "failed"
        /\ \A d \in answered :
            /\ d[1][1] <= hand.n
            /\ d[1][1] = hand.n /\ d[1][2] # "read" => d[1][3] <= hand.count[d[1][2]]
        /\ \A d, e \in answered : d[1] = e[1] => d = e

\* What may still be sent in this round has been sent as often as something went wrong.
Slips == mishaps["lost"] + mishaps["again"]
MayBeSent(id) ==
    /\ id[1] = hand.n
    /\ hand.pc = "failed" \/ (hand.pc = "on" /\ id[3] > hand.count[id[2]]
                                /\ ~(call.steps = <<"own">> /\ id[3] = call.seq))
SegmentsBounded ==
    \A id \in DOMAIN segments :
        /\ id[1] <= hand.n /\ id[2] = "send"
        /\ segments[id] <= 1 + Slips
        /\ MayBeSent(id) => segments[id] <= Slips

ToolsIInv == ToolsTyped /\ OnePlace /\ RowsInTurn /\ NumbersGivenOnce /\ SegmentsBounded

--------------------------------------------------------------------------------
LEMMA ToolFacts ==
    ASSUME ToolsAssumption, NEW tool \in Tools
    PROVE  /\ tool \in ToolNames /\ Counter(tool) \in Counters
           /\ Counter(tool) = "read" <=> tool = "read"
           /\ Counter(tool) = "send" <=> tool \in {"letter", "user", "group"}
           /\ Steps(tool) \in Turns(tool) /\ Steps(tool)[1] \in Effects
BY DEF ToolsAssumption, ToolNames, Counter, Counters, Steps, Turns, Effects, Spoken, Sent

LEMMA CallFacts ==
    ASSUME ToolsAssumption, ToolsTyped, ~Idle
    PROVE  /\ call.tool \in Tools /\ Counter(call.tool) \in Counters
           /\ call.seq \in Nat /\ call.thing \in 1 .. things /\ call.thing \in Nat /\ call.thing # 0
           /\ hand.pc = "on" /\ hand.n \in Nat /\ hand.count \in [Counters -> Nat]
           /\ call.steps \in Turns(call.tool)
           /\ call = [tool |-> call.tool, seq |-> call.seq, thing |-> call.thing, steps |-> call.steps]
<1>1. call \in [tool : Tools, seq : Nat, thing : 1 .. things, steps : Turns(call.tool)] /\ hand.pc = "on"
    BY DEF ToolsTyped, Idle
<1>2. things \in Nat /\ hand.n \in Nat /\ hand.count \in [Counters -> Nat]
    BY DEF ToolsTyped
<1> QED BY <1>1, <1>2, ToolFacts

\* The effect that is due, what is left after it, and what it belongs to.
EffectDue ==
    \/ /\ call.tool \in {"act", "note", "jot", "letter", "read"}
       /\ Effect = call.tool /\ Len(call.steps) = 1 /\ call.steps = Steps(call.tool)
       /\ Steps(call.tool)[1] = Effect
    \/ /\ call.tool = "chat" /\ Effect = "speech" /\ Len(call.steps) = 2
       /\ Tail(call.steps) = <<"meta">>
    \/ /\ call.tool = "chat" /\ Effect = "meta" /\ Len(call.steps) = 1
       /\ call.steps = <<"meta">> /\ Steps(call.tool)[1] = "speech"
    \/ /\ call.tool \in {"user", "group"} /\ Effect = "render" /\ Len(call.steps) = 3
       /\ Tail(call.steps) = <<"segment", "own">>
    \/ /\ call.tool \in {"user", "group"} /\ Effect = "segment" /\ Len(call.steps) = 2
       /\ Tail(call.steps) = <<"own">>
    \/ /\ call.tool \in {"user", "group"} /\ Effect = "own" /\ Len(call.steps) = 1
       /\ call.steps = <<"own">> /\ Steps(call.tool)[1] = "render"

LEMMA EffectIsDue ==
    ASSUME ToolsAssumption, ToolsTyped, ~Idle
    PROVE  EffectDue
<1>1. call.tool \in ToolNames /\ call.steps \in Turns(call.tool)
    BY CallFacts, ToolFacts
<1>2. CASE call.tool \in {"act", "note", "jot", "letter", "read"}
    <2>1. call.steps = <<call.tool>> /\ Steps(call.tool) = <<call.tool>>
        BY <1>1, <1>2 DEF Turns, Steps
    <2> QED BY <1>2, <2>1 DEF EffectDue, Effect
<1>3. CASE call.tool = "chat"
    <2>1. Steps(call.tool) = <<"speech", "meta">> /\ (call.steps = <<"speech", "meta">> \/ call.steps = <<"meta">>)
        BY <1>1, <1>3 DEF Turns, Steps, Spoken
    <2>2. CASE call.steps = <<"speech", "meta">>
        <3>1. Head(call.steps) = "speech" /\ Len(call.steps) = 2 /\ Tail(call.steps) = <<"meta">>
            BY <2>2
        <3> QED BY <1>3, <3>1 DEF EffectDue, Effect
    <2>3. CASE call.steps = <<"meta">>
        <3>1. Head(call.steps) = "meta" /\ Len(call.steps) = 1 /\ Steps(call.tool)[1] = "speech"
            BY <2>1, <2>3
        <3> QED BY <1>3, <2>3, <3>1 DEF EffectDue, Effect
    <2> QED BY <2>1, <2>2, <2>3
<1>4. CASE call.tool \in {"user", "group"}
    <2>1. /\ Steps(call.tool) = <<"render", "segment", "own">>
          /\ \/ call.steps = <<"render", "segment", "own">>
             \/ call.steps = <<"segment", "own">> \/ call.steps = <<"own">>
        BY <1>1, <1>4 DEF Turns, Steps, Sent
    <2>2. CASE call.steps = <<"render", "segment", "own">>
        <3>1. Head(call.steps) = "render" /\ Len(call.steps) = 3 /\ Tail(call.steps) = <<"segment", "own">>
            BY <2>2
        <3> QED BY <1>4, <3>1 DEF EffectDue, Effect
    <2>3. CASE call.steps = <<"segment", "own">>
        <3>1. Head(call.steps) = "segment" /\ Len(call.steps) = 2 /\ Tail(call.steps) = <<"own">>
            BY <2>3
        <3> QED BY <1>4, <3>1 DEF EffectDue, Effect
    <2>4. CASE call.steps = <<"own">>
        <3>1. Head(call.steps) = "own" /\ Len(call.steps) = 1 /\ Steps(call.tool)[1] = "render"
            BY <2>1, <2>4
        <3> QED BY <1>4, <2>4, <3>1 DEF EffectDue, Effect
    <2> QED BY <2>1, <2>2, <2>3, <2>4
<1> QED BY <1>1, <1>2, <1>3, <1>4 DEF ToolNames

\* A call that is on its way to its next effect.
LEMMA WayOn ==
    ASSUME ToolsAssumption, ToolsTyped, ~Idle, Len(call.steps) # 1
    PROVE  Tail(call.steps) \in Turns(call.tool)
<1>1. EffectDue
    BY EffectIsDue
<1> QED BY <1>1 DEF EffectDue, Turns

LEMMA CallIds ==
    ASSUME ToolsAssumption, ToolsTyped, ~Idle, NEW e \in Effects
    PROVE  /\ CallId(e) \in Ids /\ CallId(e) = <<hand.n, Counter(call.tool), call.seq, e>>
           /\ CallId(e)[1] = hand.n /\ CallId(e)[2] = Counter(call.tool) /\ CallId(e)[3] = call.seq
           /\ CallId(e)[4] = e
BY CallFacts DEF CallId, Id, Ids

\* A row is added under its id if there is none.
RowAdded(x) ==
    /\ Effect \notin {"render", "segment"} /\ x \notin DOMAIN kept
    /\ DOMAIN kept' = DOMAIN kept \cup {x} /\ kept'[x] = call.thing
    /\ \A id \in DOMAIN kept : kept'[id] = kept[id]

LEMMA RowsStored ==
    ASSUME Stored, NEW x, x = CallId(Effect)
    PROVE  /\ kept' = kept \/ RowAdded(x)
           /\ Effect \notin {"render", "segment"} => x \in DOMAIN kept'
BY DEF Stored, RowAdded

SegmentAdded(x) ==
    /\ Effect = "segment"
    /\ DOMAIN segments' = DOMAIN segments \cup {x}
    /\ segments'[x] = (IF x \in DOMAIN segments THEN segments[x] + 1 ELSE 1)
    /\ \A id \in DOMAIN segments : id # x => segments'[id] = segments[id]

LEMMA SegmentsStored ==
    ASSUME ToolsTyped, Stored, NEW x, x = CallId(Effect)
    PROVE  (Effect # "segment" /\ segments' = segments) \/ SegmentAdded(x)
<1>1. \A id \in DOMAIN segments : segments[id] \in Nat
    BY DEF ToolsTyped
<1> QED BY <1>1 DEF Stored, SegmentAdded

LEMMA MishapCounts ==
    ASSUME ToolsTyped, NEW k \in ToolEvents, Mishap(k)
    PROVE  /\ mishaps' \in [ToolEvents -> Nat] /\ mishaps'[k] = mishaps[k] + 1
           /\ \A e \in ToolEvents \ {k} : mishaps'[e] = mishaps[e]
BY DEF ToolsTyped, Mishap

--------------------------------------------------------------------------------
\* How a call goes on after an effect: to the next one, to the answer, or the model is
\* told that it failed.
GoesOn == call' = [call EXCEPT !.steps = Tail(@)] /\ Len(call.steps) # 1 /\ UNCHANGED <<hand, failed, answered>>
TellsFailure ==
    /\ call' = NoCall
    /\ failed' = [failed EXCEPT ![Counter(call.tool)] = call.thing]
    /\ UNCHANGED <<hand, answered>>
Outcome == GoesOn \/ (Answer /\ Len(call.steps) = 1) \/ TellsFailure

LEMMA GoingOn ==
    ASSUME ToolsAssumption, ToolsTyped, ~Idle, GoesOn
    PROVE  /\ ~Idle' /\ call'.tool = call.tool /\ call'.seq = call.seq /\ call'.thing = call.thing
           /\ call'.steps = Tail(call.steps) /\ call'.steps \in Turns(call.tool)
<1>1. /\ call'.tool = call.tool /\ call'.seq = call.seq /\ call'.thing = call.thing
      /\ call'.steps = Tail(call.steps)
    BY CallFacts DEF GoesOn
<1>2. Tail(call.steps) \in Turns(call.tool)
    BY WayOn DEF GoesOn
<1>3. call.tool \in ToolNames
    BY CallFacts, ToolFacts
<1>4. NoCall.tool = "none"
    BY DEF NoCall
<1>5. ~Idle'
    BY <1>1, <1>3, <1>4 DEF Idle, ToolNames
<1> QED BY <1>1, <1>2, <1>5

LEMMA Answering ==
    ASSUME ToolsAssumption, ToolsTyped, ~Idle, Answer, NEW c \in Counters, c = Counter(call.tool)
    PROVE  /\ call' = NoCall
           /\ hand' \in [n : Nat, pc : {"off", "on", "failed"}, count : [Counters -> Nat]]
           /\ hand'.n = hand.n /\ hand'.pc = "on"
           /\ hand'.count[c] = (IF c = "read" THEN hand.count[c] ELSE call.seq)
           /\ \A d \in Counters : d # c => hand'.count[d] = hand.count[d]
           /\ failed' = [failed EXCEPT ![c] = 0]
           /\ answered' = answered \cup {<<CallId(Steps(call.tool)[1]), call.thing>>}
<1>1. /\ call.tool \in Tools /\ call.seq \in Nat /\ hand.pc = "on"
      /\ hand \in [n : Nat, pc : {"off", "on", "failed"}, count : [Counters -> Nat]]
    BY CallFacts DEF ToolsTyped
<1>2. c = "read" <=> call.tool = "read"
    BY <1>1, ToolFacts
<1>3. hand' = (IF call.tool # "read" THEN [hand EXCEPT !.count[c] = call.seq] ELSE hand)
    BY DEF Answer, Count, Counts
<1>4. /\ hand' \in [n : Nat, pc : {"off", "on", "failed"}, count : [Counters -> Nat]]
      /\ hand'.n = hand.n /\ hand'.pc = "on"
      /\ hand'.count[c] = (IF c = "read" THEN hand.count[c] ELSE call.seq)
      /\ \A d \in Counters : d # c => hand'.count[d] = hand.count[d]
    BY <1>1, <1>2, <1>3
<1> QED BY <1>4 DEF Answer

\* What an effect leaves well typed.
LEMMA EffectTyped ==
    ASSUME ToolsAssumption, ToolsTyped, ~Idle, Outcome, NEW x, x = CallId(Effect),
           kept' = kept \/ RowAdded(x), segments' = segments \/ SegmentAdded(x),
           UNCHANGED <<facts, things>>, mishaps' \in [ToolEvents -> Nat]
    PROVE  ToolsTyped'
<1>1. EffectDue
    BY EffectIsDue
<1>2. Effect \in Effects
    BY <1>1 DEF EffectDue, Effects
<1>3. x \in Ids
    BY <1>2, CallIds
<1>4. PICK c \in Counters : c = Counter(call.tool)
    BY CallFacts
<1>5. call.thing \in 1 .. things /\ things \in Nat
    BY CallFacts DEF ToolsTyped
<1>6. DOMAIN kept' \subseteq Ids /\ \A id \in DOMAIN kept' : kept'[id] \in 1 .. things
    BY <1>3, <1>5 DEF ToolsTyped, RowAdded
<1>7. DOMAIN segments' \subseteq Ids /\ \A id \in DOMAIN segments' : segments'[id] \in Nat
    BY <1>3 DEF ToolsTyped, SegmentAdded
<1>8. failed' \in [Counters -> 0 .. things]
    BY <1>4, <1>5, Answering DEF ToolsTyped, Outcome, GoesOn, TellsFailure, Answer
<1>9. hand' \in [n : Nat, pc : {"off", "on", "failed"}, count : [Counters -> Nat]]
    BY <1>4, Answering DEF ToolsTyped, Outcome, GoesOn, TellsFailure
<1>10. answered' \subseteq Ids \X Nat
    <2>1. CASE Answer
        <3>1. Steps(call.tool)[1] \in Effects
            BY CallFacts, ToolFacts
        <3>2. CallId(Steps(call.tool)[1]) \in Ids
            BY <3>1, CallIds
        <3>3. answered' = answered \cup {<<CallId(Steps(call.tool)[1]), call.thing>>}
            BY <2>1 DEF Answer
        <3> QED BY <1>5, <3>2, <3>3 DEF ToolsTyped
    <2> QED BY <2>1 DEF ToolsTyped, Outcome, GoesOn, TellsFailure
<1>11. call' # NoCall =>
        /\ call' \in [tool : Tools, seq : Nat, thing : 1 .. things, steps : Turns(call'.tool)]
        /\ hand'.pc = "on"
    <2>1. CASE GoesOn
        <3>1. call' = [tool |-> call.tool, seq |-> call.seq, thing |-> call.thing, steps |-> Tail(call.steps)]
            BY <2>1, CallFacts DEF GoesOn
        <3>2. Tail(call.steps) \in Turns(call.tool)
            BY <2>1, WayOn DEF GoesOn
        <3>3. call.tool \in Tools /\ call.seq \in Nat /\ hand.pc = "on"
            BY CallFacts
        <3>4. PICK st \in Turns(call.tool) : st = Tail(call.steps)
            BY <3>2
        <3>5. PICK tl \in Tools : tl = call.tool
            BY <3>3
        <3>6. call' = [tool |-> tl, seq |-> call.seq, thing |-> call.thing, steps |-> st]
            BY <3>1, <3>4, <3>5
        <3>7. call' \in [tool : Tools, seq : Nat, thing : 1 .. things, steps : Turns(tl)] /\ call'.tool = tl
            BY <1>5, <3>3, <3>4, <3>5, <3>6
        <3> QED BY <2>1, <3>3, <3>7 DEF GoesOn
    <2>2. CASE Answer \/ TellsFailure
        BY <2>2 DEF Answer, TellsFailure
    <2> QED BY <2>1, <2>2 DEF Outcome
<1>12. facts' \subseteq Facts /\ things' \in Nat
    BY DEF ToolsTyped
<1> QED BY <1>6, <1>7, <1>8, <1>9, <1>10, <1>11, <1>12 DEF ToolsTyped

\* The rows of a thing stay in one place.
LEMMA EffectInPlace ==
    ASSUME ToolsAssumption, ToolsTyped, OnePlace, ~Idle, Outcome, NEW x, x = CallId(Effect),
           kept' = kept \/ RowAdded(x), things' = things
    PROVE  OnePlace'
<1>1. Effect \in Effects
    BY EffectIsDue DEF EffectDue, Effects
<1>2. PICK c \in Counters : c = Counter(call.tool)
    BY CallFacts
<1>3. x[1] = hand.n /\ x[2] = c /\ x[3] = call.seq
    BY <1>1, <1>2, CallIds
<1>4. call.thing # 0 /\ call.seq = (IF c = "read" THEN call.thing ELSE hand.count[c] + 1)
    BY <1>2, CallFacts DEF OnePlace, Place
<1>5. \A a \in DOMAIN kept : kept[a] = call.thing => a[1] = hand.n /\ a[2] = c /\ a[3] = call.seq
    BY <1>2 DEF OnePlace, At
<1>6. \A a \in DOMAIN kept' : kept'[a] = call.thing => a[1] = hand.n /\ a[2] = c /\ a[3] = call.seq
    BY <1>3, <1>5 DEF RowAdded
<1>7. \A a \in DOMAIN kept' : kept'[a] # call.thing => a \in DOMAIN kept /\ kept'[a] = kept[a]
    BY DEF RowAdded
<1>8. /\ \A a, b \in DOMAIN kept' : kept'[a] = kept'[b] => a[1] = b[1] /\ a[2] = b[2] /\ a[3] = b[3]
      /\ \A a \in DOMAIN kept' : a[2] = "read" => a[3] = kept'[a]
    <2>1. \A a, b \in DOMAIN kept' : kept'[a] = kept'[b] => a[1] = b[1] /\ a[2] = b[2] /\ a[3] = b[3]
        BY <1>6, <1>7 DEF OnePlace
    <2>2. \A a \in DOMAIN kept' : a[2] = "read" => a[3] = kept'[a]
        BY <1>4, <1>6, <1>7 DEF OnePlace
    <2> QED BY <2>1, <2>2
<1>9. \A d \in Counters : failed[d] = call.thing => d = c
    BY <1>2 DEF OnePlace
<1>10. \A d \in Counters : failed[d] # 0 =>
          \A a \in DOMAIN kept' : kept'[a] = failed[d] =>
              a[1] = hand.n /\ a[2] = d /\ a[3] = (IF d = "read" THEN failed[d] ELSE hand.count[d] + 1)
    <2> SUFFICES ASSUME NEW d \in Counters, failed[d] # 0, NEW a \in DOMAIN kept', kept'[a] = failed[d]
                 PROVE  a[1] = hand.n /\ a[2] = d /\ a[3] = (IF d = "read" THEN failed[d] ELSE hand.count[d] + 1)
        OBVIOUS
    <2>1. CASE failed[d] = call.thing
        BY <1>4, <1>6, <1>9, <2>1
    <2>2. CASE failed[d] # call.thing
        BY <1>7, <2>2 DEF OnePlace, At, Place
    <2> QED BY <2>1, <2>2
<1>11. \A b, d \in Counters : failed[d] # 0 /\ failed[b] = failed[d] => b = d
    BY DEF OnePlace
<1>12. failed \in [Counters -> 0 .. things]
    BY DEF ToolsTyped
<1>13. CASE GoesOn
    <2>1. ~Idle' /\ call'.tool = call.tool /\ call'.seq = call.seq /\ call'.thing = call.thing /\ hand' = hand /\ failed' = failed
        BY <1>13, GoingOn DEF GoesOn
    <2>2. (~Idle => /\ call.seq = Place(Counter(call.tool), call.thing)
                    /\ \A a \in DOMAIN kept : kept[a] = call.thing => At(a, Counter(call.tool), call.seq)
                    /\ \A d \in Counters : failed[d] = call.thing => d = Counter(call.tool))'
        BY <1>2, <1>4, <1>6, <1>9, <2>1 DEF Place, At
    <2> QED BY <1>8, <1>10, <1>11, <2>1, <2>2 DEF OnePlace, At, Place
<1>14. CASE Answer
    <2>1. /\ Idle' /\ hand'.n = hand.n
          /\ \A d \in Counters : d # c => hand'.count[d] = hand.count[d]
          /\ failed' = [failed EXCEPT ![c] = 0]
        BY <1>2, <1>14, Answering DEF Idle
    <2>2. failed'[c] = 0 /\ \A d \in Counters : d # c => failed'[d] = failed[d]
        BY <1>12, <2>1
    <2> QED BY <1>8, <1>10, <1>11, <2>1, <2>2 DEF OnePlace, At, Place
<1>15. CASE TellsFailure
    <2>1. Idle' /\ hand' = hand /\ failed'[c] = call.thing /\ \A d \in Counters : d # c => failed'[d] = failed[d]
        BY <1>2, <1>12, <1>15 DEF TellsFailure, Idle
    <2>2. \A d \in Counters : failed'[d] # 0 =>
              \A a \in DOMAIN kept' : kept'[a] = failed'[d] =>
                  a[1] = hand.n /\ a[2] = d /\ a[3] = (IF d = "read" THEN failed'[d] ELSE hand.count[d] + 1)
        BY <1>4, <1>6, <1>10, <2>1
    <2>3. \A b, d \in Counters : failed'[d] # 0 /\ failed'[b] = failed'[d] => b = d
        BY <1>9, <1>11, <2>1
    <2> QED BY <1>8, <2>1, <2>2, <2>3 DEF OnePlace, At, Place
<1> QED BY <1>13, <1>14, <1>15 DEF Outcome

\* What goes on, or is answered, has been stored; but for her own mailbox.
LEMMA EffectInTurn ==
    ASSUME ToolsAssumption, ToolsTyped, OnePlace, RowsInTurn, ~Idle, Outcome, NEW x, x = CallId(Effect),
           kept' = kept \/ RowAdded(x),
           TellsFailure \/ Effect \in {"own", "render", "segment"} \/ x \in DOMAIN kept'
    PROVE  RowsInTurn'
<1>1. EffectDue
    BY EffectIsDue
<1>2. DOMAIN kept \subseteq DOMAIN kept'
    BY DEF RowAdded
<1>3. NoCall.steps # <<"meta">>
    BY DEF NoCall
<1>4. (~Idle /\ call.steps = <<"meta">> => CallId("speech") \in DOMAIN kept)'
    <2>1. CASE GoesOn
        <3> SUFFICES ASSUME call'.steps = <<"meta">> PROVE CallId("speech")' \in DOMAIN kept'
            OBVIOUS
        <3>1. call'.tool = call.tool /\ call'.seq = call.seq /\ Tail(call.steps) = <<"meta">> /\ hand' = hand
            BY <2>1, GoingOn DEF GoesOn
        <3>2. Effect = "speech"
            BY <1>1, <2>1, <3>1 DEF EffectDue, GoesOn
        <3>3. x \in DOMAIN kept'
            <4>1. ~TellsFailure
                BY <2>1, GoingOn DEF TellsFailure, Idle
            <4> QED BY <3>2, <4>1
        <3>4. CallId("speech")' = x
            BY <3>1, <3>2 DEF CallId, Id
        <3> QED BY <3>3, <3>4
    <2>2. CASE Answer \/ TellsFailure
        BY <2>2 DEF Answer, TellsFailure, Idle
    <2> QED BY <2>1, <2>2 DEF Outcome
<1>5. CASE ~Answer
    <2>1. answered' = answered
        BY <1>5 DEF Outcome, GoesOn, TellsFailure
    <2> QED BY <1>2, <1>4, <2>1 DEF RowsInTurn
<1>6. CASE Answer
    <2> DEFINE y == CallId(Steps(call.tool)[1])
    <2>1. PICK c \in Counters : c = Counter(call.tool)
        BY CallFacts
    <2>2. answered' = answered \cup {<<y, call.thing>>}
        BY <1>6 DEF Answer
    <2>3. Steps(call.tool)[1] \in Effects
        BY CallFacts, ToolFacts
    <2>4. y[2] = c /\ y[3] = call.seq /\ y[4] = Steps(call.tool)[1]
        BY <2>1, <2>3, CallIds
    <2>5. y[2] = "read" => y[3] = call.thing
        BY <2>1, <2>4 DEF OnePlace, Place
    <2>6. y[4] # "render" => y \in DOMAIN kept'
        <3>1. ~TellsFailure
            BY <1>6, <2>1, <2>2, CallFacts, Answering DEF TellsFailure, ToolsTyped
        <3>2. CASE Effect = "own"
            BY <1>1, <2>4, <3>2 DEF EffectDue
        <3>3. CASE Len(call.steps) = 1 /\ Effect = "meta"
            <4>1. Steps(call.tool)[1] = "speech" /\ call.steps = <<"meta">>
                BY <1>1, <3>3 DEF EffectDue
            <4> QED BY <1>2, <4>1 DEF RowsInTurn
        <3>4. CASE Steps(call.tool)[1] = Effect /\ Effect \notin {"own", "render", "segment"}
            BY <3>1, <3>4
        <3>5. Len(call.steps) = 1
            BY <1>6, <3>1, GoingOn DEF Outcome, Answer, Idle
        <3> QED BY <1>1, <3>2, <3>3, <3>4, <3>5 DEF EffectDue
    <2> HIDE DEF y
    <2> QED BY <1>2, <1>4, <2>2, <2>5, <2>6 DEF RowsInTurn
<1> QED BY <1>5, <1>6

\* An answer has the next number of its counter, or that of its book.
LEMMA EffectGivenOnce ==
    ASSUME ToolsAssumption, ToolsTyped, OnePlace, RowsInTurn, NumbersGivenOnce, ~Idle, Outcome,
           mishaps'["again"] = mishaps["again"]
    PROVE  NumbersGivenOnce'
<1> SUFFICES ASSUME mishaps["again"] = 0
             PROVE  /\ hand'.pc # "failed"
                    /\ \A d \in answered' :
                        /\ d[1][1] <= hand'.n
                        /\ d[1][1] = hand'.n /\ d[1][2] # "read" => d[1][3] <= hand'.count[d[1][2]]
                    /\ \A d, e \in answered' : d[1] = e[1] => d = e
    BY DEF NumbersGivenOnce
<1>1. /\ hand.pc # "failed"
      /\ \A d \in answered :
          /\ d[1][1] <= hand.n
          /\ d[1][1] = hand.n /\ d[1][2] # "read" => d[1][3] <= hand.count[d[1][2]]
      /\ \A d, e \in answered : d[1] = e[1] => d = e
    BY DEF NumbersGivenOnce
<1>2. CASE GoesOn \/ TellsFailure
    BY <1>1, <1>2 DEF GoesOn, TellsFailure
<1>3. CASE Answer
    <2>1. PICK c \in Counters : c = Counter(call.tool)
        BY CallFacts
    <2>2. PICK y : y = CallId(Steps(call.tool)[1])
        OBVIOUS
    <2>3. y[1] = hand.n /\ y[2] = c /\ y[3] = call.seq
        <3>1. Steps(call.tool)[1] \in Effects
            BY CallFacts, ToolFacts
        <3> QED BY <2>1, <2>2, <3>1, CallIds
    <2>4. /\ hand'.n = hand.n /\ hand'.pc = "on"
          /\ hand'.count[c] = (IF c = "read" THEN hand.count[c] ELSE call.seq)
          /\ \A d \in Counters : d # c => hand'.count[d] = hand.count[d]
          /\ answered' = answered \cup {<<y, call.thing>>}
        BY <1>3, <2>1, <2>2, Answering
    <2>5. call.seq = (IF c = "read" THEN call.thing ELSE hand.count[c] + 1) /\ hand.count[c] \in Nat /\ hand.n \in Nat
        BY <2>1, CallFacts DEF OnePlace, Place
    <2>6. \A d \in answered : d[1] \in Ids /\ d[1][2] \in Counters /\ d[1][3] \in Nat
        BY DEF ToolsTyped, Ids
    <2>7. ASSUME NEW d \in answered, d[1] = y PROVE d = <<y, call.thing>>
        <3>1. c = "read"
            BY <1>1, <2>3, <2>5, <2>7
        <3>2. d[1][3] = d[2]
            BY <2>3, <2>7, <3>1 DEF RowsInTurn
        <3>3. d \in Ids \X Nat
            BY DEF ToolsTyped
        <3> QED BY <2>3, <2>5, <2>7, <3>1, <3>2, <3>3
    <2>8. ASSUME NEW d \in answered'
          PROVE  /\ d[1][1] <= hand'.n
                 /\ d[1][1] = hand'.n /\ d[1][2] # "read" => d[1][3] <= hand'.count[d[1][2]]
        <3>1. CASE d = <<y, call.thing>>
            BY <2>3, <2>4, <2>5, <3>1
        <3>2. CASE d \in answered
            <4>1. CASE d[1][2] = c
                BY <1>1, <2>4, <2>5, <2>6, <3>2, <4>1
            <4>2. CASE d[1][2] # c
                BY <1>1, <2>4, <2>6, <3>2, <4>2
            <4> QED BY <4>1, <4>2
        <3> QED BY <2>4, <2>8, <3>1, <3>2
    <2>9. ASSUME NEW d \in answered', NEW e \in answered', d[1] = e[1] PROVE d = e
        BY <1>1, <2>4, <2>7, <2>9
    <2> QED BY <2>4, <2>8, <2>9
<1> QED BY <1>2, <1>3 DEF Outcome

\* A segment goes out where one may be sent; then none may any more, or something went
\* wrong.
LEMMA EffectBounded ==
    ASSUME ToolsAssumption, ToolsTyped, OnePlace, SegmentsBounded, ~Idle, Outcome, NEW x, x = CallId(Effect),
           (Effect # "segment" /\ segments' = segments) \/ SegmentAdded(x) \/ (segments' = segments /\ TellsFailure),
           Effect = "own" => Answer, Effect = "segment" => GoesOn \/ TellsFailure,
           Slips' = Slips \/ (Slips' = Slips + 1 /\ ~GoesOn),
           SegmentAdded(x) => GoesOn \/ Slips' = Slips + 1, Slips \in Nat
    PROVE  SegmentsBounded'
<1>1. EffectDue
    BY EffectIsDue
<1>2. PICK c \in Counters : c = Counter(call.tool)
    BY CallFacts
<1>3. Effect \in Effects
    BY <1>1 DEF EffectDue, Effects
<1>4. x \in Ids /\ x[1] = hand.n /\ x[2] = c /\ x[3] = call.seq
    BY <1>2, <1>3, CallIds
<1>5. /\ hand.pc = "on" /\ hand.n \in Nat /\ hand.count \in [Counters -> Nat] /\ call.seq \in Nat
      /\ call.seq = (IF c = "read" THEN call.thing ELSE hand.count[c] + 1)
    BY <1>2, CallFacts DEF OnePlace, Place
<1>6. Effect \in {"segment", "own"} => c = "send"
    BY <1>1, <1>2, CallFacts, ToolFacts DEF EffectDue
<1>7. \A id \in DOMAIN segments : id \in Ids /\ id[2] \in Counters /\ id[3] \in Nat /\ segments[id] \in Nat
    BY DEF ToolsTyped, Ids
<1>8. NoCall.steps # <<"own">>
    BY DEF NoCall
<1>9. hand'.n = hand.n /\ hand'.pc = "on" /\ \A d \in Counters : d # "read" => hand'.count[d] \in Nat /\ hand'.count[d] >= hand.count[d]
    BY <1>2, <1>5, Answering DEF Outcome, GoesOn, TellsFailure
<1>10. \A id \in DOMAIN segments : /\ id[1] <= hand.n /\ id[2] = "send"
                                   /\ segments[id] <= 1 + Slips
                                   /\ MayBeSent(id) => segments[id] <= Slips
    BY DEF SegmentsBounded
<1>11. \A id \in DOMAIN segments : MayBeSent(id)' => MayBeSent(id)
    <2> SUFFICES ASSUME NEW id \in DOMAIN segments, MayBeSent(id)' PROVE MayBeSent(id)
        OBVIOUS
    <2>1. id[1] = hand.n /\ id[2] = "send" /\ id[3] > hand'.count["send"] /\ "send" \in Counters
        BY <1>7, <1>9, <1>10 DEF MayBeSent
    <2>2. id[3] > hand.count["send"] /\ hand.count["send"] \in Nat
        BY <1>5, <1>7, <1>9, <2>1
    <2>3. ~(call.steps = <<"own">> /\ id[3] = call.seq)
        <3> SUFFICES ASSUME call.steps = <<"own">>, id[3] = call.seq PROVE FALSE
            OBVIOUS
        <3>1. Effect = "own"
            BY <1>1 DEF EffectDue, Effect
        <3>2. hand'.count["send"] = call.seq
            BY <1>2, <1>6, <3>1, Answering
        <3> QED BY <1>5, <2>1, <3>2
    <2> QED BY <1>5, <2>1, <2>2, <2>3 DEF MayBeSent
<1>12. CASE segments' = segments
    <2>1. Slips' = Slips \/ Slips' = Slips + 1
        OBVIOUS
    <2> QED BY <1>7, <1>9, <1>10, <1>11, <1>12, <2>1 DEF SegmentsBounded
<1>13. CASE SegmentAdded(x)
    <2>1. Effect = "segment" /\ c = "send"
        BY <1>6, <1>13 DEF SegmentAdded
    <2>2. call.steps # <<"own">>
        BY <1>1, <2>1 DEF EffectDue, Effect
    <2>3. MayBeSent(x)
        BY <1>4, <1>5, <2>1, <2>2 DEF MayBeSent
    <2>4. segments'[x] \in Nat /\ segments'[x] <= 1 + Slips
        BY <1>7, <1>10, <1>13, <2>3 DEF SegmentAdded
    <2>5. CASE GoesOn
        <3>1. Slips' = Slips /\ call'.steps = <<"own">> /\ call'.seq = call.seq
            BY <1>1, <2>1, <2>5, GoingOn DEF EffectDue
        <3>2. ~MayBeSent(x)'
            BY <1>4, <1>9, <3>1 DEF MayBeSent
        <3>3. \A id \in DOMAIN segments' : id = x \/ (id \in DOMAIN segments /\ segments'[id] = segments[id])
            BY <1>13 DEF SegmentAdded
        <3>4. ASSUME NEW id \in DOMAIN segments'
              PROVE  /\ id[1] <= hand'.n /\ id[2] = "send" /\ segments'[id] <= 1 + Slips'
                     /\ MayBeSent(id)' => segments'[id] <= Slips'
            <4>1. CASE id = x
                BY <1>4, <1>5, <1>9, <2>1, <2>4, <3>1, <3>2, <4>1
            <4>2. CASE id # x
                BY <1>9, <1>10, <1>11, <3>1, <3>3, <3>4, <4>2
            <4> QED BY <4>1, <4>2
        <3> QED BY <3>4 DEF SegmentsBounded
    <2>6. CASE ~GoesOn
        <3>1. Slips' = Slips + 1
            BY <1>13, <2>6
        <3>2. \A id \in DOMAIN segments' : id = x \/ (id \in DOMAIN segments /\ segments'[id] = segments[id])
            BY <1>13 DEF SegmentAdded
        <3>3. ASSUME NEW id \in DOMAIN segments'
              PROVE  id[1] <= hand'.n /\ id[2] = "send" /\ segments'[id] <= Slips' /\ segments'[id] <= 1 + Slips'
            <4>1. CASE id = x
                BY <1>4, <1>5, <1>9, <2>1, <2>4, <3>1, <4>1
            <4>2. CASE id # x
                BY <1>7, <1>9, <1>10, <3>1, <3>2, <3>3, <4>2
            <4> QED BY <4>1, <4>2
        <3> QED BY <3>3 DEF SegmentsBounded
    <2> QED BY <2>5, <2>6
<1> QED BY <1>12, <1>13

--------------------------------------------------------------------------------
LEMMA NothingUnderWay == NoCall.steps = <<>> /\ NoCall.tool = "none" /\ <<>> # <<"own">> /\ <<>> # <<"meta">>
BY DEF NoCall

LEMMA SlipsTyped == ASSUME ToolsTyped PROVE Slips \in Nat
BY DEF ToolsTyped, Slips, ToolEvents

LEMMA ToolsInitially ==
    ASSUME ToolsAssumption, ToolsInit PROVE ToolsIInv
<1>1. ToolsTyped
    BY DEF ToolsTyped, ToolsInit
<1>2. OnePlace /\ RowsInTurn
    BY DEF ToolsInit, OnePlace, RowsInTurn, Idle
<1>3. NumbersGivenOnce /\ SegmentsBounded
    BY DEF ToolsInit, NumbersGivenOnce, SegmentsBounded
<1> QED BY <1>1, <1>2, <1>3 DEF ToolsIInv

\* A round begins, or begins again: its numbers start anew, so that nothing has failed and
\* every segment that it sent before may be sent once more.
LEMMA BuildToolsKeeps ==
    ASSUME ToolsAssumption, ToolsIInv, BuildTools PROVE ToolsIInv'
<1> USE DEF ToolsIInv
<1>1. /\ hand.pc # "on" /\ hand.n \in Nat /\ hand.pc \in {"off", "failed"}
      /\ UNCHANGED <<call, kept, segments, answered, facts, things, mishaps>>
    BY DEF BuildTools, ToolsTyped
<1>2. call = NoCall
    BY <1>1 DEF ToolsTyped
<1>3. PICK k \in Nat : k = (IF hand.pc = "off" THEN hand.n + 1 ELSE hand.n)
    BY <1>1
<1>4. hand' = [n |-> k, pc |-> "on", count |-> [c \in Counters |-> 0]] /\ failed' = [c \in Counters |-> 0]
    BY <1>3 DEF BuildTools
<1>5. hand'.n = k /\ hand'.pc = "on" /\ hand' \in [n : Nat, pc : {"off", "on", "failed"}, count : [Counters -> Nat]]
    BY <1>4
<1>6. ToolsTyped'
    BY <1>1, <1>2, <1>4, <1>5 DEF ToolsTyped
<1>7. OnePlace' /\ RowsInTurn'
    BY <1>1, <1>2, <1>4 DEF OnePlace, RowsInTurn, Idle
<1>8. \A d \in answered : d[1] \in Ids /\ d[1][1] \in Nat
    BY DEF ToolsTyped, Ids
<1>9. NumbersGivenOnce'
    <2> SUFFICES ASSUME mishaps["again"] = 0 PROVE NumbersGivenOnce'
        BY <1>1 DEF NumbersGivenOnce
    <2>1. k = hand.n + 1
        BY <1>1, <1>3 DEF NumbersGivenOnce
    <2>2. \A d \in answered : d[1][1] <= k /\ d[1][1] # k
        BY <1>1, <1>8, <2>1 DEF NumbersGivenOnce
    <2> QED BY <1>1, <1>5, <2>2 DEF NumbersGivenOnce
<1>10. SegmentsBounded'
    <2>1. \A id \in DOMAIN segments : id[1] \in Nat /\ segments[id] \in Nat
        BY DEF ToolsTyped, Ids
    <2>2. Slips' = Slips /\ Slips \in Nat
        BY <1>1, SlipsTyped DEF Slips
    <2>3. ASSUME NEW id \in DOMAIN segments
          PROVE  id[1] <= k /\ id[2] = "send" /\ segments[id] <= 1 + Slips /\ (id[1] = k => segments[id] <= Slips)
        BY <1>1, <1>3, <2>1, <2>3 DEF SegmentsBounded, MayBeSent
    <2> QED BY <1>1, <1>5, <2>2, <2>3 DEF SegmentsBounded, MayBeSent
<1> QED BY <1>6, <1>7, <1>9, <1>10

LEMMA LeaveToolsKeeps ==
    ASSUME ToolsAssumption, ToolsIInv, LeaveTools PROVE ToolsIInv'
<1> USE DEF ToolsIInv
<1>1. /\ call = NoCall /\ hand' = [hand EXCEPT !.pc = "off"]
      /\ UNCHANGED <<call, failed, kept, segments, answered, facts, things, mishaps>>
    BY DEF LeaveTools, Idle
<1>2. /\ hand' \in [n : Nat, pc : {"off", "on", "failed"}, count : [Counters -> Nat]]
      /\ hand'.n = hand.n /\ hand'.pc = "off" /\ hand'.count = hand.count
    BY <1>1 DEF ToolsTyped
<1>3. ToolsTyped'
    BY <1>1, <1>2 DEF ToolsTyped
<1>4. OnePlace' /\ RowsInTurn' /\ NumbersGivenOnce'
    BY <1>1, <1>2 DEF OnePlace, RowsInTurn, NumbersGivenOnce, Idle, Place, At
<1>5. SegmentsBounded'
    BY <1>1, <1>2 DEF SegmentsBounded, MayBeSent, Slips
<1> QED BY <1>3, <1>4, <1>5

LEMMA RoundBreaksKeeps ==
    ASSUME ToolsAssumption, ToolsIInv, RoundBreaks PROVE ToolsIInv'
<1> USE DEF ToolsIInv
<1>1. /\ hand.pc = "on" /\ hand' = [hand EXCEPT !.pc = "failed"] /\ call' = NoCall /\ Mishap("again")
      /\ UNCHANGED <<failed, kept, segments, answered, facts, things>>
    BY DEF RoundBreaks
<1>2. /\ hand' \in [n : Nat, pc : {"off", "on", "failed"}, count : [Counters -> Nat]]
      /\ hand'.n = hand.n /\ hand'.pc = "failed" /\ hand'.count = hand.count
    BY <1>1 DEF ToolsTyped
<1>3. /\ mishaps' \in [ToolEvents -> Nat] /\ mishaps'["again"] = mishaps["again"] + 1
      /\ mishaps'["lost"] = mishaps["lost"] /\ mishaps["again"] \in Nat /\ mishaps["lost"] \in Nat
    <2>1. "again" \in ToolEvents /\ "lost" \in ToolEvents \ {"again"}
        BY DEF ToolEvents
    <2> QED BY <1>1, <2>1, MishapCounts DEF ToolsTyped
<1>4. ToolsTyped'
    BY <1>1, <1>2, <1>3 DEF ToolsTyped
<1>5. OnePlace' /\ RowsInTurn'
    BY <1>1, <1>2 DEF OnePlace, RowsInTurn, Idle, Place, At
<1>6. NumbersGivenOnce'
    BY <1>3 DEF NumbersGivenOnce
<1>7. SegmentsBounded'
    <2>1. Slips' = Slips + 1 /\ Slips \in Nat
        BY <1>3 DEF Slips
    <2>2. \A id \in DOMAIN segments : segments[id] \in Nat
        BY DEF ToolsTyped
    <2> QED BY <1>1, <1>2, <2>1, <2>2 DEF SegmentsBounded
<1> QED BY <1>4, <1>5, <1>6, <1>7

LEMMA FactChangesKeeps ==
    ASSUME ToolsAssumption, ToolsIInv, FactChanges PROVE ToolsIInv'
<1> USE DEF ToolsIInv
<1>1. /\ Mishap("drift") /\ facts' \subseteq Facts
      /\ UNCHANGED <<hand, call, failed, kept, segments, answered, things>>
    BY DEF FactChanges, ToolsTyped
<1>2. mishaps' \in [ToolEvents -> Nat] /\ mishaps'["again"] = mishaps["again"] /\ mishaps'["lost"] = mishaps["lost"]
    <2>1. "drift" \in ToolEvents /\ "lost" \in ToolEvents \ {"drift"} /\ "again" \in ToolEvents \ {"drift"}
        BY DEF ToolEvents
    <2> QED BY <1>1, <2>1, MishapCounts
<1>3. ToolsTyped'
    BY <1>1, <1>2 DEF ToolsTyped
<1>4. OnePlace' /\ RowsInTurn' /\ NumbersGivenOnce'
    BY <1>1, <1>2 DEF OnePlace, RowsInTurn, NumbersGivenOnce, Idle, Place, At, CallId, Id
<1>5. SegmentsBounded'
    BY <1>1, <1>2 DEF SegmentsBounded, MayBeSent, Slips
<1> QED BY <1>3, <1>4, <1>5

\* A thing that is taken up is new, has failed here, or was done here before.
LEMMA CallKeeps ==
    ASSUME ToolsAssumption, ToolsIInv, Call PROVE ToolsIInv'
<1> USE DEF ToolsIInv
<1>1. /\ hand.pc = "on" /\ call = NoCall
      /\ UNCHANGED <<failed, kept, segments, answered, facts, mishaps>>
    BY DEF Call, Idle
<1>2. PICK tool \in Tools : \E thing \in {t \in Chosen(tool) : t <= MaxThings} :
            /\ call' = [tool |-> tool, seq |-> Seq1(tool, thing), thing |-> thing, steps |-> Steps(tool)]
            /\ things' = IF thing > things THEN thing ELSE things
            /\ Count("call", tool, Seq1(tool, thing))
    BY DEF Call
<1>3. PICK thing \in Chosen(tool) :
            /\ call' = [tool |-> tool, seq |-> Seq1(tool, thing), thing |-> thing, steps |-> Steps(tool)]
            /\ things' = IF thing > things THEN thing ELSE things
            /\ Count("call", tool, Seq1(tool, thing))
    BY <1>2
<1>4. hand' = hand
    BY <1>3 DEF Count, Counts
<1>5. PICK c \in Counters : c = Counter(tool) /\ (c = "read" <=> tool = "read")
    BY ToolFacts
<1>6. things \in Nat /\ failed \in [Counters -> 0 .. things] /\ hand.count \in [Counters -> Nat] /\ hand.n \in Nat
    BY DEF ToolsTyped
<1>7. \A id \in DOMAIN kept : kept[id] \in 1 .. things
    BY DEF ToolsTyped
<1>8. PICK place : place = Id(tool, Seq1(tool, 0), Steps(tool)[1])
    OBVIOUS
<1>9. \/ thing = things + 1
      \/ thing = failed[c] /\ failed[c] # 0
      \/ place \in DOMAIN kept /\ thing = kept[place]
    BY <1>3, <1>5, <1>6, <1>8 DEF Chosen
<1>10. thing \in Nat /\ thing # 0
    BY <1>6, <1>7, <1>9
<1>11. PICK seq \in Nat : seq = (IF c = "read" THEN thing ELSE hand.count[c] + 1)
    BY <1>6, <1>10
<1>12. Seq1(tool, thing) = seq /\ Seq1(tool, 0) = (IF c = "read" THEN 0 ELSE seq)
    BY <1>5, <1>11 DEF Seq1
<1>13. call' = [tool |-> tool, seq |-> seq, thing |-> thing, steps |-> Steps(tool)]
    BY <1>3, <1>12
<1>14. call'.tool = tool /\ call'.seq = seq /\ call'.thing = thing /\ call'.steps = Steps(tool)
    BY <1>13
<1>15. things' \in Nat /\ thing \in 1 .. things' /\ things <= things'
    BY <1>3, <1>6, <1>10
<1>16. ToolsTyped'
    <2>1. failed' \in [Counters -> 0 .. things'] /\ \A id \in DOMAIN kept' : kept'[id] \in 1 .. things'
        BY <1>1, <1>6, <1>7, <1>15
    <2>2. call' \in [tool : Tools, seq : Nat, thing : 1 .. things', steps : Turns(call'.tool)]
        <3>1. Steps(tool) \in Turns(tool)
            BY ToolFacts
        <3>2. call' \in [tool : Tools, seq : Nat, thing : 1 .. things', steps : Turns(tool)]
            BY <1>13, <1>15, <3>1
        <3> QED BY <1>14, <3>2
    <2> QED BY <1>1, <1>4, <1>15, <2>1, <2>2 DEF ToolsTyped
<1>17. ASSUME NEW a \in DOMAIN kept, kept[a] = thing
       PROVE  a[1] = hand.n /\ a[2] = c /\ a[3] = seq
    <2>1. CASE thing = things + 1
        BY <1>6, <1>7, <1>17, <2>1
    <2>2. CASE thing = failed[c] /\ failed[c] # 0
        BY <1>11, <1>17, <2>2 DEF OnePlace, At, Place
    <2>3. CASE place \in DOMAIN kept /\ thing = kept[place]
        <3>1. a[1] = place[1] /\ a[2] = place[2] /\ a[3] = place[3]
            BY <1>17, <2>3 DEF OnePlace
        <3>2. place[1] = hand.n /\ place[2] = c /\ place[3] = Seq1(tool, 0) /\ place[4] = Steps(tool)[1]
            BY <1>5, <1>8 DEF Id
        <3>3. c # "read"
            BY <1>10, <1>12, <2>3, <3>2 DEF OnePlace
        <3> QED BY <1>12, <3>1, <3>2, <3>3
    <2> QED BY <1>9, <2>1, <2>2, <2>3
<1>18. ASSUME NEW d \in Counters, failed[d] = thing
       PROVE  d = c
    <2>1. CASE thing = things + 1
        BY <1>6, <1>18, <2>1
    <2>2. CASE thing = failed[c]
        BY <1>10, <1>18, <2>2 DEF OnePlace
    <2>3. CASE place \in DOMAIN kept /\ thing = kept[place]
        BY <1>10, <1>17, <1>18, <2>3 DEF OnePlace, At
    <2> QED BY <1>9, <2>1, <2>2, <2>3
<1>19. OnePlace'
    <2>1. (~Idle => /\ call.seq = Place(Counter(call.tool), call.thing)
                    /\ \A a \in DOMAIN kept : kept[a] = call.thing => At(a, Counter(call.tool), call.seq)
                    /\ \A d \in Counters : failed[d] = call.thing => d = Counter(call.tool))'
        BY <1>1, <1>4, <1>5, <1>11, <1>14, <1>17, <1>18 DEF Place, At
    <2> QED BY <1>1, <1>4, <2>1 DEF OnePlace, At, Place
<1>20. RowsInTurn'
    <2>1. call'.steps # <<"meta">>
        <3>1. tool \in ToolNames
            BY ToolFacts
        <3> QED BY <1>14, <3>1 DEF Steps, Spoken, Sent, ToolNames
    <2> QED BY <1>1, <2>1 DEF RowsInTurn
<1>21. NumbersGivenOnce'
    BY <1>1, <1>4 DEF NumbersGivenOnce
<1>22. SegmentsBounded'
    <2>1. \A id : MayBeSent(id)' => MayBeSent(id)
        BY <1>1, <1>4, NothingUnderWay DEF MayBeSent
    <2> QED BY <1>1, <1>4, <2>1 DEF SegmentsBounded, Slips
<1> QED BY <1>16, <1>19, <1>20, <1>21, <1>22

LEMMA WorkKeeps ==
    ASSUME ToolsAssumption, ToolsIInv, Work PROVE ToolsIInv'
<1> USE DEF ToolsIInv
<1>1. ~Idle /\ Stored /\ Goes /\ UNCHANGED <<facts, things, mishaps>>
    BY DEF Work
<1>2. EffectDue
    BY <1>1, EffectIsDue
<1>3. (GoesOn \/ (Answer /\ Len(call.steps) = 1)) /\ (Len(call.steps) # 1 => GoesOn) /\ (Len(call.steps) = 1 => Answer)
    BY <1>1 DEF Goes, GoesOn
<1>4. Outcome
    BY <1>3 DEF Outcome
<1>5. PICK x : x = CallId(Effect)
    OBVIOUS
<1>6. (kept' = kept \/ RowAdded(x)) /\ (Effect \notin {"render", "segment"} => x \in DOMAIN kept')
    BY <1>1, <1>5, RowsStored
<1>7. (Effect # "segment" /\ segments' = segments) \/ SegmentAdded(x)
    BY <1>1, <1>5, SegmentsStored
<1>8. mishaps' \in [ToolEvents -> Nat] /\ Slips' = Slips /\ Slips \in Nat /\ mishaps'["again"] = mishaps["again"]
    BY <1>1, SlipsTyped DEF ToolsTyped, Slips
<1>9. ToolsTyped'
    <2>1. segments' = segments \/ SegmentAdded(x)
        BY <1>7
    <2> QED BY <1>1, <1>4, <1>5, <1>6, <1>8, <2>1, EffectTyped
<1>10. OnePlace'
    BY <1>1, <1>4, <1>5, <1>6, EffectInPlace
<1>11. RowsInTurn'
    BY <1>1, <1>4, <1>5, <1>6, EffectInTurn
<1>12. NumbersGivenOnce'
    BY <1>1, <1>4, <1>8, EffectGivenOnce
<1>13. SegmentsBounded'
    <2>1. (Effect = "own" => Answer) /\ (Effect = "segment" => GoesOn)
        <3>1. (Effect = "own" => Len(call.steps) = 1) /\ (Effect = "segment" => Len(call.steps) = 2)
            BY <1>2, SMTT(20) DEF EffectDue
        <3> QED BY <1>3, <3>1
    <2>2. SegmentAdded(x) => GoesOn
        BY <2>1 DEF SegmentAdded
    <2> QED BY <1>1, <1>4, <1>5, <1>7, <1>8, <2>1, <2>2, EffectBounded
<1> QED BY <1>9, <1>10, <1>11, <1>12, <1>13

LEMMA WorkFailsKeeps ==
    ASSUME ToolsAssumption, ToolsIInv, WorkFails PROVE ToolsIInv'
<1> USE DEF ToolsIInv
<1>1. ~Idle /\ Mishap("fail") /\ Fails /\ UNCHANGED <<kept, segments, facts, things>>
    BY DEF WorkFails
<1>2. EffectDue
    BY <1>1, EffectIsDue
<1>3. IF Effect = "own" THEN Answer ELSE TellsFailure
    BY <1>1 DEF Fails, Swallowed, TellsFailure
<1>4. Outcome
    BY <1>2, <1>3 DEF Outcome, EffectDue
<1>5. PICK x : x = CallId(Effect)
    OBVIOUS
<1>6. /\ mishaps' \in [ToolEvents -> Nat]
      /\ mishaps'["again"] = mishaps["again"] /\ mishaps'["lost"] = mishaps["lost"]
    <2>1. "fail" \in ToolEvents /\ "lost" \in ToolEvents \ {"fail"} /\ "again" \in ToolEvents \ {"fail"}
        BY DEF ToolEvents
    <2> QED BY <1>1, <2>1, MishapCounts
<1>7. Slips' = Slips /\ Slips \in Nat
    BY <1>6, SlipsTyped DEF Slips
<1>8. ToolsTyped'
    BY <1>1, <1>4, <1>5, <1>6, EffectTyped
<1>9. OnePlace'
    BY <1>1, <1>4, <1>5, EffectInPlace
<1>10. RowsInTurn'
    <2>1. TellsFailure \/ Effect \in {"own", "render", "segment"}
        BY <1>3
    <2> QED BY <1>1, <1>4, <1>5, <2>1, EffectInTurn
<1>11. NumbersGivenOnce'
    BY <1>1, <1>4, <1>6, EffectGivenOnce
<1>12. SegmentsBounded'
    <2>1. (Effect = "own" => Answer) /\ (Effect = "segment" => TellsFailure)
        BY <1>3
    <2>2. (Effect # "segment" /\ segments' = segments) \/ (segments' = segments /\ TellsFailure)
        BY <1>1, <1>3
    <2>3. ~SegmentAdded(x)
        <3>1. SegmentAdded(x) => segments'[x] # segments[x] \/ x \notin DOMAIN segments
            BY DEF SegmentAdded, ToolsTyped
        <3> QED BY <1>1, <3>1 DEF SegmentAdded
    <2> QED BY <1>1, <1>4, <1>5, <1>7, <2>1, <2>2, <2>3, EffectBounded
<1> QED BY <1>8, <1>9, <1>10, <1>11, <1>12

LEMMA WorkIsLostKeeps ==
    ASSUME ToolsAssumption, ToolsIInv, WorkIsLost PROVE ToolsIInv'
<1> USE DEF ToolsIInv
<1>1. ~Idle /\ Mishap("lost") /\ Stored /\ Fails /\ UNCHANGED <<facts, things>>
    BY DEF WorkIsLost
<1>2. EffectDue
    BY <1>1, EffectIsDue
<1>3. IF Effect = "own" THEN Answer ELSE TellsFailure
    BY <1>1 DEF Fails, Swallowed, TellsFailure
<1>4. Outcome
    BY <1>2, <1>3 DEF Outcome, EffectDue
<1>5. PICK x : x = CallId(Effect)
    OBVIOUS
<1>6. (kept' = kept \/ RowAdded(x)) /\ (Effect \notin {"render", "segment"} => x \in DOMAIN kept')
    BY <1>1, <1>5, RowsStored
<1>7. (Effect # "segment" /\ segments' = segments) \/ SegmentAdded(x)
    BY <1>1, <1>5, SegmentsStored
<1>8. /\ mishaps' \in [ToolEvents -> Nat] /\ mishaps'["again"] = mishaps["again"]
      /\ mishaps'["lost"] = mishaps["lost"] + 1 /\ mishaps["lost"] \in Nat /\ mishaps["again"] \in Nat
    <2>1. "lost" \in ToolEvents /\ "again" \in ToolEvents \ {"lost"}
        BY DEF ToolEvents
    <2> QED BY <1>1, <2>1, MishapCounts DEF ToolsTyped
<1>9. Slips' = Slips + 1 /\ Slips \in Nat
    BY <1>8 DEF Slips
<1>10. ToolsTyped'
    <2>1. segments' = segments \/ SegmentAdded(x)
        BY <1>7
    <2> QED BY <1>1, <1>4, <1>5, <1>6, <1>8, <2>1, EffectTyped
<1>11. OnePlace'
    BY <1>1, <1>4, <1>5, <1>6, EffectInPlace
<1>12. RowsInTurn'
    BY <1>1, <1>4, <1>5, <1>6, EffectInTurn
<1>13. NumbersGivenOnce'
    BY <1>1, <1>4, <1>8, EffectGivenOnce
<1>14. SegmentsBounded'
    <2>1. (Effect = "own" => Answer) /\ (Effect = "segment" => TellsFailure)
        BY <1>3
    <2>2. ~GoesOn
        BY <1>1, <1>3, GoingOn DEF Answer, TellsFailure, Idle
    <2> QED BY <1>1, <1>4, <1>5, <1>7, <1>9, <2>1, <2>2, EffectBounded
<1> QED BY <1>10, <1>11, <1>12, <1>13, <1>14

LEMMA ToolStepsKeep ==
    ASSUME ToolsAssumption, ToolsIInv, [ToolsNext]_toolVars PROVE ToolsIInv'
<1>1. CASE BuildTools \/ LeaveTools \/ RoundBreaks \/ FactChanges
    BY <1>1, BuildToolsKeeps, LeaveToolsKeeps, RoundBreaksKeeps, FactChangesKeeps
<1>2. CASE Call \/ Work \/ WorkFails \/ WorkIsLost
    BY <1>2, CallKeeps, WorkKeeps, WorkFailsKeeps, WorkIsLostKeeps
<1>3. CASE UNCHANGED toolVars
    BY <1>3 DEF toolVars, ToolsIInv, ToolsTyped, OnePlace, RowsInTurn, NumbersGivenOnce, SegmentsBounded, MayBeSent,
                Slips, Idle, Place, At, CallId, Id
<1> QED BY <1>1, <1>2, <1>3 DEF ToolsNext

\* The tools of a life round count right (life_tools.py): however a thing fails and is
\* repeated its rows are there once, what she was told is done is there, and a message
\* goes out again only for a lost answer or a round that runs again.
THEOREM ToolsAlwaysCountRight == ToolsSpec => []ToolsCountRight
<1> USE ToolsAssumption
<1>1. ToolsInit => ToolsIInv
    BY ToolsInitially
<1>2. ToolsIInv /\ [ToolsNext]_toolVars => ToolsIInv'
    BY ToolStepsKeep
<1>3. ToolsIInv => ToolsCountRight
    <2> SUFFICES ASSUME ToolsIInv PROVE ToolsCountRight
        OBVIOUS
    <2> USE DEF ToolsIInv
    <2>1. ThingsLandOnce
        <3> SUFFICES ASSUME NEW a \in DOMAIN kept, NEW b \in DOMAIN kept, kept[a] = kept[b], a[4] = b[4]
                     PROVE  a = b
            BY DEF ThingsLandOnce
        <3>1. a \in Ids /\ b \in Ids
            BY DEF ToolsTyped
        <3>2. a[1] = b[1] /\ a[2] = b[2] /\ a[3] = b[3]
            BY DEF OnePlace
        <3> QED BY <3>1, <3>2 DEF Ids
    <2>2. DifferentThingsAreKept
        BY DEF DifferentThingsAreKept, RowsInTurn, NumbersGivenOnce
    <2>3. SegmentsGoOnce
        <3>1. mishaps["lost"] \in Nat /\ mishaps["again"] \in Nat
            BY DEF ToolsTyped, ToolEvents
        <3>2. 1 + Slips = 1 + mishaps["lost"] + mishaps["again"]
            BY <3>1 DEF Slips
        <3> QED BY <3>2 DEF SegmentsGoOnce, SegmentsBounded
    <2> QED BY <2>1, <2>2, <2>3 DEF ToolsCountRight
<1> QED BY <1>1, <1>2, <1>3, PTL DEF ToolsSpec

--------------------------------------------------------------------------------
(***************************************************************************)
(* The notebook                                                            *)
(***************************************************************************)
Dicts(values) == UNION {[S -> values] : S \in SUBSET Entries}
EditsUnderWay == {NoEdit} \cup [entry : Entries, old : Versions]
WriterStates == [on : BOOLEAN, dict : Dicts({None} \cup Times), edit : EditsUnderWay]

\* Types; what a dict, an edit, a tick or a node speaks of is written.
NotesTyped ==
    /\ hour \in 0 .. MaxHour
    /\ book \in Dicts(Versions)
    /\ writer \in [Writers -> WriterStates]
    /\ \A w \in Writers :
        /\ DOMAIN writer[w].dict \subseteq Written
        /\ writer[w].edit # NoEdit => writer[w].on /\ writer[w].edit.entry \in Written
        /\ ~writer[w].on => DOMAIN writer[w].dict = {}
    /\ ticks \subseteq [entry : Written, at : Times]
    /\ nodes \subseteq [tick : [entry : Written, at : Times], moved : BOOLEAN]
    /\ reminded \subseteq [entry : Written, at : Times]
    /\ trouble \in [NoteEvents -> Nat]

\* RemindersAreOnTheirWay whatever the status: an entry that was settled may be
\* taken up again, and the tick of its time is not hung out a second time.
Wanted(e) ==
    \/ [entry |-> e, at |-> book[e].remind] \in ticks
    \/ \E w \in Writers : e \in DOMAIN writer[w].dict /\ writer[w].dict[e] = book[e].remind

OnTheirWay == Quiet => \A e \in Written \ crossed : book[e].remind > hour => Wanted(e)

NotesIInv == NotesTyped /\ OnTheirWay /\ RemindersAreCurrent

--------------------------------------------------------------------------------
\* With on a partial function over the entries (Enters, and the writes of the book).
LEMMA WithADict ==
    ASSUME NEW f \in Dicts({None} \cup Times), NEW e \in Entries, NEW v \in {None} \cup Times
    PROVE  /\ With(f, e, v) \in Dicts({None} \cup Times)
           /\ DOMAIN With(f, e, v) = DOMAIN f \cup {e}
<1>1. PICK S \in SUBSET Entries : f \in [S -> {None} \cup Times]
    BY DEF Dicts
<1>2. With(f, e, v) \in [S \cup {e} -> {None} \cup Times]
    BY <1>1 DEF With
<1>3. S \cup {e} \in SUBSET Entries
    OBVIOUS
<1>4. With(f, e, v) \in Dicts({None} \cup Times)
    BY <1>2, <1>3 DEF Dicts
<1> QED BY <1>1, <1>4 DEF With

LEMMA WithABook ==
    ASSUME NEW f \in Dicts(Versions), NEW e \in Entries, NEW v \in Versions
    PROVE  /\ With(f, e, v) \in Dicts(Versions)
           /\ DOMAIN With(f, e, v) = DOMAIN f \cup {e}
<1>1. PICK S \in SUBSET Entries : f \in [S -> Versions]
    BY DEF Dicts
<1>2. With(f, e, v) \in [S \cup {e} -> Versions]
    BY <1>1 DEF With
<1>3. S \cup {e} \in SUBSET Entries
    OBVIOUS
<1>4. With(f, e, v) \in Dicts(Versions)
    BY <1>2, <1>3 DEF Dicts
<1> QED BY <1>1, <1>4 DEF With

LEMMA WithAt ==
    ASSUME NEW f, NEW e, NEW v
    PROVE  /\ With(f, e, v)[e] = v
           /\ \A x \in DOMAIN f \ {e} : With(f, e, v)[x] = f[x]
BY DEF With

\* A value of a partial function is one of its values.
LEMMA DictValues ==
    ASSUME NEW values, NEW f \in Dicts(values)
    PROVE  /\ DOMAIN f \subseteq Entries
           /\ \A x \in DOMAIN f : f[x] \in values
           /\ f \in [DOMAIN f -> values]
BY DEF Dicts

\* Nothing that fails is quiet.
LEMMA TroubleIsLoud ==
    ASSUME NotebookAssumption, trouble \in [NoteEvents -> Nat], NEW k \in NoteEvents, Trouble(k)
    PROVE  ~Quiet' /\ trouble' \in [NoteEvents -> Nat]
BY DEF NotebookAssumption, Trouble, Quiet

\* What the types say of the entries, the dicts and the nodes, one by one.
LEMMA WrittenTyped ==
    ASSUME NotesTyped
    PROVE  /\ book \in Dicts(Versions)
           /\ \A e \in Written : e \in Entries /\ book[e] \in Versions
           /\ \A e \in Written : book[e].remind \in {None} \cup Times
<1>1. book \in Dicts(Versions)
    BY DEF NotesTyped
<1>2. \A e \in Written : e \in Entries /\ book[e] \in Versions
    BY <1>1, DictValues DEF Written
<1> QED BY <1>1, <1>2 DEF Versions

LEMMA NodesTyped ==
    ASSUME NotesTyped, NEW n \in nodes
    PROVE  n.tick.entry \in Written /\ n.tick.at \in Times /\ n.moved \in BOOLEAN
BY DEF NotesTyped

LEMMA NotesInitially ==
    ASSUME NotebookAssumption, NotesInit PROVE NotesIInv
<1>1. book \in Dicts(Versions) /\ Written = {}
    <2>1. <<>> \in [{} -> Versions] /\ DOMAIN <<>> = {}
        OBVIOUS
    <2> QED BY <2>1 DEF NotesInit, Dicts, Written
<1>2. Unstarted \in WriterStates /\ DOMAIN Unstarted.dict = {}
    <2>1. <<>> \in [{} -> {None} \cup Times] /\ DOMAIN <<>> = {}
        OBVIOUS
    <2>2. <<>> \in Dicts({None} \cup Times)
        BY <2>1 DEF Dicts
    <2> QED BY <2>1, <2>2 DEF Unstarted, WriterStates, EditsUnderWay
<1>3. NotesTyped
    BY <1>1, <1>2 DEF NotesInit, NotesTyped, NotebookAssumption, Unstarted
<1> QED BY <1>1, <1>3 DEF NotesInit, NotesIInv, OnTheirWay, RemindersAreCurrent

LEMMA TimePassesKeeps ==
    ASSUME NotebookAssumption, NotesIInv, TimePasses PROVE NotesIInv'
<1>1. NotesTyped'
    BY DEF NotebookAssumption, NotesIInv, NotesTyped, TimePasses, Written
<1>2. hour \in Nat /\ hour' = hour + 1 /\ Times \subseteq Nat
    BY DEF NotebookAssumption, NotesIInv, NotesTyped, TimePasses, Times
<1>3. OnTheirWay'
    <2> SUFFICES ASSUME Quiet, NEW e \in Written \ crossed, book[e].remind > hour'
                 PROVE  Wanted(e)
        BY DEF OnTheirWay, TimePasses, Quiet, Written, Wanted
    <2>0. NotesTyped /\ e \in Written
        BY DEF NotesIInv
    <2>1. book[e].remind \in Nat
        <3>1. book[e].remind \in {None} \cup Times
            BY <2>0, WrittenTyped
        <3> QED BY <3>1 DEF None, Times
    <2>2. book[e].remind > hour
        BY <1>2, <2>1
    <2> QED BY <2>2 DEF OnTheirWay, NotesIInv
<1>4. RemindersAreCurrent'
    <2> SUFFICES ASSUME NEW n \in nodes
                 PROVE  /\ n.tick.at <= hour'
                        /\ ~n.moved => book[n.tick.entry] = [status |-> "active", remind |-> n.tick.at]
        BY DEF RemindersAreCurrent, TimePasses
    <2>1. n.tick.at \in Nat
        BY <1>2, NodesTyped DEF NotesIInv
    <2>2. /\ n.tick.at <= hour
          /\ ~n.moved => book[n.tick.entry] = [status |-> "active", remind |-> n.tick.at]
        BY DEF NotesIInv, RemindersAreCurrent
    <2> QED BY <1>2, <2>1, <2>2
<1> QED BY <1>1, <1>3, <1>4 DEF NotesIInv

LEMMA BeginsKeeps ==
    ASSUME NotebookAssumption, NotesIInv, NEW w \in Writers, Begins(w) PROVE NotesIInv'
<1> USE DEF NotesIInv
<1>1. [Unstarted EXCEPT !.on = TRUE] \in WriterStates
    <2>1. <<>> \in [{} -> {None} \cup Times] /\ DOMAIN <<>> = {}
        OBVIOUS
    <2>2. <<>> \in Dicts({None} \cup Times)
        BY <2>1 DEF Dicts
    <2> QED BY <2>1, <2>2 DEF Unstarted, WriterStates, EditsUnderWay
<1>2. /\ writer'[w] = [Unstarted EXCEPT !.on = TRUE]
      /\ \A v \in Writers \ {w} : writer'[v] = writer[v]
      /\ writer' \in [Writers -> WriterStates]
    BY <1>1 DEF NotesTyped, Begins
<1>3. DOMAIN writer[w].dict = {} /\ DOMAIN writer'[w].dict = {} /\ writer'[w].edit = NoEdit
    BY <1>2 DEF NotesTyped, Begins, Unstarted
<1>4. NotesTyped'
    BY <1>2, <1>3 DEF NotesTyped, Begins, Written
<1>5. OnTheirWay'
    BY <1>2, <1>3 DEF Begins, OnTheirWay, Wanted, Written, Quiet
<1>6. RemindersAreCurrent'
    BY DEF Begins, RemindersAreCurrent
<1> QED BY <1>4, <1>5, <1>6

LEMMA NoteTodoKeeps ==
    ASSUME NotebookAssumption, NotesIInv, NoteTodo PROVE NotesIInv'
<1> USE DEF NotesIInv
<1>1. PICK e \in Entries \ Written, time \in {None} \cup Times :
        /\ book' = With(book, e, [status |-> "active", remind |-> time])
        /\ writer' = IF time = None THEN writer
                     ELSE [writer EXCEPT !["life"].dict = Enters(@, e, time)]
    BY DEF NoteTodo
<1>2. /\ book' \in Dicts(Versions) /\ Written' = Written \cup {e}
      /\ book'[e] = [status |-> "active", remind |-> time]
      /\ \A x \in Written : book'[x] = book[x]
    <2>1. [status |-> "active", remind |-> time] \in Versions
        BY DEF Versions, Statuses
    <2>2. book \in Dicts(Versions) /\ e \in Entries
        BY DEF NotesTyped
    <2> DEFINE v == [status |-> "active", remind |-> time]
    <2>3. v \in Versions
        BY <2>1
    <2>4. book' = With(book, e, v)
        BY <1>1
    <2> HIDE DEF v
    <2>5. With(book, e, v) \in Dicts(Versions)
        BY <2>2, <2>3, WithABook
    <2>7. DOMAIN With(book, e, v) = DOMAIN book \cup {e}
        BY <2>2, <2>3, WithABook
    <2>8. With(book, e, v)[e] = v
        BY <2>2, <2>3, WithAt
    <2>9. \A x \in DOMAIN book \ {e} : With(book, e, v)[x] = book[x]
        BY <2>2, <2>3, WithAt
    <2>6. e \notin DOMAIN book
        BY DEF Written
    <2> QED BY <2>4, <2>5, <2>6, <2>7, <2>8, <2>9 DEF Written, v
<1>3. /\ writer' \in [Writers -> WriterStates]
      /\ writer["life"].on
      /\ \A w \in Writers : /\ writer'[w].on = writer[w].on /\ writer'[w].edit = writer[w].edit
                            /\ DOMAIN writer[w].dict \subseteq DOMAIN writer'[w].dict
                            /\ DOMAIN writer'[w].dict \subseteq DOMAIN writer[w].dict \cup {e}
                            /\ w # "life" => writer'[w] = writer[w]
                            /\ \A x \in DOMAIN writer[w].dict \ {e} : writer'[w].dict[x] = writer[w].dict[x]
      /\ time # None => e \in DOMAIN writer'["life"].dict /\ writer'["life"].dict[e] = time
    <2>1. "life" \in Writers /\ writer["life"] \in WriterStates
        BY DEF Writers, NotesTyped
    <2>2. CASE time = None
        BY <1>1, <2>1, <2>2 DEF NotesTyped, NoteTodo
    <2>3. CASE time # None
        <3> DEFINE d == With(writer["life"].dict, e, time)
        <3>1. /\ d \in Dicts({None} \cup Times) /\ DOMAIN d = DOMAIN writer["life"].dict \cup {e}
              /\ d[e] = time /\ \A x \in DOMAIN writer["life"].dict \ {e} : d[x] = writer["life"].dict[x]
            <4>1. writer["life"].dict \in Dicts({None} \cup Times) /\ e \in Entries
                BY <2>1 DEF WriterStates
            <4>2. d \in Dicts({None} \cup Times)
                BY <4>1, WithADict
            <4>3. DOMAIN d = DOMAIN writer["life"].dict \cup {e}
                BY <4>1, WithADict
            <4> QED BY <4>2, <4>3, WithAt
        <3>2. writer' = [writer EXCEPT !["life"].dict = d]
            BY <1>1, <2>3 DEF Enters
        <3> HIDE DEF d
        <3>3. [writer["life"] EXCEPT !.dict = d] \in WriterStates
            BY <2>1, <3>1 DEF WriterStates
        <3>4. /\ writer'["life"] = [writer["life"] EXCEPT !.dict = d]
              /\ \A w \in Writers \ {"life"} : writer'[w] = writer[w]
              /\ writer' \in [Writers -> WriterStates]
            BY <2>1, <3>2, <3>3 DEF NotesTyped
        <3>5. /\ writer'["life"].dict = d /\ writer'["life"].on = writer["life"].on
              /\ writer'["life"].edit = writer["life"].edit
            BY <2>1, <3>4 DEF WriterStates
        <3> QED BY <3>1, <3>4, <3>5 DEF NoteTodo
    <2> QED BY <2>2, <2>3
<1>4. NotesTyped'
    BY <1>2, <1>3 DEF NotesTyped, NoteTodo, Written
<1>5. OnTheirWay'
    <2> SUFFICES ASSUME Quiet', NEW x \in Written' \ crossed', book'[x].remind > hour'
                 PROVE  Wanted(x)'
        BY DEF OnTheirWay
    <2>1. CASE x = e
        <3>1. time # None
            BY <1>2, <2>1 DEF NotesTyped, NoteTodo, None
        <3> QED BY <1>2, <1>3, <2>1, <3>1 DEF Wanted, Writers
    <2>2. CASE x # e
        <3>1. Wanted(x)
            BY <1>2, <2>2 DEF OnTheirWay, NoteTodo, Quiet
        <3> QED BY <1>2, <1>3, <2>2, <3>1 DEF Wanted, NoteTodo
    <2> QED BY <2>1, <2>2
<1>6. RemindersAreCurrent'
    <2>1. \A n \in nodes : n.tick.entry \in Written
        BY DEF NotesTyped
    <2> QED BY <1>2, <2>1 DEF RemindersAreCurrent, NoteTodo
<1> QED BY <1>4, <1>5, <1>6

LEMMA EditReadsKeeps ==
    ASSUME NotebookAssumption, NotesIInv, NEW w \in Writers, EditReads(w) PROVE NotesIInv'
<1> USE DEF NotesIInv
<1>1. PICK e \in Written : writer' = [writer EXCEPT ![w].edit = [entry |-> e, old |-> book[e]]]
    BY DEF EditReads
<1>2. e \in Entries /\ book[e] \in Versions
    BY DictValues DEF NotesTyped, Written
<1> DEFINE u == [entry |-> e, old |-> book[e]]
<1>3. u \in EditsUnderWay /\ u.entry = e
    BY <1>2 DEF EditsUnderWay
<1>4. writer' = [writer EXCEPT ![w].edit = u]
    BY <1>1
<1> HIDE DEF u
<1>5. /\ writer' \in [Writers -> WriterStates]
      /\ \A v \in Writers : writer'[v].on = writer[v].on /\ writer'[v].dict = writer[v].dict
      /\ \A v \in Writers \ {w} : writer'[v].edit = writer[v].edit
      /\ writer'[w].edit = u
    BY <1>3, <1>4 DEF NotesTyped, WriterStates
<1>6. NotesTyped'
    BY <1>1, <1>3, <1>5 DEF NotesTyped, EditReads, Written
<1>7. OnTheirWay'
    BY <1>5 DEF EditReads, OnTheirWay, Wanted, Written, Quiet
<1>8. RemindersAreCurrent'
    BY DEF EditReads, RemindersAreCurrent
<1> QED BY <1>6, <1>7, <1>8

LEMMA EditWritesKeeps ==
    ASSUME NotebookAssumption, NotesIInv, NEW w \in Writers, EditWrites(w) PROVE NotesIInv'
<1> USE DEF NotesIInv
<1> DEFINE e == writer[w].edit.entry
           old == writer[w].edit.old
<1>1. e \in Written /\ e \in Entries /\ old \in Versions /\ writer[w] \in WriterStates
    <2>1. writer[w] \in WriterStates
        BY DEF NotesTyped
    <2>2. writer[w].edit \in [entry : Entries, old : Versions]
        BY <2>1 DEF WriterStates, EditsUnderWay, EditWrites
    <2> QED BY <2>1, <2>2 DEF NotesTyped, EditWrites
<1>2. PICK status \in {old.status} \cup Statuses, time \in {None} \cup Times, timed \in BOOLEAN :
        /\ book' = [book EXCEPT ![e] = [status |-> status, remind |-> IF timed THEN time ELSE old.remind]]
        /\ writer' = [writer EXCEPT ![w].edit = NoEdit,
                                    ![w].dict = IF timed THEN Enters(@, e, time) ELSE @]
    BY DEF EditWrites
<1>3. crossed' = IF book[e] = old THEN crossed ELSE crossed \cup {e}
    BY DEF EditWrites
<1>4. nodes' = {[n EXCEPT !.moved = n.moved \/ n.tick.entry = e] : n \in nodes}
    BY DEF EditWrites
<1> HIDE DEF e, old
<1>5. /\ book' \in Dicts(Versions) /\ Written' = Written
      /\ book'[e].remind = IF timed THEN time ELSE old.remind
      /\ \A x \in Written \ {e} : book'[x] = book[x]
    <2> DEFINE v == [status |-> status, remind |-> IF timed THEN time ELSE old.remind]
    <2>1. v \in Versions
        BY <1>1 DEF Versions
    <2>2. book' = [book EXCEPT ![e] = v] /\ v.remind = IF timed THEN time ELSE old.remind
        BY <1>2
    <2> HIDE DEF v
    <2>3. PICK S \in SUBSET Entries : book \in [S -> Versions]
        BY DEF Dicts, NotesTyped
    <2>4. book' \in [S -> Versions]
        BY <2>1, <2>2, <2>3
    <2>5. book' \in Dicts(Versions)
        BY <2>4 DEF Dicts
    <2> QED BY <1>1, <2>2, <2>3, <2>4, <2>5 DEF Written
<1>6. /\ writer' \in [Writers -> WriterStates]
      /\ \A v \in Writers : /\ writer'[v].on = writer[v].on
                            /\ DOMAIN writer[v].dict \subseteq DOMAIN writer'[v].dict
                            /\ DOMAIN writer'[v].dict \subseteq DOMAIN writer[v].dict \cup {e}
                            /\ \A x \in DOMAIN writer[v].dict \ {e} : writer'[v].dict[x] = writer[v].dict[x]
                            /\ v # w => writer'[v] = writer[v]
      /\ writer'[w].edit = NoEdit
      /\ timed => e \in DOMAIN writer'[w].dict /\ writer'[w].dict[e] = time
      /\ ~timed => writer'[w].dict = writer[w].dict
    <2> DEFINE d == IF timed THEN With(writer[w].dict, e, time) ELSE writer[w].dict
    <2>1. writer[w].dict \in Dicts({None} \cup Times)
        BY <1>1 DEF WriterStates
    <2>2. d \in Dicts({None} \cup Times)
        BY <1>1, <2>1, WithADict
    <2>3. timed => DOMAIN d = DOMAIN writer[w].dict \cup {e}
        BY <1>1, <2>1, WithADict
    <2>4. /\ \A x \in DOMAIN writer[w].dict \ {e} : d[x] = writer[w].dict[x]
          /\ timed => d[e] = time
          /\ ~timed => d = writer[w].dict
        BY WithAt
    <2>5. writer' = [writer EXCEPT ![w].edit = NoEdit, ![w].dict = d]
        BY <1>2 DEF Enters
    <2> HIDE DEF d
    <2>6. /\ writer'[w] = [on |-> writer[w].on, dict |-> d, edit |-> NoEdit]
          /\ \A v \in Writers \ {w} : writer'[v] = writer[v]
          /\ DOMAIN writer' = Writers
        BY <1>1, <2>5 DEF NotesTyped, WriterStates
    <2>7. [on |-> writer[w].on, dict |-> d, edit |-> NoEdit] \in WriterStates
        BY <1>1, <2>2 DEF WriterStates, EditsUnderWay
    <2>8. writer' \in [Writers -> WriterStates]
        BY <2>5, <2>6, <2>7 DEF NotesTyped
    <2> QED BY <2>3, <2>4, <2>6, <2>8
<1>7. NotesTyped'
    <2>1. nodes' \subseteq [tick : [entry : Written, at : Times], moved : BOOLEAN]
        BY <1>4 DEF NotesTyped
    <2>2. UNCHANGED <<hour, ticks, reminded, trouble>>
        BY DEF EditWrites
    <2>3. ASSUME NEW v \in Writers
          PROVE  /\ DOMAIN writer'[v].dict \subseteq Written
                 /\ writer'[v].edit # NoEdit => writer'[v].on /\ writer'[v].edit.entry \in Written
                 /\ ~writer'[v].on => DOMAIN writer'[v].dict = {}
        <3>1. CASE v # w
            BY <1>6, <3>1 DEF NotesTyped
        <3>2. CASE v = w
            <4>1. writer[w].on /\ DOMAIN writer[w].dict \subseteq Written
                BY DEF NotesTyped, EditWrites
            <4>2. writer'[w].on /\ DOMAIN writer'[w].dict \subseteq Written /\ writer'[w].edit = NoEdit
                BY <1>1, <1>6, <4>1
            <4> QED BY <3>2, <4>2
        <3> QED BY <3>1, <3>2
    <2> QED BY <1>5, <1>6, <2>1, <2>2, <2>3 DEF NotesTyped
<1>8. OnTheirWay'
    <2> SUFFICES ASSUME Quiet', NEW x \in Written' \ crossed', book'[x].remind > hour'
                 PROVE  Wanted(x)'
        BY DEF OnTheirWay
    <2>1. Quiet /\ hour' = hour /\ ticks' = ticks /\ x \in Written \ crossed
        BY <1>3, <1>5 DEF EditWrites, Quiet
    <2>2. CASE x = e /\ timed
        BY <1>5, <1>6, <2>2 DEF Wanted
    <2>3. CASE x = e /\ ~timed
        <3>1. book[e] = old /\ book'[e].remind = book[e].remind
            BY <1>3, <1>5, <2>3
        <3>2. Wanted(e)
            BY <2>1, <2>3, <3>1 DEF OnTheirWay
        <3>3. \A v \in Writers : writer'[v].dict = writer[v].dict
            BY <1>6, <2>3
        <3> QED BY <2>1, <2>3, <3>1, <3>2, <3>3 DEF Wanted
    <2>4. CASE x # e
        <3>1. Wanted(x) /\ book'[x] = book[x]
            BY <1>5, <2>1, <2>4 DEF OnTheirWay
        <3> QED BY <1>6, <2>1, <2>4, <3>1 DEF Wanted
    <2> QED BY <2>2, <2>3, <2>4
<1>9. RemindersAreCurrent'
    <2> SUFFICES ASSUME NEW m \in nodes'
                 PROVE  /\ m.tick.at <= hour'
                        /\ ~m.moved => book'[m.tick.entry] = [status |-> "active", remind |-> m.tick.at]
        BY DEF RemindersAreCurrent
    <2>1. PICK n \in nodes : m = [n EXCEPT !.moved = n.moved \/ n.tick.entry = e]
        BY <1>4
    <2>2. /\ n \in [tick : [entry : Written, at : Times], moved : BOOLEAN]
          /\ n.tick.at <= hour
          /\ ~n.moved => book[n.tick.entry] = [status |-> "active", remind |-> n.tick.at]
        BY DEF RemindersAreCurrent, NotesTyped
    <2>3. m.tick = n.tick /\ (~m.moved => ~n.moved /\ n.tick.entry # e)
        BY <2>1, <2>2
    <2>4. hour' = hour
        BY DEF EditWrites
    <2> QED BY <1>5, <2>2, <2>3, <2>4
<1> QED BY <1>7, <1>8, <1>9

\* What a writer that ends or fails leaves of itself.
LEMMA EditLeaves ==
    ASSUME NotesTyped, NEW w \in Writers, writer' = [writer EXCEPT ![w] = Unstarted]
    PROVE  /\ writer' \in [Writers -> WriterStates]
           /\ writer'[w] = Unstarted
           /\ \A v \in Writers \ {w} : writer'[v] = writer[v]
           /\ \A v \in Writers : /\ DOMAIN writer'[v].dict \subseteq Written
                                 /\ writer'[v].edit # NoEdit => writer'[v].on /\ writer'[v].edit.entry \in Written
                                 /\ ~writer'[v].on => DOMAIN writer'[v].dict = {}
<1>1. <<>> \in [{} -> {None} \cup Times] /\ DOMAIN <<>> = {}
    OBVIOUS
<1>2. <<>> \in Dicts({None} \cup Times)
    BY <1>1 DEF Dicts
<1>3. Unstarted \in WriterStates /\ DOMAIN Unstarted.dict = {} /\ Unstarted.edit = NoEdit
    BY <1>1, <1>2 DEF Unstarted, WriterStates, EditsUnderWay
<1> QED BY <1>3 DEF NotesTyped

LEMMA EndsKeeps ==
    ASSUME NotebookAssumption, NotesIInv, NEW w \in Writers, Ends(w) PROVE NotesIInv'
<1> USE DEF NotesIInv
<1> DEFINE due == {[entry |-> e, at |-> writer[w].dict[e]] :
                        e \in {d \in DOMAIN writer[w].dict : writer[w].dict[d] # None}}
<1>1. \/ ticks' = ticks \cup due /\ UNCHANGED trouble
      \/ \E t \in due : ticks' = ticks \cup (due \ {t}) /\ Trouble("emit")
    BY DEF Ends
<1>2. due \subseteq [entry : Written, at : Times]
    <2>1. writer[w].dict \in Dicts({None} \cup Times) /\ DOMAIN writer[w].dict \subseteq Written
        BY DEF NotesTyped, WriterStates
    <2>2. \A d \in DOMAIN writer[w].dict : writer[w].dict[d] \in {None} \cup Times
        BY <2>1, DictValues
    <2> QED BY <2>1, <2>2
<1>3. \A d \in DOMAIN writer[w].dict :
        writer[w].dict[d] # None => [entry |-> d, at |-> writer[w].dict[d]] \in due
    OBVIOUS
<1> HIDE DEF due
<1>4. /\ ticks' \subseteq [entry : Written, at : Times] /\ ticks \subseteq ticks'
      /\ trouble' \in [NoteEvents -> Nat]
      /\ Quiet' => Quiet /\ ticks' = ticks \cup due
    <2>1. ticks \subseteq [entry : Written, at : Times] /\ trouble \in [NoteEvents -> Nat]
        BY DEF NotesTyped
    <2>2. CASE ticks' = ticks \cup due /\ UNCHANGED trouble
        BY <1>2, <2>1, <2>2 DEF Quiet
    <2>3. CASE \E t \in due : ticks' = ticks \cup (due \ {t}) /\ Trouble("emit")
        <3>1. ~Quiet' /\ trouble' \in [NoteEvents -> Nat]
            BY <2>1, <2>3, TroubleIsLoud DEF NoteEvents
        <3> QED BY <1>2, <2>1, <2>3, <3>1
    <2> QED BY <1>1, <2>2, <2>3
<1>5. NotesTyped'
    BY <1>4, EditLeaves DEF NotesTyped, Ends, Written
<1>6. OnTheirWay'
    <2> SUFFICES ASSUME Quiet', NEW x \in Written \ crossed, book[x].remind > hour
                 PROVE  Wanted(x)'
        BY DEF OnTheirWay, Ends, Written
    <2>1. Wanted(x) /\ ticks' = ticks \cup due /\ book' = book
        BY <1>4 DEF OnTheirWay, Ends
    <2>2. CASE [entry |-> x, at |-> book[x].remind] \in ticks
        BY <2>1, <2>2 DEF Wanted
    <2>3. CASE x \in DOMAIN writer[w].dict /\ writer[w].dict[x] = book[x].remind
        <3>1. writer[w].dict[x] # None
            BY <2>3 DEF NotesTyped, None
        <3> QED BY <1>3, <2>1, <2>3, <3>1 DEF Wanted
    <2>4. ASSUME NEW v \in Writers \ {w}, x \in DOMAIN writer[v].dict, writer[v].dict[x] = book[x].remind
          PROVE  Wanted(x)'
        <3>1. writer'[v] = writer[v]
            BY EditLeaves DEF Ends
        <3> QED BY <2>1, <2>4, <3>1 DEF Wanted
    <2> QED BY <2>1, <2>2, <2>3, <2>4 DEF Wanted
<1>7. RemindersAreCurrent'
    BY DEF Ends, RemindersAreCurrent
<1> QED BY <1>5, <1>6, <1>7

LEMMA RunFailsKeeps ==
    ASSUME NotebookAssumption, NotesIInv, NEW w \in Writers, RunFails(w) PROVE NotesIInv'
<1> USE DEF NotesIInv
<1>1. ~Quiet' /\ trouble' \in [NoteEvents -> Nat]
    BY TroubleIsLoud DEF RunFails, NotesTyped, NoteEvents
<1>2. NotesTyped'
    BY <1>1, EditLeaves DEF NotesTyped, RunFails, Written
<1>3. OnTheirWay'
    BY <1>1 DEF OnTheirWay
<1>4. RemindersAreCurrent'
    BY DEF RunFails, RemindersAreCurrent
<1> QED BY <1>2, <1>3, <1>4

\* A tick that is due is not what an entry still ahead of its time waits for.
LEMMA TickComesDueKeeps ==
    ASSUME NotebookAssumption, NotesIInv, TickComesDue PROVE NotesIInv'
<1> USE DEF NotesIInv
<1>1. PICK t \in ticks :
        /\ t.at <= hour /\ ticks' = ticks \ {t}
        /\ nodes' = IF Gate(t, book[t.entry]) THEN nodes \cup {[tick |-> t, moved |-> FALSE]} ELSE nodes
    BY DEF TickComesDue
<1>2. t \in [entry : Written, at : Times] /\ t.at \in Nat /\ hour \in Nat
    BY DEF NotesTyped, Times, NotebookAssumption
<1>3. NotesTyped'
    <2> DEFINE Held == [tick : [entry : Written, at : Times], moved : BOOLEAN]
    <2>2. [tick |-> t, moved |-> FALSE] \in Held /\ nodes \subseteq Held
        BY <1>2 DEF NotesTyped
    <2> HIDE DEF Held
    <2>3. nodes' \subseteq Held
        BY <1>1, <2>2
    <2>1. nodes' \subseteq [tick : [entry : Written, at : Times], moved : BOOLEAN]
        BY <2>3 DEF Held
    <2> QED BY <1>1, <2>1 DEF NotesTyped, TickComesDue, Written
<1>4. OnTheirWay'
    <2> SUFFICES ASSUME Quiet, NEW x \in Written \ crossed, book[x].remind > hour
                 PROVE  Wanted(x)'
        BY DEF OnTheirWay, TickComesDue, Written, Quiet
    <2>1. Wanted(x)
        BY DEF OnTheirWay
    <2>2. book[x].remind \in Nat
        <3>1. x \in Written
            OBVIOUS
        <3>2. book[x].remind \in {None} \cup Times
            BY <3>1, WrittenTyped
        <3> QED BY <3>2 DEF None, Times
    <2>3. t.at # book[x].remind
        BY <1>1, <1>2, <2>2
    <2>4. t # [entry |-> x, at |-> book[x].remind]
        BY <2>3
    <2> QED BY <1>1, <2>1, <2>4 DEF Wanted, TickComesDue
<1>5. RemindersAreCurrent'
    <2> SUFFICES ASSUME NEW n \in nodes'
                 PROVE  /\ n.tick.at <= hour
                        /\ ~n.moved => book[n.tick.entry] = [status |-> "active", remind |-> n.tick.at]
        BY DEF RemindersAreCurrent, TickComesDue
    <2>1. CASE n \in nodes
        BY <2>1 DEF RemindersAreCurrent
    <2>2. CASE Gate(t, book[t.entry]) /\ n = [tick |-> t, moved |-> FALSE]
        <3>1. book[t.entry] \in Versions
            BY <1>2, WrittenTyped
        <3>2. book[t.entry] = [status |-> "active", remind |-> t.at]
            BY <2>2, <3>1 DEF Gate, Versions
        <3> QED BY <1>1, <2>2, <3>2
    <2> QED BY <1>1, <2>1, <2>2
<1> QED BY <1>3, <1>4, <1>5

LEMMA NodeDeliversKeeps ==
    ASSUME NotebookAssumption, NotesIInv, NodeDelivers PROVE NotesIInv'
<1> USE DEF NotesIInv
<1>1. PICK n \in nodes : nodes' = nodes \ {n} /\ reminded' = reminded \cup {n.tick}
    BY DEF NodeDelivers
<1>2. NotesTyped'
    BY <1>1 DEF NotesTyped, NodeDelivers, Written
<1>3. OnTheirWay'
    BY DEF OnTheirWay, NodeDelivers, Written, Wanted, Quiet
<1>4. RemindersAreCurrent'
    BY <1>1 DEF NodeDelivers, RemindersAreCurrent
<1> QED BY <1>2, <1>3, <1>4

LEMMA TickFailsKeeps ==
    ASSUME NotebookAssumption, NotesIInv, TickFails PROVE NotesIInv'
<1> USE DEF NotesIInv
<1>1. PICK n \in nodes : nodes' = nodes \ {n}
    BY DEF TickFails
<1>2. ~Quiet' /\ trouble' \in [NoteEvents -> Nat]
    BY TroubleIsLoud DEF TickFails, NotesTyped, NoteEvents
<1>3. NotesTyped'
    BY <1>1, <1>2 DEF NotesTyped, TickFails, Written
<1>4. OnTheirWay'
    BY <1>2 DEF OnTheirWay
<1>5. RemindersAreCurrent'
    BY <1>1 DEF TickFails, RemindersAreCurrent
<1> QED BY <1>3, <1>4, <1>5

LEMMA NotesStepsKeep == NotebookAssumption /\ NotesIInv /\ [NotesNext]_noteVars => NotesIInv'
<1> SUFFICES ASSUME NotebookAssumption, NotesIInv, [NotesNext]_noteVars PROVE NotesIInv'
    OBVIOUS
<1>1. CASE TimePasses
    BY <1>1, TimePassesKeeps
<1>2. CASE NoteTodo
    BY <1>2, NoteTodoKeeps
<1>3. CASE TickComesDue
    BY <1>3, TickComesDueKeeps
<1>4. CASE NodeDelivers
    BY <1>4, NodeDeliversKeeps
<1>5. CASE TickFails
    BY <1>5, TickFailsKeeps
<1>6. CASE \E w \in Writers : Begins(w)
    BY <1>6, BeginsKeeps
<1>7. CASE \E w \in Writers : EditReads(w)
    BY <1>7, EditReadsKeeps
<1>8. CASE \E w \in Writers : EditWrites(w)
    BY <1>8, EditWritesKeeps
<1>9. CASE \E w \in Writers : Ends(w)
    BY <1>9, EndsKeeps
<1>10. CASE \E w \in Writers : RunFails(w)
    BY <1>10, RunFailsKeeps
<1>11. CASE UNCHANGED noteVars
    BY <1>11 DEF noteVars, NotesIInv, NotesTyped, OnTheirWay, RemindersAreCurrent, Written, Wanted, Quiet
<1> QED BY <1>1, <1>2, <1>3, <1>4, <1>5, <1>6, <1>7, <1>8, <1>9, <1>10, <1>11 DEF NotesNext

LEMMA NotesInvariant == NotesSpec => []NotesIInv
<1>1. NotesInit => NotesIInv
    BY NotebookAssumption, NotesInitially
<1>2. NotesIInv /\ [NotesNext]_noteVars => NotesIInv'
    BY NotebookAssumption, NotesStepsKeep
<1> QED BY <1>1, <1>2, PTL DEF NotesSpec

THEOREM RemindersCanBeTrustedAlways == NotesSpec => []RemindersCanBeTrusted
<1>1. NotesIInv => RemindersCanBeTrusted
    BY DEF NotesIInv, OnTheirWay, Wanted, RemindersCanBeTrusted, RemindersAreOnTheirWay
<1> QED BY <1>1, NotesInvariant, PTL

--------------------------------------------------------------------------------
(***************************************************************************)
(* A reply in a chat                                                       *)
(***************************************************************************)
\* What is said: on its way, being shown, or seen.
Out == sending \cup showing \cup shown
Pcs == {"off", "prep", "stream", "part", "audit", "judge", "last", "wake", "done", "failed", "cut"}
Giving == {"prep", "stream", "part", "audit", "judge", "last"}
Kinds == {"text", "guard", "notice", "empty"}
Segments == [run : Nat, part : Nat, kind : Kinds, last : BOOLEAN, copy : Nat]
Messages == [run : Nat, part : Nat, kind : Kinds, copy : Nat]

ChatTyped ==
    /\ reply \in [pc : Pcs, run : Nat, part : 0 .. MaxParts - 1, kind : {"text", "empty"}]
    /\ reply.pc = "part" => reply.part < MaxParts - 1
    /\ check \in {"runs", "passed", "blocked", "raised", "cancelled"}
    /\ replyRow \in [status : {"none", "pending", "completed", "failed"},
                     safety : {"pending"} \cup Terminal, replies : SUBSET Messages]
    /\ sending \subseteq Segments /\ showing \subseteq Segments /\ shown \subseteq Messages
    /\ recalls \subseteq 0 .. MaxRecalls
    /\ known \in 0 .. reply.run
    /\ muddles \subseteq ChatEvents

\* What is noted, or about to be, or recalled, was seen.
Seen ==
    /\ replyRow.replies \subseteq shown /\ gone \subseteq shown
    /\ \A seg \in showing : Message(seg) \in shown
    /\ \A job \in recaller : job \in (0 .. MaxRecalls) \X SUBSET Messages /\ job[2] # {} /\ job[2] \subseteq shown

\* Nothing of a reply is out before its check has let it; what is out is of this run or
\* an earlier one.
Withheld ==
    /\ reply.pc = "prep" => check = "runs"
    /\ reply.pc = "wake" => check \notin {"runs", "blocked"}
    /\ \A x \in Out : x.run <= reply.run
    /\ check \in {"runs", "blocked"} => \A x \in Out : x.kind = "text" => x.run # reply.run

\* A blocked reply that is over has its guard message on its way or shown.
Guarded ==
    check = "blocked" /\ reply.pc = "done" /\ "show" \notin muddles =>
        \E x \in sending \cup shown : x.kind = "guard" /\ x.run = reply.run

\* Without a second run or copy there is one first message, and none while the run is
\* still at its first part.
OneFirst ==
    /\ reply.pc = "off" => Out = {}
    /\ "again" \notin muddles /\ reply.pc = "prep" => Out = {}
    /\ muddles \cap {"again", "crash"} = {} =>
        /\ \A x, y \in Out : x.part = 0 /\ y.part = 0 => Message(x) = Message(y)
        /\ reply.pc \in Giving /\ reply.part = 0 => \A x \in Out : x.part # 0

Recalled == replyRow.safety = "recalled" /\ "recall" \notin muddles => gone # {}

Settled == replyRow.safety \in Terminal \/ recalls # {} \/ recaller # {}

\* Where the reply is judged.
Judged ==
    replyRow.status # "none" /\ muddles \cap {"render", "swallow", "again"} = {} =>
        /\ reply.pc \in {"last", "wake"} => NothingToSay \/ Settled
        /\ reply.pc = "done" =>
            \/ NothingToSay \/ Settled \/ check = "blocked"
            \/ \A x \in Out : x.kind # "text"

ChatIInv == ChatTyped /\ Seen /\ Withheld /\ Guarded /\ OneFirst /\ Recalled /\ Judged


--------------------------------------------------------------------------------
\* A segment and the message it becomes.
LEMMA MessageOf ==
    /\ \A x \in Segments : /\ Message(x) \in Messages /\ Message(x).run = x.run
                           /\ Message(x).part = x.part /\ Message(x).kind = x.kind
                           /\ Message(Message(x)) = Message(x)
    /\ \A x \in Messages : Message(x) = x
BY DEF Message, Segments, Messages

\* What is emitted speaks of this run and of the part it is at.
LEMMA EmitsOne ==
    ASSUME ChatAssumption, ChatTyped, NEW kind \in Kinds, NEW last \in BOOLEAN, Emits(kind, last)
    PROVE  \E x \in Segments : /\ sending' = sending \cup {x}
                               /\ x.run = reply.run /\ x.part = reply.part /\ x.kind = kind
<1>1. Segment(kind, last) \in Segments
    BY DEF ChatTyped, Segment, Segments, ChatAssumption
<1>2. /\ Segment(kind, last).run = reply.run /\ Segment(kind, last).part = reply.part
      /\ Segment(kind, last).kind = kind
    BY DEF Segment
<1> QED BY <1>1, <1>2 DEF Emits

\* A part that is sent: the last one ends the reply, another one lets the stream go on.
LEMMA SendsOne ==
    ASSUME ChatAssumption, ChatTyped, AtPart, SendsPart
    PROVE  /\ \E x \in Segments : /\ sending' = sending \cup {x} /\ x.kind \in {"text", "empty"}
                                  /\ x.run = reply.run /\ x.part = reply.part
           /\ reply' \in [pc : Pcs, run : Nat, part : 0 .. MaxParts - 1, kind : {"text", "empty"}]
           /\ reply'.run = reply.run /\ reply'.kind = reply.kind
           /\ \/ reply.pc = "last" /\ reply'.pc = "wake" /\ reply'.part = reply.part
              \/ reply.pc = "part" /\ reply'.pc = "stream" /\ reply'.part = reply.part + 1
<1>1. CASE reply.pc = "last"
    <2>1. reply.kind \in Kinds /\ Emits(reply.kind, TRUE) /\ reply' = [reply EXCEPT !.pc = "wake"]
        BY <1>1 DEF SendsPart, ChatTyped, Kinds
    <2>2. \E x \in Segments : /\ sending' = sending \cup {x} /\ x.kind = reply.kind
                              /\ x.run = reply.run /\ x.part = reply.part
        BY <2>1, EmitsOne
    <2> QED BY <1>1, <2>1, <2>2 DEF ChatTyped, Pcs
<1>2. CASE reply.pc = "part"
    <2>1. "text" \in Kinds /\ Emits("text", FALSE) /\ reply' = [reply EXCEPT !.pc = "stream", !.part = @ + 1]
        BY <1>2 DEF SendsPart, Kinds
    <2>2. \E x \in Segments : /\ sending' = sending \cup {x} /\ x.kind = "text"
                              /\ x.run = reply.run /\ x.part = reply.part
        BY <2>1, EmitsOne
    <2>3. reply.part + 1 \in 0 .. MaxParts - 1
        BY <1>2 DEF ChatTyped, ChatAssumption
    <2> QED BY <1>2, <2>1, <2>2, <2>3 DEF ChatTyped, Pcs
<1> QED BY <1>1, <1>2 DEF AtPart

\* The row when a segment could not be shown or noted, or the last one was.
LEMMA RowStatus ==
    ASSUME ChatTyped, NEW status \in {"completed", "failed"}
    PROVE  /\ Status(status) \in [status : {"none", "pending", "completed", "failed"},
                                   safety : {"pending"} \cup Terminal, replies : SUBSET Messages]
           /\ Status(status).safety = replyRow.safety /\ Status(status).replies = replyRow.replies
           /\ Status(status).status = "none" <=> replyRow.status = "none"
BY DEF ChatTyped, Status

LEMMA TriggerKeeps ==
    ASSUME ChatAssumption, ChatIInv, Trigger PROVE ChatIInv'
<1> USE DEF ChatIInv, nodeVars, workerVars, recallVars, Trigger
<1>0. /\ reply' \in [pc : Pcs, run : Nat, part : 0 .. MaxParts - 1, kind : {"text", "empty"}]
      /\ reply'.pc = "prep" /\ reply'.run = reply.run + 1 /\ reply.run \in Nat
    <2>1. PICK n \in Nat : n = reply.run + 1
        BY DEF ChatTyped
    <2>2. reply' = [pc |-> "prep", run |-> n, part |-> 0, kind |-> "text"]
        BY <2>1 DEF NoReply, Trigger
    <2>3. 0 \in 0 .. MaxParts - 1 /\ "prep" \in Pcs /\ reply.run \in Nat
        BY DEF ChatTyped, ChatAssumption, Pcs
    <2>4. reply' \in [pc : Pcs, run : Nat, part : 0 .. MaxParts - 1, kind : {"text", "empty"}]
        BY <2>2, <2>3
    <2> QED BY <2>1, <2>2, <2>3, <2>4
<1>a. known \in 0 .. reply'.run
    BY <1>0 DEF ChatTyped
<1>1. ChatTyped'
    BY <1>0, <1>a DEF ChatTyped, Terminal, Pcs, Kinds, ChatAssumption, Muddle, ChatEvents
<1>2. Seen'
    BY DEF Seen, ChatTyped, ChatAssumption, Muddle, ChatEvents
<1>3. Withheld'
    <2>1. Out' = Out /\ check' = "runs"
        BY DEF Out
    <2>2. \A x \in Out : x.run \in Nat /\ x.run <= reply.run
        BY DEF Withheld, Out, ChatTyped, Segments, Messages
    <2>3. \A x \in Out : x.run <= reply.run + 1 /\ x.run # reply.run + 1
        BY <1>0, <2>2
    <2> QED BY <1>0, <2>1, <2>3 DEF Withheld
<1>4. Guarded'
    BY DEF Guarded, ChatTyped, ChatAssumption, Muddle, ChatEvents
<1>5. OneFirst'
    BY DEF OneFirst, Out, Giving, ChatTyped, ChatAssumption, Muddle, ChatEvents
<1>6. Recalled'
    BY DEF Recalled, ChatTyped, ChatAssumption, Muddle, ChatEvents
<1>7. Judged'
    BY DEF Judged, Out, Settled, NothingToSay, ChatTyped, ChatAssumption, Muddle, ChatEvents
<1> QED BY <1>1, <1>2, <1>3, <1>4, <1>5, <1>6, <1>7

LEMMA PrepKeeps ==
    ASSUME ChatAssumption, ChatIInv, Prep PROVE ChatIInv'
<1> USE DEF ChatIInv, nodeVars, workerVars, recallVars
<1>0. /\ reply.pc = "prep" /\ check = "runs"
      /\ UNCHANGED <<check, replyRow, showing, shown, recallVars, known, muddles>>
    BY DEF Prep, Withheld
<1>a. /\ reply' \in [pc : Pcs, run : Nat, part : 0 .. MaxParts - 1, kind : {"text", "empty"}]
      /\ reply'.run = reply.run /\ reply'.part = reply.part /\ reply'.kind = reply.kind
      /\ reply'.pc = "stream" \/ reply'.pc = "done"
    BY DEF Prep, ChatTyped, Pcs
<1>b. \/ reply'.pc = "stream" /\ sending' = sending
      \/ reply'.pc = "done" /\ Emits("notice", TRUE)
    BY DEF Prep, ChatTyped
<1>c. \/ reply'.pc = "stream" /\ sending' = sending /\ Out' = Out
      \/ reply'.pc = "done" /\ \E x \in Segments :
            /\ sending' = sending \cup {x} /\ Out' = Out \cup {x}
            /\ x.run = reply.run /\ x.part = reply.part /\ x.kind = "notice"
    <2>1. CASE reply'.pc = "stream" /\ sending' = sending
        BY <1>0, <2>1 DEF Out
    <2>2. CASE reply'.pc = "done" /\ Emits("notice", TRUE)
        <3>1. "notice" \in Kinds
            BY DEF Kinds
        <3>2. PICK x \in Segments : /\ sending' = sending \cup {x}
                                   /\ x.run = reply.run /\ x.part = reply.part /\ x.kind = "notice"
            BY <2>2, <3>1, EmitsOne
        <3> QED BY <1>0, <2>2, <3>2 DEF Out
    <2> QED BY <1>b, <2>1, <2>2
<1>1. ChatTyped'
    BY <1>0, <1>a, <1>c DEF ChatTyped
<1>2. Seen'
    BY <1>0 DEF Seen
<1>3. Withheld'
    BY <1>0, <1>a, <1>c DEF Withheld, ChatTyped
<1>4. Guarded'
    BY <1>0 DEF Guarded
<1>5. OneFirst'
    BY <1>0, <1>a, <1>c DEF OneFirst, Giving
<1>6. Recalled'
    BY <1>0 DEF Recalled
<1>7. Judged'
    BY <1>0, <1>a, <1>c DEF Judged, OneFirst
<1> QED BY <1>1, <1>2, <1>3, <1>4, <1>5, <1>6, <1>7

LEMMA CheckEndsKeeps ==
    ASSUME ChatAssumption, ChatIInv, CheckEnds PROVE ChatIInv'
<1> USE DEF ChatIInv, nodeVars, workerVars, recallVars, CheckEnds
<1>1. ChatTyped'
    BY DEF ChatTyped, Terminal, Pcs, Kinds, ChatAssumption, Muddle, ChatEvents
<1>2. Seen'
    BY DEF Seen, ChatTyped, ChatAssumption, Muddle, ChatEvents
<1>3. Withheld'
    BY DEF Withheld, Out, ChatTyped, ChatAssumption, Muddle, ChatEvents
<1>4. Guarded'
    BY DEF Guarded, ChatTyped, ChatAssumption, Muddle, ChatEvents
<1>5. OneFirst'
    BY DEF OneFirst, Out, Giving, ChatTyped, ChatAssumption, Muddle, ChatEvents
<1>6. Recalled'
    BY DEF Recalled, ChatTyped, ChatAssumption, Muddle, ChatEvents
<1>7. Judged'
    BY DEF Judged, Out, Settled, NothingToSay, ChatTyped, ChatAssumption, Muddle, ChatEvents
<1> QED BY <1>1, <1>2, <1>3, <1>4, <1>5, <1>6, <1>7

LEMMA PartEndsKeeps ==
    ASSUME ChatAssumption, ChatIInv, PartEnds PROVE ChatIInv'
<1> USE DEF ChatIInv, nodeVars, workerVars, recallVars, PartEnds
<1>1. ChatTyped'
    BY DEF ChatTyped, Terminal, Pcs, Kinds, ChatAssumption, Muddle, ChatEvents
<1>2. Seen'
    BY DEF Seen, ChatTyped, ChatAssumption, Muddle, ChatEvents
<1>3. Withheld'
    BY DEF Withheld, Out, ChatTyped, ChatAssumption, Muddle, ChatEvents
<1>4. Guarded'
    BY DEF Guarded, ChatTyped, ChatAssumption, Muddle, ChatEvents
<1>5. OneFirst'
    BY DEF OneFirst, Out, Giving, ChatTyped, ChatAssumption, Muddle, ChatEvents
<1>6. Recalled'
    BY DEF Recalled, ChatTyped, ChatAssumption, Muddle, ChatEvents
<1>7. Judged'
    BY DEF Judged, Out, Settled, NothingToSay, ChatTyped, ChatAssumption, Muddle, ChatEvents
<1> QED BY <1>1, <1>2, <1>3, <1>4, <1>5, <1>6, <1>7

LEMMA StreamEndsKeeps ==
    ASSUME ChatAssumption, ChatIInv, StreamEnds PROVE ChatIInv'
<1> USE DEF ChatIInv, nodeVars, workerVars, recallVars, StreamEnds
<1>1. ChatTyped'
    BY DEF ChatTyped, Terminal, Pcs, Kinds, ChatAssumption, Muddle, ChatEvents
<1>2. Seen'
    BY DEF Seen, ChatTyped, ChatAssumption, Muddle, ChatEvents
<1>3. Withheld'
    BY DEF Withheld, Out, ChatTyped, ChatAssumption, Muddle, ChatEvents
<1>4. Guarded'
    BY DEF Guarded, ChatTyped, ChatAssumption, Muddle, ChatEvents
<1>5. OneFirst'
    BY DEF OneFirst, Out, Giving, ChatTyped, ChatAssumption, Muddle, ChatEvents
<1>6. Recalled'
    BY DEF Recalled, ChatTyped, ChatAssumption, Muddle, ChatEvents
<1>7. Judged'
    BY DEF ToAudit, Pcs, Judged, Out, Settled, NothingToSay, ChatTyped, ChatAssumption, Muddle, ChatEvents
<1> QED BY <1>1, <1>2, <1>3, <1>4, <1>5, <1>6, <1>7

LEMMA StreamBreaksKeeps ==
    ASSUME ChatAssumption, ChatIInv, StreamBreaks PROVE ChatIInv'
<1> USE DEF ChatIInv, nodeVars, workerVars, recallVars, StreamBreaks
<1>1. ChatTyped'
    BY DEF ChatTyped, Terminal, Pcs, Kinds, ChatAssumption, Muddle, ChatEvents
<1>2. Seen'
    BY DEF Seen, ChatTyped, ChatAssumption, Muddle, ChatEvents
<1>3. Withheld'
    BY DEF Withheld, Out, ChatTyped, ChatAssumption, Muddle, ChatEvents
<1>4. Guarded'
    BY DEF Guarded, ChatTyped, ChatAssumption, Muddle, ChatEvents
<1>5. OneFirst'
    BY DEF OneFirst, Out, Giving, ChatTyped, ChatAssumption, Muddle, ChatEvents
<1>6. Recalled'
    BY DEF Recalled, ChatTyped, ChatAssumption, Muddle, ChatEvents
<1>7. Judged'
    BY DEF Judged, Out, Settled, NothingToSay, ChatTyped, ChatAssumption, Muddle, ChatEvents
<1> QED BY <1>1, <1>2, <1>3, <1>4, <1>5, <1>6, <1>7

LEMMA AuditKeeps ==
    ASSUME ChatAssumption, ChatIInv, Audit PROVE ChatIInv'
<1> USE DEF ChatIInv, nodeVars, workerVars, recallVars, Audit
<1>1. ChatTyped'
    BY DEF ChatTyped, Terminal, Pcs, Kinds, ChatAssumption, Muddle, ChatEvents
<1>2. Seen'
    BY DEF Seen, ChatTyped, ChatAssumption, Muddle, ChatEvents
<1>3. Withheld'
    BY DEF Withheld, Out, ChatTyped, ChatAssumption, Muddle, ChatEvents
<1>4. Guarded'
    BY DEF Guarded, ChatTyped, ChatAssumption, Muddle, ChatEvents
<1>5. OneFirst'
    BY DEF OneFirst, Out, Giving, ChatTyped, ChatAssumption, Muddle, ChatEvents
<1>6. Recalled'
    BY DEF Recalled, ChatTyped, ChatAssumption, Muddle, ChatEvents
<1>7. Judged'
    BY DEF Judged, Out, Settled, NothingToSay, ChatTyped, ChatAssumption, Muddle, ChatEvents
<1> QED BY <1>1, <1>2, <1>3, <1>4, <1>5, <1>6, <1>7

LEMMA JudgeKeeps ==
    ASSUME ChatAssumption, ChatIInv, Judge PROVE ChatIInv'
<1> USE DEF ChatIInv, nodeVars, workerVars, recallVars, Judge
<1>1. ChatTyped'
    BY DEF ChatTyped, Terminal, Pcs, Kinds, ChatAssumption, Muddle, ChatEvents
<1>2. Seen'
    BY DEF Seen, ChatTyped, ChatAssumption, Muddle, ChatEvents
<1>3. Withheld'
    BY DEF Withheld, Out, ChatTyped, ChatAssumption, Muddle, ChatEvents
<1>4. Guarded'
    BY DEF Guarded, ChatTyped, ChatAssumption, Muddle, ChatEvents
<1>5. OneFirst'
    BY DEF OneFirst, Out, Giving, ChatTyped, ChatAssumption, Muddle, ChatEvents
<1>6. Recalled'
    BY DEF Recalled, ChatTyped, ChatAssumption, Muddle, ChatEvents
<1>7. Judged'
    <2>1. reply'.pc = "last"
        BY DEF ChatTyped
    <2>2. Settled' \/ "swallow" \in muddles'
        <3>1. CASE replyRow' = [replyRow EXCEPT !.safety = "passed"]
            BY <3>1 DEF Settled, Terminal, ChatTyped
        <3>2. CASE recalls' = recalls \cup {0}
            BY <3>2 DEF Settled
        <3>3. CASE Muddle("swallow")
            BY <3>3 DEF Muddle
        <3> QED BY <3>1, <3>2, <3>3
    <2> QED BY <2>1, <2>2 DEF Judged
<1> QED BY <1>1, <1>2, <1>3, <1>4, <1>5, <1>6, <1>7

LEMMA PartPassesKeeps ==
    ASSUME ChatAssumption, ChatIInv, PartPasses PROVE ChatIInv'
<1> USE DEF ChatIInv, nodeVars, workerVars, recallVars
<1>0. AtPart /\ SendsPart /\ UNCHANGED <<check, replyRow, showing, shown, recallVars, known, muddles>>
    BY DEF PartPasses
<1>a. check \in {"passed", "raised"}
    BY DEF PartPasses, Resolved
<1>b. PICK x \in Segments : /\ sending' = sending \cup {x} /\ x.kind \in {"text", "empty"}
                           /\ x.run = reply.run /\ x.part = reply.part
    BY <1>0, SendsOne
<1>c. /\ reply' \in [pc : Pcs, run : Nat, part : 0 .. MaxParts - 1, kind : {"text", "empty"}]
      /\ reply'.run = reply.run /\ reply'.kind = reply.kind
      /\ \/ reply.pc = "last" /\ reply'.pc = "wake" /\ reply'.part = reply.part
         \/ reply.pc = "part" /\ reply'.pc = "stream" /\ reply'.part = reply.part + 1
    BY <1>0, SendsOne
<1>d. Out' = Out \cup {x}
    BY <1>0, <1>b DEF Out
<1>1. ChatTyped'
    BY <1>0, <1>b, <1>c DEF ChatTyped
<1>2. Seen'
    BY <1>0 DEF Seen
<1>3. Withheld'
    BY <1>0, <1>a, <1>b, <1>c, <1>d DEF Withheld, ChatTyped
<1>4. Guarded'
    BY <1>0, <1>a DEF Guarded
<1>5. OneFirst'
    <2>1. reply.pc \in Giving /\ reply.part \in Nat /\ reply'.pc \notin {"off", "prep"}
        BY <1>c DEF Giving, ChatTyped, ChatAssumption
    <2>2. reply'.pc \in Giving => reply'.part # 0
        BY <1>c, <2>1 DEF Giving
    <2> QED BY <1>0, <1>b, <1>d, <2>1, <2>2 DEF OneFirst
<1>6. Recalled'
    BY <1>0 DEF Recalled
<1>7. Judged'
    BY <1>0, <1>c DEF Judged, Settled, NothingToSay
<1> QED BY <1>1, <1>2, <1>3, <1>4, <1>5, <1>6, <1>7

LEMMA PartIsBlockedKeeps ==
    ASSUME ChatAssumption, ChatIInv, PartIsBlocked PROVE ChatIInv'
<1> USE DEF ChatIInv, nodeVars, workerVars, recallVars
<1>0. /\ AtPart /\ check = "blocked" /\ Emits("guard", TRUE) /\ "guard" \in Kinds
      /\ reply' = [reply EXCEPT !.pc = "done"]
      /\ UNCHANGED <<check, replyRow, showing, shown, recallVars, known, muddles>>
    BY DEF PartIsBlocked, Resolved, Kinds
<1>b. PICK x \in Segments : /\ sending' = sending \cup {x} /\ x.kind = "guard"
                           /\ x.run = reply.run /\ x.part = reply.part
    BY <1>0, EmitsOne
<1>c. /\ reply' \in [pc : Pcs, run : Nat, part : 0 .. MaxParts - 1, kind : {"text", "empty"}]
      /\ reply'.run = reply.run /\ reply'.pc = "done" /\ reply'.part = reply.part /\ reply'.kind = reply.kind
    BY <1>0 DEF ChatTyped, Pcs
<1>d. Out' = Out \cup {x}
    BY <1>0, <1>b DEF Out
<1>1. ChatTyped'
    BY <1>0, <1>b, <1>c DEF ChatTyped
<1>2. Seen'
    BY <1>0 DEF Seen
<1>3. Withheld'
    BY <1>0, <1>b, <1>c, <1>d DEF Withheld, ChatTyped
<1>4. Guarded'
    BY <1>0, <1>b, <1>c DEF Guarded
<1>5. OneFirst'
    BY <1>0, <1>b, <1>c, <1>d DEF OneFirst, Giving, AtPart
<1>6. Recalled'
    BY <1>0 DEF Recalled
<1>7. Judged'
    BY <1>0, <1>c DEF Judged
<1> QED BY <1>1, <1>2, <1>3, <1>4, <1>5, <1>6, <1>7

LEMMA PartTimesOutKeeps ==
    ASSUME ChatAssumption, ChatIInv, PartTimesOut PROVE ChatIInv'
<1> USE DEF ChatIInv, nodeVars, workerVars, recallVars
<1>0. AtPart /\ SendsPart /\ UNCHANGED <<replyRow, showing, shown, recallVars, known>>
    BY DEF PartTimesOut
<1>a. check = "runs" /\ check' = "cancelled" /\ muddles \subseteq muddles' /\ muddles' \subseteq ChatEvents
    BY DEF PartTimesOut, Resolved, Muddle, ChatEvents, ChatTyped
<1>b. PICK x \in Segments : /\ sending' = sending \cup {x} /\ x.kind \in {"text", "empty"}
                           /\ x.run = reply.run /\ x.part = reply.part
    BY <1>0, SendsOne
<1>c. /\ reply' \in [pc : Pcs, run : Nat, part : 0 .. MaxParts - 1, kind : {"text", "empty"}]
      /\ reply'.run = reply.run /\ reply'.kind = reply.kind
      /\ \/ reply.pc = "last" /\ reply'.pc = "wake" /\ reply'.part = reply.part
         \/ reply.pc = "part" /\ reply'.pc = "stream" /\ reply'.part = reply.part + 1
    BY <1>0, SendsOne
<1>d. Out' = Out \cup {x}
    BY <1>0, <1>b DEF Out
<1>1. ChatTyped'
    BY <1>0, <1>a, <1>b, <1>c DEF ChatTyped
<1>2. Seen'
    BY <1>0 DEF Seen
<1>3. Withheld'
    BY <1>0, <1>a, <1>b, <1>c, <1>d DEF Withheld, ChatTyped
<1>4. Guarded'
    BY <1>0, <1>a DEF Guarded
<1>5. OneFirst'
    <2>1. reply.pc \in Giving /\ reply.part \in Nat /\ reply'.pc \notin {"off", "prep"}
        BY <1>c DEF Giving, ChatTyped, ChatAssumption
    <2>2. reply'.pc \in Giving => reply'.part # 0
        BY <1>c, <2>1 DEF Giving
    <2> QED BY <1>0, <1>a, <1>b, <1>d, <2>1, <2>2 DEF OneFirst
<1>6. Recalled'
    BY <1>0, <1>a DEF Recalled
<1>7. Judged'
    BY <1>0, <1>a, <1>c DEF Judged, Settled, NothingToSay
<1> QED BY <1>1, <1>2, <1>3, <1>4, <1>5, <1>6, <1>7

LEMMA PartIsCutKeeps ==
    ASSUME ChatAssumption, ChatIInv, PartIsCut PROVE ChatIInv'
<1> USE DEF ChatIInv, nodeVars, workerVars, recallVars, PartIsCut
<1>1. ChatTyped'
    BY DEF ChatTyped, Terminal, Pcs, Kinds, ChatAssumption, Muddle, ChatEvents
<1>2. Seen'
    BY DEF Seen, ChatTyped, ChatAssumption, Muddle, ChatEvents
<1>3. Withheld'
    BY DEF Withheld, Out, ChatTyped, ChatAssumption, Muddle, ChatEvents
<1>4. Guarded'
    BY DEF Guarded, ChatTyped, ChatAssumption, Muddle, ChatEvents
<1>5. OneFirst'
    BY DEF OneFirst, Out, Giving, ChatTyped, ChatAssumption, Muddle, ChatEvents
<1>6. Recalled'
    BY DEF Recalled, ChatTyped, ChatAssumption, Muddle, ChatEvents
<1>7. Judged'
    BY DEF Judged, Out, Settled, NothingToSay, ChatTyped, ChatAssumption, Muddle, ChatEvents
<1> QED BY <1>1, <1>2, <1>3, <1>4, <1>5, <1>6, <1>7

LEMMA WakeLifeKeeps ==
    ASSUME ChatAssumption, ChatIInv, WakeLife PROVE ChatIInv'
<1> USE DEF ChatIInv, nodeVars, workerVars, recallVars, WakeLife
<1>1. ChatTyped'
    BY DEF ChatTyped, Terminal, Pcs, Kinds, ChatAssumption, Muddle, ChatEvents
<1>2. Seen'
    BY DEF Seen, ChatTyped, ChatAssumption, Muddle, ChatEvents
<1>3. Withheld'
    BY DEF Withheld, Out, ChatTyped, ChatAssumption, Muddle, ChatEvents
<1>4. Guarded'
    BY DEF Withheld, Guarded, ChatTyped, ChatAssumption, Muddle, ChatEvents
<1>5. OneFirst'
    BY DEF OneFirst, Out, Giving, ChatTyped, ChatAssumption, Muddle, ChatEvents
<1>6. Recalled'
    BY DEF Recalled, ChatTyped, ChatAssumption, Muddle, ChatEvents
<1>7. Judged'
    BY DEF Judged, Out, Settled, NothingToSay, ChatTyped, ChatAssumption, Muddle, ChatEvents
<1> QED BY <1>1, <1>2, <1>3, <1>4, <1>5, <1>6, <1>7

LEMMA NodeFailsKeeps ==
    ASSUME ChatAssumption, ChatIInv, NodeFails PROVE ChatIInv'
<1> USE DEF ChatIInv, nodeVars, workerVars, recallVars, NodeFails
<1>1. ChatTyped'
    BY DEF ChatTyped, Terminal, Pcs, Kinds, ChatAssumption, Muddle, ChatEvents
<1>2. Seen'
    BY DEF Seen, ChatTyped, ChatAssumption, Muddle, ChatEvents
<1>3. Withheld'
    BY DEF Withheld, Out, ChatTyped, ChatAssumption, Muddle, ChatEvents
<1>4. Guarded'
    BY DEF Guarded, ChatTyped, ChatAssumption, Muddle, ChatEvents
<1>5. OneFirst'
    BY DEF OneFirst, Out, Giving, ChatTyped, ChatAssumption, Muddle, ChatEvents
<1>6. Recalled'
    BY DEF Recalled, ChatTyped, ChatAssumption, Muddle, ChatEvents
<1>7. Judged'
    BY DEF Judged, Out, Settled, NothingToSay, ChatTyped, ChatAssumption, Muddle, ChatEvents
<1> QED BY <1>1, <1>2, <1>3, <1>4, <1>5, <1>6, <1>7

LEMMA RecallEndsKeeps ==
    ASSUME ChatAssumption, ChatIInv, RecallEnds PROVE ChatIInv'
<1> USE DEF ChatIInv, nodeVars, workerVars, recallVars
<1>0. PICK job \in recaller, missed \in SUBSET shown :
        /\ missed \subseteq job[2]
        /\ gone' = gone \cup (job[2] \ missed)
        /\ replyRow' = [replyRow EXCEPT !.safety = IF job[2] = missed THEN "recall_failed" ELSE "recalled"]
        /\ IF missed # {} THEN Muddle("recall") /\ UNCHANGED recalls
           ELSE \/ UNCHANGED <<recalls, muddles>>
                \/ Muddle("crash") /\ recalls' = recalls \cup {job[1]}
    BY DEF RecallEnds
<1>a. /\ job[1] \in 0 .. MaxRecalls /\ job[2] # {} /\ job[2] \subseteq shown
      /\ recaller' = {} /\ UNCHANGED <<nodeVars, workerVars>>
    BY DEF Seen, RecallEnds
<1>b. /\ replyRow' \in [status : {"none", "pending", "completed", "failed"},
                        safety : {"pending"} \cup Terminal, replies : SUBSET Messages]
      /\ replyRow'.status = replyRow.status /\ replyRow'.replies = replyRow.replies
      /\ replyRow'.safety = IF job[2] = missed THEN "recall_failed" ELSE "recalled"
      /\ replyRow'.safety \in Terminal
    BY <1>0 DEF ChatTyped, Terminal
<1>c. /\ muddles \subseteq muddles' /\ muddles' \subseteq ChatEvents
      /\ recalls' \subseteq 0 .. MaxRecalls
      /\ missed # {} => "recall" \in muddles'
    BY <1>0, <1>a DEF ChatTyped, Muddle, ChatEvents
<1>1. ChatTyped'
    BY <1>a, <1>b, <1>c DEF ChatTyped
<1>2. Seen'
    BY <1>0, <1>a, <1>b DEF Seen
<1>3. Withheld'
    BY <1>a DEF Withheld, Out
<1>4. Guarded'
    BY <1>a, <1>c DEF Guarded
<1>5. OneFirst'
    BY <1>a, <1>c DEF OneFirst, Out
<1>6. Recalled'
    BY <1>0, <1>a, <1>b, <1>c DEF Recalled
<1>7. Judged'
    BY <1>a, <1>b, <1>c DEF Judged, Out, Settled, NothingToSay
<1> QED BY <1>1, <1>2, <1>3, <1>4, <1>5, <1>6, <1>7

\* What the workers do to the row keeps what is judged; what they move is what was out.
LEMMA WorkersKeepJudged ==
    ASSUME ChatIInv, UNCHANGED <<nodeVars, recallVars>>, muddles \subseteq muddles',
           replyRow'.safety = replyRow.safety, replyRow'.status = "none" <=> replyRow.status = "none",
           \A x \in Out' : x.kind = "text" => \E y \in Out : y.kind = "text"
    PROVE  Judged' /\ Recalled'
BY DEF ChatIInv, Judged, Recalled, Settled, NothingToSay, nodeVars, recallVars

LEMMA ShowKeeps ==
    ASSUME ChatAssumption, ChatIInv, NEW seg \in sending \cup showing, Show(seg) PROVE ChatIInv'
<1> USE DEF ChatIInv, nodeVars, workerVars, recallVars
<1>0. seg \in sending /\ sending' = sending \ {seg} /\ UNCHANGED <<nodeVars, recallVars>>
    BY DEF Show
<1>a. seg \in Segments
    BY <1>0 DEF ChatTyped
<1> DEFINE m == Message(seg)
<1>b. /\ m \in Messages /\ m.run = seg.run /\ m.part = seg.part /\ m.kind = seg.kind /\ Message(m) = Message(seg)
    BY <1>a, MessageOf
<1>c. /\ replyRow' \in [status : {"none", "pending", "completed", "failed"},
                        safety : {"pending"} \cup Terminal, replies : SUBSET Messages]
      /\ replyRow'.safety = replyRow.safety /\ replyRow'.replies = replyRow.replies
      /\ replyRow'.status = "none" <=> replyRow.status = "none"
    BY RowStatus DEF Show, ChatTyped
<1>d. muddles \subseteq muddles' /\ muddles' \subseteq ChatEvents
    BY DEF Show, Muddle, ChatEvents, ChatTyped
<1>e. \/ seg.kind = "empty" /\ UNCHANGED <<showing, shown, muddles>>
      \/ seg.kind # "empty" /\ showing' = showing \cup {seg} /\ shown' = shown \cup {m} /\ UNCHANGED muddles
      \/ seg.kind # "empty" /\ "show" \in muddles' /\ UNCHANGED <<showing, shown>>
    BY DEF Show, Muddle
<1> HIDE DEF m
<1>f. Out' \subseteq Out \cup {m}
    BY <1>0, <1>e DEF Out
<1>1. ChatTyped'
    BY <1>0, <1>a, <1>b, <1>c, <1>d, <1>e DEF ChatTyped
<1>2. Seen'
    BY <1>0, <1>c, <1>e DEF Seen, m
<1>3. Withheld'
    <2>1. seg \in Out
        BY <1>0 DEF Out
    <2> QED BY <1>0, <1>b, <1>f, <2>1 DEF Withheld
<1>4. Guarded'
    <2> SUFFICES ASSUME check = "blocked", reply.pc = "done", "show" \notin muddles'
                 PROVE  \E x \in sending' \cup shown' : x.kind = "guard" /\ x.run = reply.run
        BY <1>0 DEF Guarded
    <2>1. PICK x \in sending \cup shown : x.kind = "guard" /\ x.run = reply.run
        BY <1>d DEF Guarded
    <2>2. CASE x = seg
        BY <1>b, <1>e, <2>1, <2>2
    <2>3. CASE x # seg
        BY <1>0, <1>e, <2>1, <2>3
    <2> QED BY <2>2, <2>3
<1>5. OneFirst'
    <2>1. seg \in Out
        BY <1>0 DEF Out
    <2> QED BY <1>0, <1>b, <1>d, <1>f, <2>1 DEF OneFirst
<1>6. Recalled' /\ Judged'
    <2>1. \A x \in Out' : x.kind = "text" => \E y \in Out : y.kind = "text"
        BY <1>0, <1>b, <1>f DEF Out
    <2> QED BY <1>0, <1>c, <1>d, <2>1, WorkersKeepJudged
<1> QED BY <1>1, <1>2, <1>3, <1>4, <1>5, <1>6

LEMMA NoteKeeps ==
    ASSUME ChatAssumption, ChatIInv, NEW seg \in sending \cup showing, Note(seg) PROVE ChatIInv'
<1> USE DEF ChatIInv, nodeVars, workerVars, recallVars
<1>0. seg \in showing /\ showing' = showing \ {seg} /\ UNCHANGED <<nodeVars, sending, shown, recallVars>>
    BY DEF Note
<1>a. seg \in Segments
    BY <1>0 DEF ChatTyped
<1> DEFINE m == Message(seg)
<1>b. m \in Messages /\ m \in shown
    BY <1>0, <1>a, MessageOf DEF Seen
<1>c. /\ replyRow' \in [status : {"none", "pending", "completed", "failed"},
                        safety : {"pending"} \cup Terminal, replies : SUBSET Messages]
      /\ replyRow'.safety = replyRow.safety /\ replyRow'.replies \subseteq replyRow.replies \cup {m}
      /\ replyRow'.status = "none" <=> replyRow.status = "none"
    <2>1. CASE replyRow' = Status("failed")
        BY <2>1, RowStatus
    <2>2. CASE replyRow' = IF replyRow.status = "none" THEN replyRow
                           ELSE [replyRow EXCEPT !.replies = @ \cup {m},
                                                 !.status = IF seg.last THEN "completed" ELSE @]
        BY <1>b, <2>2 DEF ChatTyped
    <2> QED BY <2>1, <2>2 DEF Note
<1>d. muddles \subseteq muddles' /\ muddles' \subseteq ChatEvents
    BY DEF Note, Muddle, ChatEvents, ChatTyped
<1> HIDE DEF m
<1>1. ChatTyped'
    BY <1>0, <1>c, <1>d DEF ChatTyped
<1>2. Seen'
    BY <1>0, <1>b, <1>c DEF Seen
<1>3. Withheld'
    BY <1>0 DEF Withheld, Out
<1>4. Guarded'
    BY <1>0, <1>d DEF Guarded
<1>5. OneFirst'
    BY <1>0, <1>d DEF OneFirst, Out
<1>6. Recalled' /\ Judged'
    <2>1. \A x \in Out' : x.kind = "text" => \E y \in Out : y.kind = "text"
        BY <1>0 DEF Out
    <2> QED BY <1>0, <1>c, <1>d, <2>1, WorkersKeepJudged
<1> QED BY <1>1, <1>2, <1>3, <1>4, <1>5, <1>6

LEMMA WorkerDiesKeeps ==
    ASSUME ChatAssumption, ChatIInv, NEW seg \in sending \cup showing, WorkerDies(seg) PROVE ChatIInv'
<1> USE DEF ChatIInv, nodeVars, workerVars, recallVars
<1>0. seg \in showing /\ showing' = showing \ {seg} /\ UNCHANGED <<nodeVars, replyRow, shown, recallVars>>
    BY DEF WorkerDies
<1>a. seg \in Segments
    BY <1>0 DEF ChatTyped
<1> DEFINE again == [seg EXCEPT !.copy = @ + 1]
<1>b. /\ again \in Segments /\ again.run = seg.run /\ again.part = seg.part /\ again.kind = seg.kind
      /\ sending' = sending \cup {again}
    BY <1>a DEF Segments, WorkerDies
<1>c. muddles \subseteq muddles' /\ muddles' \subseteq ChatEvents /\ "crash" \in muddles'
    BY DEF WorkerDies, Muddle, ChatEvents, ChatTyped
<1> HIDE DEF again
<1>d. seg \in Out /\ Out' \subseteq Out \cup {again}
    BY <1>0, <1>b DEF Out
<1>1. ChatTyped'
    BY <1>0, <1>b, <1>c DEF ChatTyped
<1>2. Seen'
    BY <1>0 DEF Seen
<1>3. Withheld'
    BY <1>0, <1>b, <1>d DEF Withheld
<1>4. Guarded'
    BY <1>0, <1>b, <1>c DEF Guarded
<1>5. OneFirst'
    BY <1>0, <1>c, <1>d DEF OneFirst
<1>6. Recalled' /\ Judged'
    <2>1. \A x \in Out' : x.kind = "text" => \E y \in Out : y.kind = "text"
        BY <1>b, <1>d
    <2> QED BY <1>0, <1>c, <2>1, WorkersKeepJudged
<1> QED BY <1>1, <1>2, <1>3, <1>4, <1>5, <1>6

LEMMA RecallReadsKeeps ==
    ASSUME ChatAssumption, ChatIInv, NEW r \in recalls, RecallReads(r) PROVE ChatIInv'
<1> USE DEF ChatIInv, nodeVars, workerVars, recallVars
<1>0. UNCHANGED <<nodeVars, workerVars, gone, muddles>> /\ r \in 0 .. MaxRecalls
    BY DEF RecallReads, ChatTyped
<1>a. \/ /\ replyRow.safety \in Terminal /\ recalls' = recalls \ {r} /\ UNCHANGED <<replyRow, recaller>>
      \/ /\ replyRow' = [replyRow EXCEPT !.safety = NothingYet(r)]
         /\ recalls' = (recalls \ {r}) \cup ({r + 1} \cap 0 .. MaxRecalls) /\ UNCHANGED recaller
      \/ /\ replyRow.replies # {} /\ recaller' = {<<r, replyRow.replies>>} /\ recalls' = recalls \ {r}
         /\ UNCHANGED replyRow
    BY DEF RecallReads, Terminal
<1>b. /\ replyRow' \in [status : {"none", "pending", "completed", "failed"},
                        safety : {"pending"} \cup Terminal, replies : SUBSET Messages]
      /\ replyRow'.status = replyRow.status /\ replyRow'.replies = replyRow.replies
      /\ replyRow'.safety = replyRow.safety \/ replyRow'.safety = "recall_failed"
    BY <1>a DEF ChatTyped, NothingYet, Terminal
<1>c. recalls' \subseteq 0 .. MaxRecalls
    BY <1>a DEF ChatTyped
<1>d. Settled'
    <2>1. CASE /\ replyRow' = [replyRow EXCEPT !.safety = NothingYet(r)]
               /\ recalls' = (recalls \ {r}) \cup ({r + 1} \cap 0 .. MaxRecalls)
        <3>1. CASE r < MaxRecalls
            <4>1. r + 1 \in 0 .. MaxRecalls
                BY <1>0, <3>1 DEF ChatAssumption
            <4> QED BY <2>1, <4>1 DEF Settled
        <3>2. CASE ~(r < MaxRecalls)
            BY <2>1, <3>2 DEF Settled, NothingYet, ChatTyped, Terminal
        <3> QED BY <3>1, <3>2
    <2> QED BY <1>a, <2>1 DEF Settled
<1>1. ChatTyped'
    BY <1>0, <1>b, <1>c DEF ChatTyped
<1>2. Seen'
    <2>1. replyRow.replies # {} => <<r, replyRow.replies>> \in (0 .. MaxRecalls) \X SUBSET Messages
        BY <1>0 DEF ChatTyped
    <2>2. \A job \in recaller' : job \in recaller \/ (replyRow.replies # {} /\ job = <<r, replyRow.replies>>)
        BY <1>a
    <2> QED BY <1>0, <1>b, <2>1, <2>2 DEF Seen
<1>3. Withheld'
    BY <1>0 DEF Withheld, Out
<1>4. Guarded'
    BY <1>0 DEF Guarded
<1>5. OneFirst'
    BY <1>0 DEF OneFirst, Out
<1>6. Recalled'
    BY <1>0, <1>b DEF Recalled
<1>7. Judged'
    BY <1>0, <1>b, <1>d DEF Judged, NothingToSay, Out
<1> QED BY <1>1, <1>2, <1>3, <1>4, <1>5, <1>6, <1>7

LEMMA ChatInitially ==
    ASSUME ChatAssumption, ChatInit PROVE ChatIInv
<1>1. reply \in [pc : Pcs, run : Nat, part : 0 .. MaxParts - 1, kind : {"text", "empty"}]
    BY DEF ChatInit, NoReply, Pcs, ChatAssumption
<1>2. ChatTyped
    BY <1>1 DEF ChatTyped, ChatInit, NoReply, ChatAssumption
<1>3. Seen /\ Withheld /\ Guarded /\ OneFirst /\ Recalled /\ Judged
    BY DEF Seen, Withheld, Guarded, OneFirst, Recalled, Judged, ChatInit, NoReply, Out, Giving
<1> QED BY <1>2, <1>3 DEF ChatIInv

LEMMA ChatStepsKeep == ChatAssumption /\ ChatIInv /\ [ChatNext]_chatVars => ChatIInv'
<1> SUFFICES ASSUME ChatAssumption, ChatIInv, [ChatNext]_chatVars PROVE ChatIInv'
    OBVIOUS
<1>1. CASE Trigger \/ Prep \/ CheckEnds \/ PartEnds \/ StreamEnds \/ StreamBreaks \/ Audit \/ Judge
    BY <1>1, TriggerKeeps, PrepKeeps, CheckEndsKeeps, PartEndsKeeps, StreamEndsKeeps, StreamBreaksKeeps,
       AuditKeeps, JudgeKeeps
<1>2. CASE PartPasses \/ PartIsBlocked \/ PartTimesOut \/ PartIsCut \/ WakeLife \/ NodeFails
    BY <1>2, PartPassesKeeps, PartIsBlockedKeeps, PartTimesOutKeeps, PartIsCutKeeps, WakeLifeKeeps, NodeFailsKeeps
<1>3. CASE \E seg \in sending \cup showing : Show(seg) \/ Note(seg) \/ WorkerDies(seg)
    BY <1>3, ShowKeeps, NoteKeeps, WorkerDiesKeeps
<1>4. CASE RecallEnds \/ \E r \in recalls : RecallReads(r)
    BY <1>4, RecallEndsKeeps, RecallReadsKeeps
<1>5. CASE UNCHANGED chatVars
    BY <1>5 DEF chatVars, ChatIInv, ChatTyped, Seen, Withheld, Guarded, OneFirst, Recalled, Judged, Out,
       Settled, NothingToSay
<1> QED BY <1>1, <1>2, <1>3, <1>4, <1>5 DEF ChatNext

LEMMA ChatInvariant == ChatSpec => []ChatIInv
<1>1. ChatInit => ChatIInv
    BY ChatAssumption, ChatInitially
<1>2. ChatIInv /\ [ChatNext]_chatVars => ChatIInv'
    BY ChatAssumption, ChatStepsKeep
<1> QED BY <1>1, <1>2, PTL DEF ChatSpec

THEOREM ChatStaysTyped == ChatSpec => []ChatTypeOK
<1>1. ChatIInv => ChatTypeOK
    BY DEF ChatIInv, ChatTyped, Seen, ChatTypeOK, Segments, Kinds, Pcs
<1> QED BY <1>1, ChatInvariant, PTL

THEOREM RepliesCanAlwaysBeTrusted == ChatSpec => []RepliesCanBeTrusted
<1>1. ChatIInv => BlockedEndsInGuard
    <2> SUFFICES ASSUME ChatIInv, check = "blocked"
                 PROVE  /\ \A seg \in Saying("text") : seg.run # reply.run
                        /\ reply.pc \in {"wake", "done"} /\ "show" \notin muddles =>
                            \E seg \in Saying("guard") : seg.run = reply.run
        BY DEF BlockedEndsInGuard
    <2>1. \A seg \in Saying("text") : seg \in Out /\ seg.kind = "text"
        BY DEF Saying, Out
    <2>2. reply.pc # "wake"
        BY DEF ChatIInv, Withheld
    <2> QED BY <2>1, <2>2 DEF ChatIInv, Withheld, Guarded, Saying
<1>2. ChatIInv => RepliesAreAudited
    <2>1. Saying("text") # {} => \E x \in Out : x.kind = "text"
        BY DEF Saying, Out
    <2> QED BY <2>1 DEF ChatIInv, Judged, Settled, RepliesAreAudited
<1>3. ChatIInv => OneMessageIsRecalled
    <2> SUFFICES ASSUME ChatIInv, replyRow.safety = "recalled", \A m \in shown : m.part = 0,
                        muddles \cap {"crash", "recall", "again"} = {}
                 PROVE  Visible = {}
        BY DEF OneMessageIsRecalled
    <2>1. PICK g \in gone : g \in shown
        BY DEF ChatIInv, Recalled, Seen
    <2>2. \A m \in shown : m \in Out /\ Message(m) = m
        BY MessageOf DEF ChatIInv, ChatTyped, Out
    <2>3. \A m \in shown : m = g
        BY <2>1, <2>2 DEF ChatIInv, OneFirst
    <2> QED BY <2>1, <2>3 DEF Visible
<1> QED BY <1>1, <1>2, <1>3, ChatInvariant, PTL DEF RepliesCanBeTrusted

--------------------------------------------------------------------------------
(***************************************************************************)
(* The review of a week                                                    *)
(***************************************************************************)
\* What a text of hers grows from.
Grains == {"page", "owner"} \X ({0} \cup Dates) \X Nat
Identities == [source : {"seed", "review", "owner"}, at : Nat \ {0}, from : SUBSET Grains]
DriftStates == [pc : {"off", "lock", "check", "read", "base", "run"}, week : Nat,
                pages : SUBSET Grains, base : SUBSET Grains, drafts : Nat]
Mine == {chain[i].at : i \in {j \in DOMAIN chain : chain[j].source \in Sources}}

PersonaTyped ==
    /\ now \in 0 .. MaxTime /\ monday \in 0 .. now
    /\ written \in [Dates -> Nat] /\ \A d \in Dates : written[d] <= now
    /\ chain \in Seq(Identities)
    /\ \A i \in DOMAIN chain : chain[i].at <= now /\ (chain[i].source = "seed" <=> i = 1)
    /\ reviewing \in {"free", "orphan"} \cup Sweepers
    /\ drift \in [Sweepers -> DriftStates]

\* One review is at work at a time, and reads a chain that has begun.
AloneAt(s) == drift[s].pc \notin {"off", "lock"} =>
    /\ reviewing = s
    /\ drift[s].pc # "check" => chain # <<>>

\* One of her review versions is the newest of them.
HasNewest == Mine # {} => \E t \in Mine : \A u \in Mine : u <= t

\* What a review was given holds what there is, but for what came since.
GivenAt(s) ==
    /\ drift[s].pc = "base" =>
        \A d \in Dates : written[d] # 0 => Page(d) \in drift[s].pages \cup Newest \cup late
    /\ drift[s].pc = "run" =>
        /\ \A d \in Dates : written[d] # 0 => Page(d) \in drift[s].pages \cup drift[s].base \cup late
        /\ \A i \in DOMAIN chain : chain[i].source = "owner" =>
              <<"owner", 0, chain[i].at>> \in drift[s].base \cup late

\* No review but its own has written since the week a review is about began.
WeekAt(s) == drift[s].pc \in {"read", "base", "run"} /\ drift[s].drafts = 0 =>
    ~\E i \in DOMAIN chain : chain[i].source = "review" /\ chain[i].at >= drift[s].week

PersonaIInv ==
    /\ PersonaTyped /\ HasNewest /\ PagesAreDigested /\ OwnersWordStays
    /\ \A s \in Sweepers : AloneAt(s) /\ GivenAt(s) /\ WeekAt(s)

--------------------------------------------------------------------------------
LEMMA Links ==
    ASSUME PersonaTyped
    PROVE  /\ \A i \in DOMAIN chain : /\ chain[i] \in Identities /\ chain[i].at \in Nat /\ chain[i].at # 0
                                      /\ chain[i].at <= now
           /\ \A u \in Mine : u \in Nat /\ u # 0 /\ u <= now
           /\ Newest \subseteq Grains
           /\ now \in Nat /\ monday \in Nat /\ monday <= now
<1>1. \A i \in DOMAIN chain : chain[i] \in Identities
    BY DEF PersonaTyped
<1>2. \A i \in DOMAIN chain : chain[i].at \in Nat /\ chain[i].at # 0 /\ chain[i].at <= now /\ chain[i].from \subseteq Grains
    BY <1>1 DEF PersonaTyped, Identities
<1>3. \A u \in Mine : u \in Nat /\ u # 0 /\ u <= now
    BY <1>2 DEF Mine
<1>4. now \in Nat /\ monday \in Nat /\ monday <= now
    BY DEF PersonaTyped
<1>5. chain # <<>> => Len(chain) \in DOMAIN chain
    BY DEF PersonaTyped
<1>6. Newest \subseteq Grains
    BY <1>2, <1>5 DEF Newest
<1> QED BY <1>1, <1>2, <1>3, <1>4, <1>6

\* The cursor is the newest of her review versions.
LEMMA CursorIsNewest ==
    ASSUME PersonaTyped, HasNewest
    PROVE  /\ Cursor \in Nat /\ Cursor <= now
           /\ \A u \in Mine : u <= Cursor
           /\ Mine = {} => Cursor = 0
           /\ Mine # {} => Cursor # 0 /\ Cursor \in Mine
<1>1. \A u \in Mine : u \in Nat /\ u # 0 /\ u <= now
    BY Links
<1>2. CASE Mine = {}
    <2>1. Cursor = 0
        BY <1>2 DEF Cursor, Mine
    <2> QED BY <1>2, <2>1, Links
<1>3. CASE Mine # {}
    <2>1. Cursor = CHOOSE t \in Mine : \A u \in Mine : u <= t
        BY <1>3 DEF Cursor, Mine
    <2>2. Cursor \in Mine /\ \A u \in Mine : u <= Cursor
        BY <1>3, <2>1 DEF HasNewest
    <2> QED BY <1>1, <1>3, <2>2
<1> QED BY <1>2, <1>3

\* A version that is put on the chain.
LEMMA OnTop ==
    ASSUME PersonaTyped, NEW v \in Identities, chain' = Append(chain, v)
    PROVE  /\ chain' \in Seq(Identities) /\ chain' # <<>> /\ Newest' = v.from
           /\ DOMAIN chain' = DOMAIN chain \cup {Len(chain) + 1} /\ Len(chain) \in Nat
           /\ chain'[Len(chain) + 1] = v /\ \A i \in DOMAIN chain : chain'[i] = chain[i]
           /\ \A i \in DOMAIN chain : i # Len(chain) + 1 /\ i \in Nat
BY DEF PersonaTyped, Newest

\* What a version of the owner, a seed or a review adds to hers.
LEMMA MineGrows ==
    ASSUME PersonaTyped, HasNewest, NEW v \in Identities, chain' = Append(chain, v), v.at = now + 1
    PROVE  /\ Mine' = IF v.source = "review" THEN Mine \cup {now + 1} ELSE Mine
           /\ HasNewest'
<1>1. Mine' = IF v.source = "review" THEN Mine \cup {now + 1} ELSE Mine
    BY OnTop DEF Mine, Sources
<1>2. (\A u \in Mine : u \in Nat /\ u <= now) /\ now \in Nat
    BY Links
<1> QED BY <1>1, <1>2 DEF HasNewest

\* ... and where the cursor is then.
LEMMA CursorMoves ==
    ASSUME PersonaTyped, HasNewest, NEW v \in Identities, chain' = Append(chain, v), v.at = now + 1
    PROVE  IF v.source = "review" THEN Cursor' = now + 1 ELSE Cursor' = Cursor
<1>1. CASE v.source = "review"
    <2>1. Mine' = Mine \cup {now + 1}
        BY <1>1, MineGrows
    <2>2. Cursor' = CHOOSE t \in Mine' : \A u \in Mine' : u <= t
        BY <2>1 DEF Cursor, Mine
    <2>3. now + 1 \in Mine' /\ \A u \in Mine' : u \in Nat /\ u <= now + 1
        BY <2>1, Links
    <2>4. Cursor' \in Mine' /\ \A u \in Mine' : u <= Cursor'
        BY <2>2, <2>3
    <2> QED BY <1>1, <2>3, <2>4, Links
<1>2. CASE v.source # "review"
    <2>1. Mine' = Mine
        BY <1>2, MineGrows
    <2>2. Cursor' = IF Mine' = {} THEN 0 ELSE CHOOSE t \in Mine' : \A u \in Mine' : u <= t
        BY DEF Cursor, Mine
    <2>3. Cursor = IF Mine = {} THEN 0 ELSE CHOOSE t \in Mine : \A u \in Mine : u <= t
        BY DEF Cursor, Mine
    <2> QED BY <1>2, <2>1, <2>2, <2>3
<1> QED BY <1>1, <1>2

\* A step that writes nothing, and leaves the other reviews where they are.
LEMMA DriftMoves ==
    ASSUME PersonaAssumption, PersonaIInv, NEW s \in Sweepers, NEW n \in DriftStates,
           drift' = [drift EXCEPT ![s] = n], reviewing' \in {"free", "orphan"} \cup Sweepers,
           UNCHANGED <<now, monday, written, chain, late>>,
           reviewing' = reviewing \/ \A t \in Sweepers \ {s} : drift[t].pc \in {"off", "lock"},
           n.pc \notin {"off", "lock"} => reviewing' = s /\ (n.pc # "check" => chain # <<>>),
           n.pc = "base" => \A d \in Dates : written[d] # 0 => Page(d) \in n.pages \cup Newest \cup late,
           n.pc = "run" =>
                /\ \A d \in Dates : written[d] # 0 => Page(d) \in n.pages \cup n.base \cup late
                /\ \A i \in DOMAIN chain : chain[i].source = "owner" =>
                      <<"owner", 0, chain[i].at>> \in n.base \cup late,
           n.pc \in {"read", "base", "run"} /\ n.drafts = 0 =>
                ~\E i \in DOMAIN chain : chain[i].source = "review" /\ chain[i].at >= n.week
    PROVE  PersonaIInv'
<1>1. /\ drift' \in [Sweepers -> DriftStates] /\ drift'[s] = n
      /\ \A t \in Sweepers \ {s} : drift'[t] = drift[t]
    BY DEF PersonaIInv, PersonaTyped
<1>2. PersonaTyped'
    BY <1>1 DEF PersonaIInv, PersonaTyped
<1>3. Mine' = Mine /\ Newest' = Newest /\ Cursor' = Cursor /\ \A d \in Dates : Page(d)' = Page(d)
    BY DEF Mine, Newest, Cursor, Page
<1>4. HasNewest' /\ PagesAreDigested' /\ OwnersWordStays'
    BY <1>3 DEF PersonaIInv, HasNewest, PagesAreDigested, OwnersWordStays
<1>5. ASSUME NEW t \in Sweepers PROVE AloneAt(t)' /\ GivenAt(t)' /\ WeekAt(t)'
    <2>1. CASE t = s
        BY <1>1, <1>3, <2>1 DEF AloneAt, GivenAt, WeekAt
    <2>2. CASE t # s
        <3>1. drift'[t] = drift[t]
            BY <1>1, <2>2
        <3>2. AloneAt(t) /\ GivenAt(t) /\ WeekAt(t)
            BY DEF PersonaIInv
        <3> QED BY <1>3, <2>2, <3>1, <3>2 DEF AloneAt, GivenAt, WeekAt
    <2> QED BY <2>1, <2>2
<1> QED BY <1>2, <1>4, <1>5 DEF PersonaIInv

\* While one review is at work the others are not.
LEMMA OthersRest ==
    ASSUME PersonaAssumption, PersonaIInv, NEW s \in Sweepers,
           drift[s].pc \notin {"off", "lock"} \/ reviewing \notin Sweepers
    PROVE  \A t \in Sweepers \ {s} : drift[t].pc \in {"off", "lock"}
BY DEF PersonaIInv, AloneAt

LEMMA NoDriftTyped == NoDrift \in DriftStates /\ NoDrift.pc = "off"
BY DEF NoDrift, DriftStates, Grains

\* A review that is over.
LEMMA OverKeeps ==
    ASSUME PersonaAssumption, PersonaIInv, NEW s \in Sweepers, drift[s].pc \notin {"off", "lock"},
           Off(s), reviewing' \in {"free", "orphan"}, UNCHANGED <<now, monday, written, chain, late>>
    PROVE  PersonaIInv'
BY OthersRest, NoDriftTyped, DriftMoves DEF Off

LEMMA PersonaInitially ==
    ASSUME PersonaAssumption, PersonaInit PROVE PersonaIInv
<1>1. PersonaTyped
    BY NoDriftTyped DEF PersonaTyped, PersonaInit, PersonaAssumption
<1>2. \A s \in Sweepers : drift[s].pc = "off"
    BY DEF PersonaInit, NoDrift
<1>3. Mine = {} /\ DOMAIN chain = {}
    BY DEF PersonaInit, Mine
<1> QED BY <1>1, <1>2, <1>3 DEF PersonaIInv, AloneAt, HasNewest, GivenAt, WeekAt, PagesAreDigested,
    OwnersWordStays, PersonaInit

LEMMA WeeklySweepKeeps ==
    ASSUME PersonaAssumption, PersonaIInv, NEW s \in Sweepers, WeeklySweep(s) PROVE PersonaIInv'
<1>1. CASE UNCHANGED drift
    <2>1. drift' = [drift EXCEPT ![s] = drift[s]] /\ drift[s] \in DriftStates /\ drift[s].pc = "off"
        BY <1>1 DEF PersonaIInv, PersonaTyped, WeeklySweep
    <2>2. reviewing \in {"free", "orphan"} \cup Sweepers
        BY DEF PersonaIInv, PersonaTyped
    <2> QED BY <2>1, <2>2, DriftMoves DEF WeeklySweep
<1>2. CASE drift' = [drift EXCEPT ![s] = [NoDrift EXCEPT !.pc = "lock", !.week = monday]]
    <2> DEFINE n == [NoDrift EXCEPT !.pc = "lock", !.week = monday]
    <2>1. n \in DriftStates /\ n.pc = "lock"
        BY Links DEF NoDrift, DriftStates, PersonaIInv
    <2>2. reviewing \in {"free", "orphan"} \cup Sweepers
        BY DEF PersonaIInv, PersonaTyped
    <2>3. drift' = [drift EXCEPT ![s] = n]
        BY <1>2
    <2> HIDE DEF n
    <2> QED BY <2>1, <2>2, <2>3, DriftMoves DEF WeeklySweep
<1> QED BY <1>1, <1>2 DEF WeeklySweep

\* The same review at another place.
LEMMA PlaceMoves ==
    ASSUME PersonaIInv, NEW s \in Sweepers, NEW pc \in {"off", "lock", "check", "read", "base", "run"}, To(s, pc)
    PROVE  \E n \in DriftStates : /\ drift' = [drift EXCEPT ![s] = n]
                                  /\ n.pc = pc /\ n.week = drift[s].week /\ n.pages = drift[s].pages
                                  /\ n.base = drift[s].base /\ n.drafts = drift[s].drafts
<1> DEFINE n == [drift[s] EXCEPT !.pc = pc]
<1>1. drift[s] \in DriftStates /\ DOMAIN drift = Sweepers
    BY DEF PersonaIInv, PersonaTyped
<1>2. /\ n \in DriftStates /\ n.pc = pc /\ n.week = drift[s].week /\ n.pages = drift[s].pages
      /\ n.base = drift[s].base /\ n.drafts = drift[s].drafts
    BY <1>1 DEF DriftStates
<1>3. drift' = [drift EXCEPT ![s] = n]
    BY DEF To
<1> QED BY <1>2, <1>3

LEMMA LockPersonaKeeps ==
    ASSUME PersonaAssumption, PersonaIInv, NEW s \in Sweepers, LockPersona(s) PROVE PersonaIInv'
<1>1. CASE reviewing = "free" /\ reviewing' = s /\ To(s, "check")
    <2>1. PICK n \in DriftStates : drift' = [drift EXCEPT ![s] = n] /\ n.pc = "check"
        BY <1>1, PlaceMoves
    <2>2. reviewing \notin Sweepers
        BY <1>1 DEF PersonaAssumption
    <2> QED BY <1>1, <2>1, <2>2, OthersRest, DriftMoves DEF LockPersona
<1>2. CASE Off(s) /\ UNCHANGED reviewing
    <2>1. reviewing \in {"free", "orphan"} \cup Sweepers
        BY DEF PersonaIInv, PersonaTyped
    <2> QED BY <1>2, <2>1, NoDriftTyped, DriftMoves DEF LockPersona, Off
<1> QED BY <1>1, <1>2 DEF LockPersona

LEMMA ReadPagesKeeps ==
    ASSUME PersonaAssumption, PersonaIInv, NEW s \in Sweepers, ReadPages(s) PROVE PersonaIInv'
<1> DEFINE new == {d \in Dates : written[d] > Cursor}
           n == [drift[s] EXCEPT !.pc = "base", !.pages = {Page(d) : d \in new}]
<1>1. CASE Off(s) /\ Unlocks(s)
    BY <1>1, OverKeeps DEF ReadPages, Unlocks
<1>2. CASE drift' = [drift EXCEPT ![s].pc = "base", ![s].pages = {Page(d) : d \in new}] /\ UNCHANGED reviewing
    <2>1. drift[s] \in DriftStates /\ DOMAIN drift = Sweepers /\ drift[s].pc = "read"
        BY DEF PersonaIInv, PersonaTyped, ReadPages
    <2>2. {Page(d) : d \in new} \subseteq Grains
        BY DEF Page, Grains, PersonaIInv, PersonaTyped
    <2>3. /\ n \in DriftStates /\ n.pc = "base" /\ n.week = drift[s].week /\ n.pages = {Page(d) : d \in new}
          /\ n.drafts = drift[s].drafts
        BY <2>1, <2>2 DEF DriftStates
    <2>4. drift' = [drift EXCEPT ![s] = n]
        BY <1>2
    <2>5. AloneAt(s) /\ WeekAt(s)
        BY DEF PersonaIInv
    <2>6. reviewing' = reviewing /\ reviewing = s /\ chain # <<>>
        BY <1>2, <2>1, <2>5 DEF AloneAt
    <2>7. \A d \in Dates : written[d] # 0 => Page(d) \in n.pages \cup Newest \cup late
        <3> SUFFICES ASSUME NEW d \in Dates, written[d] # 0, ~(written[d] > Cursor)
                     PROVE  Page(d) \in Newest \cup late
            BY <2>3
        <3>1. Cursor \in Nat /\ written[d] \in Nat
            BY CursorIsNewest DEF PersonaIInv, PersonaTyped
        <3> QED BY <3>1 DEF PersonaIInv, PagesAreDigested
    <2>8. n.drafts = 0 => ~\E i \in DOMAIN chain : chain[i].source = "review" /\ chain[i].at >= n.week
        BY <2>1, <2>3, <2>5 DEF WeekAt
    <2> HIDE DEF n
    <2> QED BY <2>3, <2>4, <2>6, <2>7, <2>8, DriftMoves DEF ReadPages
<1> QED BY <1>1, <1>2 DEF ReadPages

LEMMA ReadBaseKeeps ==
    ASSUME PersonaAssumption, PersonaIInv, NEW s \in Sweepers, ReadBase(s) PROVE PersonaIInv'
<1> DEFINE n == [drift[s] EXCEPT !.pc = "run", !.base = Base]
<1>1. drift[s] \in DriftStates /\ DOMAIN drift = Sweepers /\ drift[s].pc = "base"
    BY DEF PersonaIInv, PersonaTyped, ReadBase
<1>2. /\ n \in DriftStates /\ n.pc = "run" /\ n.week = drift[s].week /\ n.pages = drift[s].pages
      /\ n.base = Newest /\ n.drafts = drift[s].drafts
    BY <1>1, Links DEF DriftStates, Base, PersonaIInv
<1>3. drift' = [drift EXCEPT ![s] = n]
    BY DEF ReadBase
<1>4. AloneAt(s) /\ GivenAt(s) /\ WeekAt(s)
    BY DEF PersonaIInv
<1>5. reviewing' = s /\ reviewing = s /\ chain # <<>>
    BY <1>1, <1>4 DEF AloneAt, ReadBase
<1>6. \A d \in Dates : written[d] # 0 => Page(d) \in n.pages \cup n.base \cup late
    BY <1>1, <1>2, <1>4 DEF GivenAt
<1>7. \A i \in DOMAIN chain : chain[i].source = "owner" => <<"owner", 0, chain[i].at>> \in n.base \cup late
    BY <1>2 DEF PersonaIInv, OwnersWordStays
<1>8. n.drafts = 0 => ~\E i \in DOMAIN chain : chain[i].source = "review" /\ chain[i].at >= n.week
    BY <1>1, <1>2, <1>4 DEF WeekAt
<1> HIDE DEF n
<1> QED BY <1>2, <1>3, <1>5, <1>6, <1>7, <1>8, DriftMoves DEF ReadBase

LEMMA DriftEndsKeeps ==
    ASSUME PersonaAssumption, PersonaIInv, NEW s \in Sweepers, DriftEnds(s) PROVE PersonaIInv'
BY OverKeeps DEF DriftEnds, Unlocks

LEMMA DriftFailsKeeps ==
    ASSUME PersonaAssumption, PersonaIInv, NEW s \in Sweepers, DriftFails(s) PROVE PersonaIInv'
BY OverKeeps DEF DriftFails, Unlocks

LEMMA DriftDiesKeeps ==
    ASSUME PersonaAssumption, PersonaIInv, NEW s \in Sweepers, DriftDies(s) PROVE PersonaIInv'
BY OverKeeps DEF DriftDies

LEMMA PersonaLockExpiresKeeps ==
    ASSUME PersonaAssumption, PersonaIInv, PersonaLockExpires PROVE PersonaIInv'
<1>1. \A t \in Sweepers : drift[t].pc \in {"off", "lock"}
    BY DEF PersonaIInv, AloneAt, PersonaLockExpires, PersonaAssumption
<1>2. Mine' = Mine /\ Newest' = Newest /\ Cursor' = Cursor /\ \A d \in Dates : Page(d)' = Page(d)
    BY DEF Mine, Newest, Cursor, Page, PersonaLockExpires
<1>3. PersonaTyped'
    BY DEF PersonaIInv, PersonaTyped, PersonaLockExpires
<1>4. HasNewest' /\ PagesAreDigested' /\ OwnersWordStays'
    BY <1>2 DEF PersonaIInv, HasNewest, PagesAreDigested, OwnersWordStays, PersonaLockExpires
<1> QED BY <1>1, <1>3, <1>4 DEF PersonaIInv, AloneAt, GivenAt, WeekAt, PersonaLockExpires

--------------------------------------------------------------------------------
LEMMA NextWeekKeeps ==
    ASSUME PersonaAssumption, PersonaIInv, NextWeek PROVE PersonaIInv'
<1>1. Mine' = Mine /\ Newest' = Newest /\ Cursor' = Cursor /\ \A d \in Dates : Page(d)' = Page(d)
    BY DEF Mine, Newest, Cursor, Page, NextWeek
<1>2. now \in Nat /\ now' = now + 1 /\ now < MaxTime /\ monday' = now + 1
    BY Links DEF PersonaIInv, NextWeek, Passes
<1>3. PersonaTyped'
    <2>1. now' \in 0 .. MaxTime /\ monday' \in 0 .. now'
        BY <1>2 DEF PersonaAssumption
    <2>2. \A d \in Dates : written[d] \in Nat /\ written[d] <= now
        BY DEF PersonaIInv, PersonaTyped
    <2>3. \A d \in Dates : written[d] <= now'
        BY <1>2, <2>2
    <2>4. \A i \in DOMAIN chain : chain[i].at <= now'
        <3>1. \A i \in DOMAIN chain : chain[i].at \in Nat /\ chain[i].at <= now
            BY Links DEF PersonaIInv
        <3> QED BY <1>2, <3>1
    <2> QED BY <2>1, <2>3, <2>4 DEF PersonaIInv, PersonaTyped, NextWeek
<1>4. HasNewest' /\ PagesAreDigested' /\ OwnersWordStays'
    BY <1>1 DEF PersonaIInv, HasNewest, PagesAreDigested, OwnersWordStays, NextWeek
<1>5. ASSUME NEW t \in Sweepers PROVE AloneAt(t)' /\ GivenAt(t)' /\ WeekAt(t)'
    <2>1. AloneAt(t) /\ GivenAt(t) /\ WeekAt(t)
        BY DEF PersonaIInv
    <2> QED BY <1>1, <2>1 DEF AloneAt, GivenAt, WeekAt, NextWeek
<1> QED BY <1>3, <1>4, <1>5 DEF PersonaIInv

\* A page that is written now is behind no cursor, and late for a review that runs.
LEMMA PageWrittenKeeps ==
    ASSUME PersonaAssumption, PersonaIInv, PageWritten PROVE PersonaIInv'
<1>1. PICK e \in Dates :
        /\ written' = [written EXCEPT ![e] = now + 1]
        /\ late' = IF Running THEN late \cup {<<"page", e, now + 1>>} ELSE late
    BY DEF PageWritten
<1>2. now \in Nat /\ now' = now + 1 /\ now < MaxTime /\ UNCHANGED <<monday, chain, reviewing, drift>>
    BY Links DEF PersonaIInv, PageWritten, Passes
<1>3. Mine' = Mine /\ Newest' = Newest /\ Cursor' = Cursor
    BY <1>2 DEF Mine, Newest, Cursor
<1>4. /\ written' \in [Dates -> Nat] /\ written'[e] = now + 1
      /\ \A d \in Dates \ {e} : written'[d] = written[d]
      /\ \A d \in Dates : written[d] \in Nat /\ written[d] <= now
    BY <1>1, <1>2 DEF PersonaIInv, PersonaTyped
<1>5. /\ Page(e)' = <<"page", e, now + 1>> /\ \A d \in Dates \ {e} : Page(d)' = Page(d)
    BY <1>4 DEF Page
<1>6. PersonaTyped'
    <2>1. now' \in 0 .. MaxTime /\ monday' \in 0 .. now'
        BY <1>2, Links DEF PersonaAssumption, PersonaIInv
    <2>2. \A d \in Dates : written'[d] <= now'
        BY <1>2, <1>4
    <2>3. \A i \in DOMAIN chain : chain[i].at <= now'
        <3>1. \A i \in DOMAIN chain : chain[i].at \in Nat /\ chain[i].at <= now
            BY Links DEF PersonaIInv
        <3> QED BY <1>2, <3>1
    <2> QED BY <1>2, <1>4, <2>1, <2>2, <2>3 DEF PersonaIInv, PersonaTyped
<1>7. HasNewest'
    BY <1>3 DEF PersonaIInv, HasNewest
<1>8. PagesAreDigested'
    <2>1. Cursor \in Nat /\ Cursor <= now
        BY CursorIsNewest DEF PersonaIInv
    <2>2. ~(written'[e] <= Cursor')
        BY <1>2, <1>3, <1>4, <2>1
    <2> QED BY <1>1, <1>3, <1>4, <1>5, <2>2 DEF PersonaIInv, PagesAreDigested
<1>9. OwnersWordStays'
    BY <1>1, <1>2, <1>3 DEF PersonaIInv, OwnersWordStays
<1>10. ASSUME NEW t \in Sweepers PROVE AloneAt(t)' /\ GivenAt(t)' /\ WeekAt(t)'
    <2>1. AloneAt(t) /\ GivenAt(t) /\ WeekAt(t)
        BY DEF PersonaIInv
    <2>2. AloneAt(t)' /\ WeekAt(t)'
        BY <1>2, <2>1 DEF AloneAt, WeekAt
    <2>3. GivenAt(t)'
        <3>1. CASE drift[t].pc \in {"base", "run"}
            <4>1. Page(e)' \in late' /\ late \subseteq late'
                BY <1>1, <1>5, <3>1 DEF Running
            <4> QED BY <1>2, <1>3, <1>4, <1>5, <2>1, <4>1 DEF GivenAt
        <3>2. CASE drift[t].pc \notin {"base", "run"}
            BY <1>2, <3>2 DEF GivenAt
        <3> QED BY <3>1, <3>2
    <2> QED BY <2>2, <2>3
<1> QED BY <1>6, <1>7, <1>8, <1>9, <1>10 DEF PersonaIInv

\* What stays typed when a version of now is put on the chain.
LEMMA PutTyped ==
    ASSUME PersonaAssumption, PersonaIInv, NEW v \in Identities, chain' = Append(chain, v), v.at = now + 1,
           v.source = "seed" <=> chain = <<>>, Passes, UNCHANGED <<monday, written>>,
           reviewing' \in {"free", "orphan"} \cup Sweepers, drift' \in [Sweepers -> DriftStates]
    PROVE  PersonaTyped'
<1>1. now \in Nat /\ now' = now + 1 /\ now < MaxTime
    BY Links DEF PersonaIInv, Passes
<1>2. now' \in 0 .. MaxTime /\ monday' \in 0 .. now'
    BY <1>1, Links DEF PersonaAssumption, PersonaIInv
<1>3. \A d \in Dates : written'[d] <= now'
    <2>1. \A d \in Dates : written[d] \in Nat /\ written[d] <= now
        BY DEF PersonaIInv, PersonaTyped
    <2> QED BY <1>1, <2>1
<1>4. /\ chain' \in Seq(Identities)
      /\ DOMAIN chain' = DOMAIN chain \cup {Len(chain) + 1} /\ Len(chain) \in Nat
      /\ chain'[Len(chain) + 1] = v /\ \A i \in DOMAIN chain : chain'[i] = chain[i]
    BY OnTop DEF PersonaIInv
<1>5. \A i \in DOMAIN chain : chain[i].at \in Nat /\ chain[i].at <= now /\ (chain[i].source = "seed" <=> i = 1)
    BY Links DEF PersonaIInv, PersonaTyped
<1>6. \A i \in DOMAIN chain' : chain'[i].at <= now'
    BY <1>1, <1>4, <1>5
<1>7. chain = <<>> <=> Len(chain) = 0
    BY DEF PersonaIInv, PersonaTyped
<1>8. \A i \in DOMAIN chain' : chain'[i].source = "seed" <=> i = 1
    BY <1>4, <1>5, <1>7
<1> QED BY <1>2, <1>3, <1>4, <1>6, <1>8 DEF PersonaIInv, PersonaTyped

LEMMA OwnerWritesKeeps ==
    ASSUME PersonaAssumption, PersonaIInv, OwnerWrites PROVE PersonaIInv'
<1> DEFINE word == <<"owner", 0, now + 1>>
           v == Version("owner", Newest \cup {word})
<1>1. /\ chain # <<>> /\ Passes /\ chain' = Append(chain, v)
      /\ late' = IF Running THEN late \cup {word} ELSE late
      /\ UNCHANGED <<monday, written, reviewing, drift>>
    BY DEF OwnerWrites
<1>2. v \in Identities /\ v.at = now + 1 /\ v.source = "owner" /\ v.from = Newest \cup {word}
    BY Links DEF PersonaIInv, Version, Identities, Grains
<1> HIDE DEF v
<1>3. reviewing' \in {"free", "orphan"} \cup Sweepers /\ drift' \in [Sweepers -> DriftStates]
    BY <1>1 DEF PersonaIInv, PersonaTyped
<1>4. PersonaTyped'
    BY <1>1, <1>2, <1>3, PutTyped
<1>5. HasNewest'
    BY <1>1, <1>2, MineGrows DEF PersonaIInv
<1>6. Cursor' = Cursor
    BY <1>1, <1>2, CursorMoves DEF PersonaIInv
<1>7. /\ Newest' = Newest \cup {word} /\ chain' # <<>>
      /\ DOMAIN chain' = DOMAIN chain \cup {Len(chain) + 1}
      /\ chain'[Len(chain) + 1] = v /\ \A i \in DOMAIN chain : chain'[i] = chain[i]
    BY <1>1, <1>2, OnTop DEF PersonaIInv
<1>8. \A d \in Dates : Page(d)' = Page(d)
    BY <1>1 DEF Page
<1>9. PagesAreDigested'
    BY <1>1, <1>6, <1>7, <1>8 DEF PersonaIInv, PagesAreDigested
<1>10. OwnersWordStays'
    BY <1>1, <1>2, <1>7 DEF PersonaIInv, OwnersWordStays
<1>11. ASSUME NEW t \in Sweepers PROVE AloneAt(t)' /\ GivenAt(t)' /\ WeekAt(t)'
    <2>1. AloneAt(t) /\ GivenAt(t) /\ WeekAt(t)
        BY DEF PersonaIInv
    <2>2. AloneAt(t)'
        BY <1>1, <1>7, <2>1 DEF AloneAt
    <2>3. WeekAt(t)'
        BY <1>1, <1>2, <1>7, <2>1 DEF WeekAt
    <2>4. GivenAt(t)'
        <3>1. CASE drift[t].pc \in {"base", "run"}
            <4>1. word \in late' /\ late \subseteq late'
                BY <1>1, <3>1 DEF Running
            <4>2. drift'[t] = drift[t]
                BY <1>1
            <4>3. \A i \in DOMAIN chain' : chain'[i].source = "owner" /\ chain'[i].at # now + 1 =>
                      i \in DOMAIN chain /\ chain'[i] = chain[i]
                BY <1>2, <1>7
            <4>4. drift[t].pc = "base" =>
                    \A d \in Dates : written'[d] # 0 => Page(d)' \in drift'[t].pages \cup Newest' \cup late'
                BY <1>1, <1>7, <1>8, <2>1, <4>1, <4>2 DEF GivenAt
            <4>5. drift[t].pc = "run" =>
                    \A d \in Dates : written'[d] # 0 => Page(d)' \in drift'[t].pages \cup drift'[t].base \cup late'
                BY <1>1, <1>8, <2>1, <4>1, <4>2 DEF GivenAt
            <4>6. drift[t].pc = "run" => \A i \in DOMAIN chain' : chain'[i].source = "owner" =>
                        <<"owner", 0, chain'[i].at>> \in drift'[t].base \cup late'
                BY <2>1, <4>1, <4>2, <4>3 DEF GivenAt
            <4> QED BY <4>2, <4>4, <4>5, <4>6 DEF GivenAt
        <3>2. CASE drift[t].pc \notin {"base", "run"}
            BY <1>1, <3>2 DEF GivenAt
        <3> QED BY <3>1, <3>2
    <2> QED BY <2>2, <2>3, <2>4
<1> QED BY <1>4, <1>5, <1>9, <1>10, <1>11 DEF PersonaIInv

LEMMA CheckKeeps ==
    ASSUME PersonaAssumption, PersonaIInv, NEW s \in Sweepers, Check(s) PROVE PersonaIInv'
<1>1. CASE ReviewedMeanwhile(s)
    BY <1>1, OverKeeps DEF Check, Unlocks
<1> SUFFICES ASSUME ~ReviewedMeanwhile(s) PROVE PersonaIInv'
    BY <1>1
<1>2. PICK n \in DriftStates : /\ drift' = [drift EXCEPT ![s] = n]
                               /\ n.pc = "read" /\ n.week = drift[s].week
    BY PlaceMoves DEF Check
<1>3. drift[s].pc = "check" /\ reviewing = s /\ reviewing' = s /\ UNCHANGED <<monday, written, late>>
    BY DEF Check, PersonaIInv, AloneAt
<1>4. ~\E i \in DOMAIN chain : chain[i].source = "review" /\ chain[i].at >= n.week
    <2> SUFFICES ASSUME NEW i \in DOMAIN chain, chain[i].source = "review", chain[i].at >= n.week
                 PROVE  FALSE
        OBVIOUS
    <2>1. chain[i].at \in Mine
        BY DEF Mine, Sources
    <2>2. Cursor # 0 /\ Cursor \in Nat /\ chain[i].at <= Cursor /\ chain[i].at \in Nat
        BY <2>1, CursorIsNewest, Links DEF PersonaIInv
    <2>3. n.week \in Nat
        BY DEF DriftStates
    <2>4. Cursor < n.week
        BY <1>2, <2>2, <2>3 DEF ReviewedMeanwhile, ReviewedSince
    <2> QED BY <2>2, <2>3, <2>4
<1>5. CASE chain # <<>>
    <2>1. UNCHANGED <<now, chain>>
        BY <1>5 DEF Check
    <2>2. n.pc \notin {"off", "lock", "base", "run"}
        BY <1>2
    <2> QED BY <1>2, <1>3, <1>4, <1>5, <2>1, <2>2, DriftMoves
<1>6. CASE chain = <<>>
    <2> DEFINE v == Version("seed", {})
    <2>1. chain' = <<v>> /\ Passes
        BY <1>6 DEF Check
    <2>2. v \in Identities /\ v.at = now + 1 /\ v.source = "seed"
        BY Links DEF PersonaIInv, Version, Identities
    <2> HIDE DEF v
    <2>3. chain' = Append(chain, v)
        BY <1>6, <2>1, <2>2
    <2>4. /\ drift' \in [Sweepers -> DriftStates] /\ drift'[s] = n
          /\ \A t \in Sweepers \ {s} : drift'[t] = drift[t]
        BY <1>2 DEF PersonaIInv, PersonaTyped
    <2>5. PersonaTyped'
        BY <1>3, <1>6, <2>1, <2>2, <2>3, <2>4, PutTyped
    <2>6. HasNewest'
        BY <2>2, <2>3, MineGrows DEF PersonaIInv
    <2>7. Cursor' = 0
        <3>1. Cursor' = Cursor
            BY <2>2, <2>3, CursorMoves DEF PersonaIInv
        <3>2. Mine = {}
            BY <1>6 DEF Mine
        <3> QED BY <3>1, <3>2, CursorIsNewest DEF PersonaIInv
    <2>8. PagesAreDigested'
        <3>1. \A d \in Dates : written'[d] \in Nat
            BY <2>5 DEF PersonaTyped
        <3> QED BY <2>7, <3>1 DEF PagesAreDigested
    <2>9. DOMAIN chain' = {1} /\ chain'[1] = v /\ chain' # <<>>
        BY <2>1
    <2>10. OwnersWordStays'
        BY <2>2, <2>9 DEF OwnersWordStays
    <2>11. \A t \in Sweepers \ {s} : drift'[t].pc \in {"off", "lock"}
        BY <1>3, <2>4, OthersRest
    <2>12. ASSUME NEW t \in Sweepers PROVE AloneAt(t)' /\ GivenAt(t)' /\ WeekAt(t)'
        BY <1>2, <1>3, <2>2, <2>4, <2>9, <2>11 DEF AloneAt, GivenAt, WeekAt
    <2> QED BY <2>5, <2>6, <2>8, <2>10, <2>12 DEF PersonaIInv
<1> QED BY <1>5, <1>6

LEMMA UpdateKeeps ==
    ASSUME PersonaAssumption, PersonaIInv, NEW s \in Sweepers, Update(s) PROVE PersonaIInv'
<1> DEFINE v == Version("review", drift[s].base \cup drift[s].pages)
           n == [drift[s] EXCEPT !.drafts = @ + 1]
<1>1. /\ drift[s].pc = "run" /\ Passes /\ chain' = Append(chain, v) /\ drift' = [drift EXCEPT ![s] = n]
      /\ UNCHANGED <<monday, written, reviewing, late>>
    BY DEF Update
<1>2. drift[s] \in DriftStates /\ drift[s].drafts \in Nat /\ drift[s].base \subseteq Grains /\ drift[s].pages \subseteq Grains
    BY DEF PersonaIInv, PersonaTyped, DriftStates
<1>3. /\ v \in Identities /\ v.at = now + 1 /\ v.source = "review" /\ v.from = drift[s].base \cup drift[s].pages
    BY <1>2, Links DEF PersonaIInv, Version, Identities
<1>4. /\ n \in DriftStates /\ n.drafts = drift[s].drafts + 1 /\ n.pc = "run"
      /\ n.base = drift[s].base /\ n.pages = drift[s].pages
    BY <1>1, <1>2, SMTT(20) DEF DriftStates
<1> HIDE DEF v, n
<1>5. /\ drift' \in [Sweepers -> DriftStates] /\ drift'[s] = n
      /\ \A t \in Sweepers \ {s} : drift'[t] = drift[t]
    BY <1>1, <1>4 DEF PersonaIInv, PersonaTyped
<1>6. AloneAt(s) /\ GivenAt(s) /\ reviewing = s /\ chain # <<>>
    BY <1>1 DEF PersonaIInv, AloneAt
<1>7. PersonaTyped'
    <2>1. reviewing' \in {"free", "orphan"} \cup Sweepers
        BY <1>1, <1>6
    <2> QED BY <1>1, <1>3, <1>5, <1>6, <2>1, PutTyped
<1>8. HasNewest'
    BY <1>1, <1>3, MineGrows DEF PersonaIInv
<1>9. /\ Newest' = drift[s].base \cup drift[s].pages /\ chain' # <<>>
      /\ DOMAIN chain' = DOMAIN chain \cup {Len(chain) + 1}
      /\ chain'[Len(chain) + 1] = v /\ \A i \in DOMAIN chain : chain'[i] = chain[i]
    BY <1>1, <1>3, OnTop DEF PersonaIInv
<1>10. \A d \in Dates : Page(d)' = Page(d)
    BY <1>1 DEF Page
<1>11. \A i \in DOMAIN chain' : chain'[i].source = "owner" => i \in DOMAIN chain /\ chain'[i] = chain[i]
    BY <1>3, <1>9
<1>12. PagesAreDigested'
    BY <1>1, <1>6, <1>9, <1>10 DEF PagesAreDigested, GivenAt
<1>13. OwnersWordStays'
    BY <1>1, <1>6, <1>9, <1>11 DEF OwnersWordStays, GivenAt
<1>14. \A t \in Sweepers \ {s} : drift'[t].pc \in {"off", "lock"}
    BY <1>1, <1>5, OthersRest
<1>15. AloneAt(s)' /\ WeekAt(s)'
    <2>1. drift'[s].drafts # 0
        BY <1>2, <1>4, <1>5
    <2> QED BY <1>1, <1>4, <1>5, <1>6, <1>9, <2>1 DEF AloneAt, WeekAt
<1>16. GivenAt(s)'
    BY <1>1, <1>4, <1>5, <1>6, <1>10, <1>11 DEF GivenAt
<1>17. \A t \in Sweepers \ {s} : AloneAt(t)' /\ WeekAt(t)' /\ GivenAt(t)'
    BY <1>14 DEF AloneAt, WeekAt, GivenAt
<1> QED BY <1>7, <1>8, <1>12, <1>13, <1>15, <1>16, <1>17 DEF PersonaIInv

LEMMA PersonaStepsKeep == PersonaAssumption /\ PersonaIInv /\ [PersonaNext]_personaVars => PersonaIInv'
<1> SUFFICES ASSUME PersonaAssumption, PersonaIInv, [PersonaNext]_personaVars PROVE PersonaIInv'
    OBVIOUS
<1>1. CASE PageWritten \/ OwnerWrites \/ NextWeek \/ PersonaLockExpires
    BY <1>1, PageWrittenKeeps, OwnerWritesKeeps, NextWeekKeeps, PersonaLockExpiresKeeps
<1>2. ASSUME NEW s \in Sweepers, WeeklySweep(s) \/ LockPersona(s) \/ Check(s) \/ ReadPages(s) \/ ReadBase(s)
      PROVE  PersonaIInv'
    BY <1>2, WeeklySweepKeeps, LockPersonaKeeps, CheckKeeps, ReadPagesKeeps, ReadBaseKeeps
<1>3. ASSUME NEW s \in Sweepers, Update(s) \/ DriftEnds(s) \/ DriftFails(s) \/ DriftDies(s)
      PROVE  PersonaIInv'
    BY <1>3, UpdateKeeps, DriftEndsKeeps, DriftFailsKeeps, DriftDiesKeeps
<1>4. CASE UNCHANGED personaVars
    <2>1. Mine' = Mine /\ Newest' = Newest /\ Cursor' = Cursor /\ \A d \in Dates : Page(d)' = Page(d)
        BY <1>4 DEF Mine, Newest, Cursor, Page, personaVars
    <2> QED BY <1>4, <2>1 DEF personaVars, PersonaIInv, PersonaTyped, HasNewest, AloneAt, GivenAt, WeekAt,
            PagesAreDigested, OwnersWordStays
<1> QED BY <1>1, <1>2, <1>3, <1>4 DEF PersonaNext

LEMMA PersonaInvariant == PersonaSpec => []PersonaIInv
<1>1. PersonaInit => PersonaIInv
    BY PersonaAssumption, PersonaInitially
<1>2. PersonaIInv /\ [PersonaNext]_personaVars => PersonaIInv'
    BY PersonaAssumption, PersonaStepsKeep
<1> QED BY <1>1, <1>2, PTL DEF PersonaSpec

LEMMA PersonaPromises == PersonaIInv => PagesAreDigested /\ OwnersWordStays /\ OneReviewAWeek
BY DEF PersonaIInv, WeekAt, OneReviewAWeek

--------------------------------------------------------------------------------
(***************************************************************************)
(* The review of a day                                                     *)
(***************************************************************************)
ReviewSteps == {"off", "lock", "check", "run", "turn", "cas", "mark", "row"}
Looks == [shows : Nat, asleep : BOOLEAN, marked : {Unset} \cup LivingDays]
ShiftStates == [pc : ReviewSteps, day : {Unset} \cup LivingDays, floor : Nat, cursor : Nat, old : Nat,
                writes : Nat, ver : Nat, read : Looks]
LifeStates == [pc : {"off", "run", "save", "review"}, day : {Unset} \cup LivingDays, asleep : BOOLEAN,
               read : {Unset} \cup LivingDays]

DayTyped ==
    /\ living \in LivingDays /\ swept \in 0 .. Sweeps
    /\ life \in LifeStates /\ (life.pc # "off" => life.day \in LivingDays)
    /\ state \in Looks /\ updates \in Nat /\ state.shows <= updates
    /\ born \in {Unset} \cup LivingDays
    /\ lived \subseteq LivingDays /\ jots \in Nat
    /\ watermark \in [at : Nat, ver : Nat] /\ watermark.at <= jots /\ turned \in Nat
    /\ pages \in [LivingDays -> [ver : Nat, from : SUBSET Nat]]
    /\ \A d \in LivingDays : pages[d].from \subseteq 1 .. jots
    /\ lock \in [LivingDays -> {"free", "orphan"} \cup Shifts]
    /\ shift \in [Shifts -> ShiftStates]
    /\ dayFaults \in [DayEvents -> Nat]
    /\ life.pc = "review" <=> shift["sleep"].pc # "off"

\* Her state shows an update as soon as there is one.
StateShown ==
    /\ born = Unset <=> updates = 0
    /\ updates > 0 => state.shows # Unset
    /\ state.asleep => updates > 0

\* A review at work holds the lock of its day, and of no other.
LocksHeld ==
    /\ \A s \in Shifts, d \in LivingDays : lock[d] = s <=> Working(s) /\ shift[s].day = d
    /\ dayFaults["crash"] = 0 => \A d \in LivingDays : lock[d] # "orphan"

\* What a review has read is not ahead of what there is; what it wrote went into its page.
Window(s) == shift[s].floor + 1 .. shift[s].cursor
SoundAt(s) ==
    /\ shift[s].pc # "off" => shift[s].day \in LivingDays /\ updates > 0
    /\ shift[s].floor <= watermark.at /\ shift[s].cursor <= jots /\ shift[s].ver <= watermark.ver
    /\ shift[s].pc \in {"off", "lock", "check"} => shift[s].writes = 0
    /\ shift[s].pc = "run" =>
        /\ pages[shift[s].day].ver = shift[s].old + shift[s].writes
        /\ shift[s].writes > 0 => Window(s) \subseteq pages[shift[s].day].from
    /\ shift[s].pc \in {"turn", "cas"} => Window(s) \subseteq pages[shift[s].day].from
    /\ shift[s].pc = "cas" /\ Unmoved(s) => shift[s].cursor > watermark.at
    /\ shift[s].pc \in {"turn", "cas", "mark", "row"} => HasPage(shift[s].day)
    /\ shift[s].pc = "row" => shift[s].read.shows \in 1 .. updates
    /\ s = "sweep" /\ shift[s].pc \notin {"off", "lock", "check"} => shift[s].old = 0

\* When the sweeps come, what was going on the day before is over.
MorningsOrdered ==
    /\ living = 1 => swept = 0 /\ shift["sweep"].pc = "off"
    /\ shift["sweep"].pc # "off" => shift["sweep"].day = living - 1 /\ swept < Sweeps
    /\ life.pc # "off" => life.day <= living
    /\ life.pc \in {"run", "save"} => life.day >= living - 1
    /\ life.pc = "review" => shift["sleep"].day = life.day
    /\ (swept > 0 \/ shift["sweep"].pc # "off") /\ life.pc \in {"run", "save"} => life.day = living
    /\ (swept > 0 /\ shift["sweep"].pc # "off") \/ swept > 1 => (life.pc = "review" => life.day = living)

Tries == dayFaults["review"] + dayFaults["idle"]
AtIt(d) == IF Working("sleep") /\ shift["sleep"].day = d THEN 1 ELSE 0

\* A sweep that ends without a page has cost a failure, or met the bedtime review of
\* that day at work, which only the first one can.
Owed(d) == d \in lived /\ born # Unset /\ d >= born /\ ~HasPage(d) /\ dayFaults["crash"] = 0
CostAt(d) == Owed(d) =>
    /\ d < living - 1 => Sweeps <= Tries + AtIt(d)
    /\ d = living - 1 => swept <= Tries + AtIt(d)

DayIInv ==
    /\ DayTyped /\ StateShown /\ LocksHeld /\ JottingsAreAbsorbed /\ MorningsOrdered
    /\ \A s \in Shifts : SoundAt(s)
    /\ \A d \in LivingDays : CostAt(d)

--------------------------------------------------------------------------------
LEMMA DayFacts ==
    ASSUME DayAssumption, DayTyped
    PROVE  /\ living \in Nat /\ swept \in Nat /\ Sweeps \in Nat /\ Sweeps > 0 /\ swept <= Sweeps
           /\ \A d \in LivingDays : d \in Nat /\ d # Unset
           /\ \A d \in LivingDays : /\ pages[d] \in [ver : Nat, from : SUBSET Nat]
                                    /\ pages[d].ver \in Nat /\ pages[d].from \subseteq 1 .. jots
           /\ \A s \in Shifts : shift[s] \in ShiftStates
           /\ watermark.at \in Nat /\ watermark.ver \in Nat /\ jots \in Nat /\ updates \in Nat
           /\ dayFaults["review"] \in Nat /\ dayFaults["idle"] \in Nat /\ dayFaults["crash"] \in Nat
           /\ Tries \in Nat
           /\ "sleep" \in Shifts /\ "sweep" \in Shifts
<1>1. living \in Nat /\ swept \in Nat /\ Sweeps \in Nat /\ Sweeps > 0 /\ swept <= Sweeps
    BY DEF DayTyped, DayAssumption, LivingDays
<1>2. \A d \in LivingDays : d \in Nat /\ d # Unset
    BY DEF DayAssumption, LivingDays, Unset
<1>3. \A d \in LivingDays : /\ pages[d] \in [ver : Nat, from : SUBSET Nat]
                            /\ pages[d].ver \in Nat /\ pages[d].from \subseteq 1 .. jots
    BY DEF DayTyped
<1>4. \A s \in Shifts : shift[s] \in ShiftStates
    BY DEF DayTyped
<1>5. watermark.at \in Nat /\ watermark.ver \in Nat /\ jots \in Nat /\ updates \in Nat
    BY DEF DayTyped
<1>6. dayFaults["review"] \in Nat /\ dayFaults["idle"] \in Nat /\ dayFaults["crash"] \in Nat
    BY DEF DayTyped, DayEvents
<1>7. Tries \in Nat
    BY <1>6 DEF Tries
<1> QED BY <1>1, <1>2, <1>3, <1>4, <1>5, <1>6, <1>7 DEF Shifts

LEMMA AtItIs == \A d : AtIt(d) \in {0, 1}
BY DEF AtIt

\* A failure is counted.
LEMMA FaultCounts ==
    ASSUME DayAssumption, DayTyped, NEW k \in DayEvents, Fault(k)
    PROVE  /\ dayFaults' \in [DayEvents -> Nat] /\ dayFaults'[k] = dayFaults[k] + 1
           /\ \A e \in DayEvents \ {k} : dayFaults'[e] = dayFaults[e]
BY DEF DayTyped, Fault

\* A review keeps what it holds as long as nobody writes its page.
LEMMA SoundStays ==
    ASSUME DayAssumption, DayTyped, DayTyped', NEW s \in Shifts, SoundAt(s), shift'[s] = shift[s],
           watermark.at <= watermark'.at, watermark.ver <= watermark'.ver,
           watermark'.ver = watermark.ver => watermark' = watermark,
           jots <= jots', updates <= updates',
           Working(s) => pages'[shift[s].day] = pages[shift[s].day]
    PROVE  SoundAt(s)'
<1> DEFINE x == shift[s]
<1>1. /\ watermark.at \in Nat /\ watermark.ver \in Nat /\ jots \in Nat /\ updates \in Nat
      /\ watermark'.at \in Nat /\ watermark'.ver \in Nat /\ jots' \in Nat /\ updates' \in Nat
    BY DEF DayTyped
<1>2. x \in ShiftStates /\ x.floor \in Nat /\ x.cursor \in Nat /\ x.ver \in Nat /\ x.read.shows \in Nat
    BY DayFacts DEF ShiftStates, Looks
<1>3. shift'[s] = x
    OBVIOUS
<1>4. Window(s)' = Window(s)
    BY <1>3 DEF Window
<1>5. x.pc # "off" => x.day \in LivingDays /\ updates' > 0
    BY <1>1 DEF SoundAt
<1>6. x.floor <= watermark'.at /\ x.cursor <= jots' /\ x.ver <= watermark'.ver
    BY <1>1, <1>2 DEF SoundAt
<1>7. x.pc = "cas" /\ watermark'.ver = x.ver => x.cursor > watermark'.at
    <2> SUFFICES ASSUME x.pc = "cas", watermark'.ver = x.ver PROVE x.cursor > watermark'.at
        OBVIOUS
    <2>1. watermark.ver = x.ver /\ watermark' = watermark
        BY <1>1, <1>2 DEF SoundAt
    <2> QED BY <2>1 DEF SoundAt, Unmoved
<1>8. x.pc = "row" => x.read.shows \in 1 .. updates'
    BY <1>1, <1>2 DEF SoundAt
<1>9. Working(s) \/ x.pc \in {"off", "lock"}
    BY DEF Working
<1> HIDE DEF x
<1>10. x.pc = "run" => /\ pages'[x.day].ver = x.old + x.writes
                       /\ x.writes > 0 => Window(s)' \subseteq pages'[x.day].from
    BY <1>4, <1>9 DEF SoundAt, x
<1>11. /\ x.pc \in {"turn", "cas"} => Window(s)' \subseteq pages'[x.day].from
       /\ x.pc \in {"turn", "cas", "mark", "row"} => pages'[x.day].ver > 0
    BY <1>4, <1>9 DEF SoundAt, x, HasPage
<1>12. s = "sweep" /\ x.pc \notin {"off", "lock", "check"} => x.old = 0
    BY DEF SoundAt, x
<1>13. (shift[s].pc = "cas" /\ Unmoved(s) => shift[s].cursor > watermark.at)'
    BY <1>3, <1>7 DEF Unmoved
<1>14. (shift[s].pc \in {"turn", "cas"} => Window(s) \subseteq pages[shift[s].day].from)'
    BY <1>3, <1>11
<1>15. (shift[s].pc = "run" => /\ pages[shift[s].day].ver = shift[s].old + shift[s].writes
                               /\ shift[s].writes > 0 => Window(s) \subseteq pages[shift[s].day].from)'
    BY <1>3, <1>10
<1>16. (shift[s].pc \in {"turn", "cas", "mark", "row"} => HasPage(shift[s].day))'
    BY <1>3, <1>11 DEF HasPage
<1>17. (s = "sweep" /\ shift[s].pc \notin {"off", "lock", "check"} => shift[s].old = 0)'
    BY <1>3, <1>12
<1>18. (shift[s].pc # "off" => shift[s].day \in LivingDays /\ updates > 0)'
    BY <1>3, <1>5
<1>19. (shift[s].floor <= watermark.at /\ shift[s].cursor <= jots /\ shift[s].ver <= watermark.ver)'
    BY <1>3, <1>6
<1>20. (shift[s].pc = "row" => shift[s].read.shows \in 1 .. updates)'
    BY <1>3, <1>8
<1>21. (shift[s].pc \in {"off", "lock", "check"} => shift[s].writes = 0)'
    BY DEF SoundAt
<1> QED BY <1>13, <1>14, <1>15, <1>16, <1>17, <1>18, <1>19, <1>20, <1>21 DEF SoundAt

\* What a day owes is not more when nothing but failures and pages come to it.
LEMMA CostStays ==
    ASSUME DayAssumption, DayTyped, DayTyped', NEW d \in LivingDays, CostAt(d),
           living' = living, lived' = lived, born' = born,
           HasPage(d) => HasPage(d)', dayFaults'["crash"] = 0 => dayFaults["crash"] = 0,
           Owed(d)' => Tries + AtIt(d) <= Tries' + AtIt(d)',
           Owed(d)' /\ d = living - 1 => swept' - swept <= Tries' + AtIt(d)' - (Tries + AtIt(d))
    PROVE  CostAt(d)'
<1> SUFFICES ASSUME Owed(d)' PROVE /\ d < living' - 1 => Sweeps <= Tries' + AtIt(d)'
                                   /\ d = living' - 1 => swept' <= Tries' + AtIt(d)'
    BY DEF CostAt
<1>1. Owed(d)
    BY DEF Owed
<1>2. /\ d < living - 1 => Sweeps <= Tries + AtIt(d)
      /\ d = living - 1 => swept <= Tries + AtIt(d)
    BY <1>1 DEF CostAt
<1>3. Tries \in Nat /\ Sweeps \in Nat /\ swept \in Nat /\ AtIt(d) \in {0, 1}
    BY DayFacts, AtItIs
<1>4. Tries' \in Nat /\ swept' \in Nat /\ AtIt(d)' \in {0, 1}
    <2>1. dayFaults' \in [DayEvents -> Nat] /\ swept' \in 0 .. Sweeps
        BY DEF DayTyped
    <2>2. dayFaults'["review"] \in Nat /\ dayFaults'["idle"] \in Nat
        BY <2>1 DEF DayEvents
    <2> QED BY <1>3, <2>1, <2>2 DEF Tries, AtIt
<1> QED BY <1>1, <1>2, <1>3, <1>4

LEMMA NoShiftTyped == NoShift \in ShiftStates /\ NoLifeRound \in LifeStates
<1>1. [shows |-> Unset, asleep |-> FALSE, marked |-> Unset] \in Looks
    BY DEF Looks, Unset
<1>2. NoShift \in ShiftStates
    BY <1>1 DEF NoShift, ShiftStates, ReviewSteps, Unset
<1> QED BY <1>2 DEF NoLifeRound, LifeStates

LEMMA DayInitially ==
    ASSUME DayAssumption, DayInit PROVE DayIInv
<1>1. 1 \in LivingDays
    BY DEF LivingDays, DayAssumption
<1>2. DayTyped
    <2>1. state \in Looks /\ NoShift.pc = "off" /\ NoLifeRound.pc = "off"
        BY DEF DayInit, Looks, NoShift, NoLifeRound, Unset
    <2>2. "sleep" \in Shifts
        BY DEF Shifts
    <2>3. state.shows = 0
        BY DEF DayInit, Unset
    <2> QED BY <1>1, <2>1, <2>2, <2>3, NoShiftTyped DEF DayTyped, DayInit, DayAssumption
<1>3. StateShown /\ LocksHeld
    BY DEF DayInit, StateShown, LocksHeld, Working, NoShift, Shifts, Unset
<1>4. \A s \in Shifts : SoundAt(s)
    BY DEF DayInit, SoundAt, NoShift, Unset
<1>5. JottingsAreAbsorbed
    BY DEF DayInit, JottingsAreAbsorbed
<1>6. MorningsOrdered
    BY DEF DayInit, MorningsOrdered, NoShift, NoLifeRound, Shifts
<1>7. \A d \in LivingDays : CostAt(d)
    BY DEF DayInit, CostAt, Owed
<1> QED BY <1>2, <1>3, <1>4, <1>5, <1>6, <1>7 DEF DayIInv

--------------------------------------------------------------------------------
\* Her own steps touch neither a review nor a page, a lock or the watermark.
LEMMA HerStepKeeps ==
    ASSUME DayAssumption, DayIInv, DayTyped', StateShown', MorningsOrdered',
           UNCHANGED <<living, swept, watermark, turned, pages, lock, shift>>,
           jots <= jots', updates <= updates',
           UNCHANGED dayFaults \/ Fault("round"),
           \A d \in LivingDays : Owed(d)' => Owed(d) \/ d > living - 1 \/ (d = living - 1 /\ swept = 0)
    PROVE  DayIInv'
<1>1. \A e \in DayEvents : e # "round" => dayFaults'[e] = dayFaults[e]
    <2>1. CASE Fault("round")
        BY <2>1, FaultCounts DEF DayIInv, DayEvents
    <2> QED BY <2>1
<1>2. LocksHeld'
    BY <1>1 DEF DayIInv, LocksHeld, Working, DayEvents
<1>3. \A s \in Shifts : SoundAt(s)'
    <2> SUFFICES ASSUME NEW s \in Shifts PROVE SoundAt(s)'
        OBVIOUS
    <2>1. SoundAt(s) /\ DayTyped
        BY DEF DayIInv
    <2>2. watermark.at <= watermark'.at /\ watermark.ver <= watermark'.ver
        BY DayFacts DEF DayIInv
    <2> QED BY <2>1, <2>2, SoundStays
<1>4. JottingsAreAbsorbed'
    BY DEF DayIInv, JottingsAreAbsorbed
<1>5. \A d \in LivingDays : CostAt(d)'
    <2> SUFFICES ASSUME NEW d \in LivingDays, Owed(d)'
                 PROVE  /\ d < living - 1 => Sweeps <= Tries' + AtIt(d)'
                        /\ d = living - 1 => swept <= Tries' + AtIt(d)'
        BY DEF CostAt
    <2>1. Tries' = Tries /\ AtIt(d)' = AtIt(d)
        BY <1>1 DEF Tries, AtIt, Working, DayEvents
    <2>2. Tries \in Nat /\ AtIt(d) \in {0, 1} /\ swept \in Nat /\ living \in Nat /\ d \in Nat
        BY DayFacts, AtItIs DEF DayIInv
    <2>3. CASE Owed(d)
        BY <2>1, <2>3 DEF DayIInv, CostAt
    <2>4. CASE d > living - 1 \/ (d = living - 1 /\ swept = 0)
        BY <2>1, <2>2, <2>4
    <2> QED BY <2>3, <2>4
<1> QED BY <1>2, <1>3, <1>4, <1>5 DEF DayIInv

LEMMA StartRoundKeeps ==
    ASSUME DayAssumption, DayIInv, StartRound PROVE DayIInv'
<1>1. /\ life.pc = "off" /\ life'.pc = "run" /\ life'.day = living /\ life' \in LifeStates
      /\ UNCHANGED <<living, swept, state, updates, born, lived, jots, watermark, turned, pages, lock, shift, dayFaults>>
    BY DEF StartRound, DayIInv, DayTyped, LifeStates, NoLifeRound, Looks, Unset
<1>2. DayTyped'
    BY <1>1 DEF DayIInv, DayTyped
<1>3. StateShown'
    BY <1>1 DEF DayIInv, StateShown
<1>4. MorningsOrdered'
    BY <1>1, DayFacts DEF DayIInv, MorningsOrdered
<1>5. \A d \in LivingDays : Owed(d)' => Owed(d)
    BY <1>1 DEF Owed, HasPage
<1>6. jots <= jots' /\ updates <= updates'
    BY <1>1, DayFacts DEF DayIInv
<1> QED BY <1>1, <1>2, <1>3, <1>4, <1>5, <1>6, HerStepKeeps

LEMMA JotKeeps ==
    ASSUME DayAssumption, DayIInv, Jot PROVE DayIInv'
<1>1. /\ jots' = jots + 1
      /\ UNCHANGED <<living, swept, life, state, updates, born, lived, watermark, turned, pages, lock, shift, dayFaults>>
    BY DEF Jot
<1>2. DayTyped'
    <2>1. jots \in Nat /\ watermark.at \in Nat /\ watermark.at <= jots
        BY DEF DayIInv, DayTyped
    <2>2. jots' \in Nat /\ watermark.at <= jots' /\ \A d \in LivingDays : pages[d].from \subseteq 1 .. jots'
        BY <1>1, <2>1 DEF DayIInv, DayTyped
    <2> QED BY <1>1, <2>2 DEF DayIInv, DayTyped
<1>3. StateShown' /\ MorningsOrdered'
    BY <1>1 DEF DayIInv, StateShown, MorningsOrdered
<1>4. \A d \in LivingDays : Owed(d)' => Owed(d)
    BY <1>1 DEF Owed, HasPage
<1>5. jots <= jots' /\ updates <= updates'
    BY <1>1, DayFacts DEF DayIInv
<1> QED BY <1>1, <1>2, <1>3, <1>4, <1>5, HerStepKeeps

LEMMA SaveReadsKeeps ==
    ASSUME DayAssumption, DayIInv, SaveReads PROVE DayIInv'
<1>1. /\ life.pc = "run" /\ life'.pc = "save" /\ life'.day = life.day /\ life' \in LifeStates
      /\ UNCHANGED <<living, swept, state, updates, born, lived, jots, watermark, turned, pages, lock, shift, dayFaults>>
    BY DEF SaveReads, DayIInv, DayTyped, LifeStates, Looks
<1>2. DayTyped'
    BY <1>1 DEF DayIInv, DayTyped
<1>3. StateShown' /\ MorningsOrdered'
    BY <1>1 DEF DayIInv, StateShown, MorningsOrdered
<1>4. \A d \in LivingDays : Owed(d)' => Owed(d)
    BY <1>1 DEF Owed, HasPage
<1>5. jots <= jots' /\ updates <= updates'
    BY <1>1, DayFacts DEF DayIInv
<1> QED BY <1>1, <1>2, <1>3, <1>4, <1>5, HerStepKeeps

\* The first update may make a day one she lived: not one that is long past.
LEMMA SaveWritesKeeps ==
    ASSUME DayAssumption, DayIInv, SaveWrites PROVE DayIInv'
<1>1. /\ life.pc = "save" /\ life.day \in LivingDays
      /\ life'.pc = "run" /\ life'.day = life.day /\ life' \in LifeStates
      /\ updates' = updates + 1 /\ updates \in Nat
      /\ born' = (IF updates = 0 THEN life.day ELSE born)
      /\ UNCHANGED <<living, swept, lived, jots, watermark, turned, pages, lock, shift, dayFaults>>
    BY DEF SaveWrites, DayIInv, DayTyped, LifeStates
<1>2. state' \in Looks /\ state'.shows = updates + 1
    <2>1. life.read \in {Unset} \cup LivingDays /\ updates + 1 \in Nat
        BY <1>1 DEF DayIInv, DayTyped, LifeStates
    <2>2. PICK asleep \in BOOLEAN : state' = [shows |-> updates + 1, asleep |-> asleep, marked |-> life.read]
        BY DEF SaveWrites
    <2>3. PICK k \in Nat : k = updates + 1
        BY <2>1
    <2>4. state' = [shows |-> k, asleep |-> asleep, marked |-> life.read]
        BY <2>2, <2>3
    <2>5. state' \in Looks
        BY <2>1, <2>4 DEF Looks
    <2> QED BY <2>3, <2>4, <2>5
<1>3. DayTyped'
    <2>1. updates' \in Nat /\ state'.shows <= updates'
        BY <1>1, <1>2
    <2> QED BY <1>1, <1>2, <2>1 DEF DayIInv, DayTyped
<1>4. StateShown'
    BY <1>1, <1>2, DayFacts DEF DayIInv, StateShown, Unset
<1>5. MorningsOrdered'
    BY <1>1 DEF DayIInv, MorningsOrdered
<1>6. ASSUME NEW d \in LivingDays, Owed(d)'
      PROVE  Owed(d) \/ d > living - 1 \/ (d = living - 1 /\ swept = 0)
    <2>1. CASE updates # 0
        BY <1>1, <1>6, <2>1 DEF DayIInv, StateShown, Owed, HasPage
    <2>2. CASE updates = 0
        <3>1. d >= life.day /\ d \in Nat /\ living \in Nat /\ life.day \in Nat /\ swept \in Nat
            BY <1>1, <1>6, <2>2, DayFacts DEF Owed, DayIInv
        <3>2. life.day >= living - 1 /\ (swept > 0 => life.day = living)
            BY <1>1 DEF DayIInv, MorningsOrdered
        <3> QED BY <3>1, <3>2
    <2> QED BY <2>1, <2>2
<1>7. jots <= jots' /\ updates <= updates'
    BY <1>1, DayFacts DEF DayIInv
<1> QED BY <1>1, <1>3, <1>4, <1>5, <1>6, <1>7, HerStepKeeps

LEMMA RoundFailsKeeps ==
    ASSUME DayAssumption, DayIInv, RoundFails PROVE DayIInv'
<1>1. /\ life.pc \in {"run", "save"} /\ life' = NoLifeRound /\ life'.pc = "off" /\ Fault("round")
      /\ UNCHANGED <<living, swept, state, updates, born, lived, jots, watermark, turned, pages, lock, shift>>
    BY DEF RoundFails, NoLifeRound
<1>2. dayFaults' \in [DayEvents -> Nat] /\ dayFaults'["crash"] = dayFaults["crash"]
    BY <1>1, FaultCounts DEF DayIInv, DayEvents
<1>3. DayTyped'
    BY <1>1, <1>2, NoShiftTyped DEF DayIInv, DayTyped
<1>4. StateShown' /\ MorningsOrdered'
    BY <1>1 DEF DayIInv, StateShown, MorningsOrdered
<1>5. \A d \in LivingDays : Owed(d)' => Owed(d)
    BY <1>1, <1>2 DEF Owed, HasPage
<1>6. jots <= jots' /\ updates <= updates'
    BY <1>1, DayFacts DEF DayIInv
<1> QED BY <1>1, <1>3, <1>4, <1>5, <1>6, HerStepKeeps

\* Once the sweeps have begun no round of the day before is left to end.
LEMMA EndRoundKeeps ==
    ASSUME DayAssumption, DayIInv, EndRound PROVE DayIInv'
<1>1. /\ life.pc = "run" /\ life.day \in LivingDays /\ lived' = lived \cup {life.day}
      /\ UNCHANGED <<living, swept, state, updates, born, jots, watermark, turned, pages, lock, dayFaults>>
    BY DEF EndRound, DayIInv, DayTyped
<1>2. CASE ~(state.asleep /\ ~life.asleep)
    <2>1. life' = NoLifeRound /\ shift' = shift /\ life'.pc = "off"
        BY <1>2 DEF EndRound, NoLifeRound
    <2>2. DayTyped'
        BY <1>1, <2>1, NoShiftTyped DEF DayIInv, DayTyped
    <2>3. StateShown' /\ MorningsOrdered'
        BY <1>1, <2>1 DEF DayIInv, StateShown, MorningsOrdered
    <2>4. ASSUME NEW d \in LivingDays, Owed(d)'
          PROVE  Owed(d) \/ d > living - 1 \/ (d = living - 1 /\ swept = 0)
        <3>1. CASE d \in lived
            BY <1>1, <2>4, <3>1 DEF Owed, HasPage
        <3>2. CASE d = life.day
            <4>1. d \in Nat /\ living \in Nat /\ swept \in Nat
                BY DayFacts DEF DayIInv
            <4>2. d >= living - 1 /\ (swept > 0 => d = living)
                BY <1>1, <3>2 DEF DayIInv, MorningsOrdered
            <4> QED BY <4>1, <4>2
        <3> QED BY <1>1, <2>4, <3>1, <3>2 DEF Owed
    <2>5. jots <= jots' /\ updates <= updates'
        BY <1>1, DayFacts DEF DayIInv
    <2> QED BY <1>1, <2>1, <2>2, <2>3, <2>4, <2>5, HerStepKeeps
<1>3. CASE state.asleep /\ ~life.asleep
    <2> DEFINE n == [NoShift EXCEPT !.pc = "lock", !.day = life.day]
    <2>1. life'.pc = "review" /\ life'.day = life.day /\ life' \in LifeStates /\ shift' = [shift EXCEPT !["sleep"] = n]
        BY <1>1, <1>3 DEF EndRound, DayIInv, DayTyped, LifeStates
    <2>2. /\ n \in ShiftStates /\ n.pc = "lock" /\ n.day = life.day
          /\ n.floor = 0 /\ n.cursor = 0 /\ n.ver = 0 /\ n.writes = 0
        BY <1>1, NoShiftTyped DEF NoShift, ShiftStates, ReviewSteps, Unset
    <2> HIDE DEF n
    <2>3. /\ shift' \in [Shifts -> ShiftStates] /\ shift'["sleep"] = n /\ shift'["sweep"] = shift["sweep"]
          /\ shift["sleep"].pc = "off" /\ updates > 0
        BY <1>1, <1>3, <2>1, <2>2 DEF DayIInv, DayTyped, Shifts, StateShown
    <2>4. DayTyped'
        BY <1>1, <2>1, <2>2, <2>3 DEF DayIInv, DayTyped
    <2>5. StateShown'
        BY <1>1 DEF DayIInv, StateShown
    <2>6. \A s \in Shifts : Working(s)' = Working(s) /\ (Working(s) => shift'[s] = shift[s])
        BY <2>2, <2>3 DEF Working, Shifts
    <2>7. LocksHeld'
        BY <1>1, <2>6 DEF DayIInv, LocksHeld
    <2>8. MorningsOrdered'
        <3>1. living \in Nat /\ swept \in Nat /\ life.day \in Nat
            BY <1>1, DayFacts DEF DayIInv
        <3>2. MorningsOrdered
            BY DEF DayIInv
        <3>3. (swept > 0 /\ shift["sweep"].pc # "off") \/ swept > 1 => life.day = living
            BY <1>1, <3>1, <3>2 DEF MorningsOrdered
        <3>4. life.day <= living
            BY <1>1, <3>2 DEF MorningsOrdered
        <3> QED BY <1>1, <2>1, <2>2, <2>3, <3>2, <3>3, <3>4 DEF MorningsOrdered
    <2>9. SoundAt("sleep")' /\ SoundAt("sweep")'
        <3>1. watermark.at \in Nat /\ watermark.ver \in Nat /\ jots \in Nat /\ updates \in Nat
            BY DayFacts DEF DayIInv
        <3>2. SoundAt("sleep")'
            BY <1>1, <2>2, <2>3, <3>1 DEF SoundAt
        <3>3. SoundAt("sweep")'
            BY <1>1, <2>3, <2>4, <3>1, SoundStays DEF DayIInv, Shifts
        <3> QED BY <3>2, <3>3
    <2>10. JottingsAreAbsorbed'
        BY <1>1 DEF DayIInv, JottingsAreAbsorbed
    <2>11. ASSUME NEW d \in LivingDays PROVE CostAt(d)'
        <3> SUFFICES ASSUME Owed(d)' PROVE /\ d < living - 1 => Sweeps <= Tries + AtIt(d)
                                           /\ d = living - 1 => swept <= Tries + AtIt(d)
            <4>1. AtIt(d)' = AtIt(d) /\ Tries' = Tries
                BY <1>1, <2>6 DEF AtIt, Tries, Shifts
            <4> QED BY <1>1, <4>1 DEF CostAt
        <3>1. CASE d \in lived
            BY <1>1, <3>1 DEF Owed, HasPage, DayIInv, CostAt
        <3>2. CASE d = life.day
            <4>1. d \in Nat /\ living \in Nat /\ swept \in Nat /\ Tries \in Nat /\ AtIt(d) \in {0, 1}
                BY DayFacts, AtItIs DEF DayIInv
            <4>2. d >= living - 1 /\ (swept > 0 => d = living)
                BY <1>1, <3>2 DEF DayIInv, MorningsOrdered
            <4> QED BY <4>1, <4>2
        <3> QED BY <1>1, <3>1, <3>2 DEF Owed
    <2> QED BY <2>4, <2>5, <2>7, <2>8, <2>9, <2>10, <2>11 DEF DayIInv, Shifts
<1> QED BY <1>2, <1>3

--------------------------------------------------------------------------------
\* The next day begins: whoever was owed a page on the last one has used up its sweeps.
LEMMA NextDayKeeps ==
    ASSUME DayAssumption, DayIInv, NextDay PROVE DayIInv'
<1> USE DEF DayIInv
<1>1. /\ living < MaxLiving /\ living' = living + 1 /\ swept' = 0
      /\ living = 1 \/ (swept = Sweeps /\ shift["sweep"].pc = "off")
      /\ UNCHANGED <<life, updates, born, lived, jots, state, watermark, turned, pages, lock, shift, dayFaults>>
    BY DEF NextDay, lifeVars
<1>2. living \in Nat /\ swept \in Nat /\ Sweeps \in Nat /\ Sweeps > 0 /\ living >= 1
    BY DayFacts DEF DayTyped, LivingDays, DayAssumption
<1>3. shift["sweep"].pc = "off"
    BY <1>1 DEF MorningsOrdered
<1>4. DayTyped'
    <2>1. living' \in LivingDays /\ swept' \in 0 .. Sweeps
        BY <1>1, <1>2 DEF LivingDays, DayAssumption
    <2> QED BY <1>1, <2>1 DEF DayTyped
<1>5. StateShown' /\ LocksHeld' /\ JottingsAreAbsorbed'
    BY <1>1 DEF StateShown, LocksHeld, Working, JottingsAreAbsorbed
<1>6. \A s \in Shifts : SoundAt(s)'
    <2> SUFFICES ASSUME NEW s \in Shifts PROVE SoundAt(s)'
        OBVIOUS
    <2>1. SoundAt(s) /\ watermark.at <= watermark.at /\ watermark.ver <= watermark.ver
             /\ jots <= jots /\ updates <= updates
        BY DayFacts
    <2> QED BY <1>1, <1>4, <2>1, SoundStays
<1>7. MorningsOrdered'
    <2>1. life.pc # "off" => life.day \in Nat /\ life.day <= living /\ life.day >= 1
        BY <1>2 DEF MorningsOrdered, DayTyped, LivingDays, DayAssumption
    <2>2. life.pc \in {"run", "save"} => life.day >= living
        <3>1. CASE living = 1
            BY <2>1, <3>1
        <3>2. CASE living # 1
            BY <1>1, <1>2, <2>1, <3>2 DEF MorningsOrdered
        <3> QED BY <3>1, <3>2
    <2>3. life.pc = "review" => shift["sleep"].day = life.day
        BY DEF MorningsOrdered
    <2> QED BY <1>1, <1>2, <1>3, <2>1, <2>2, <2>3 DEF MorningsOrdered
<1>8. ASSUME NEW d \in LivingDays PROVE CostAt(d)'
    <2>1. Owed(d)' = Owed(d) /\ Tries' = Tries /\ AtIt(d)' = AtIt(d)
        BY <1>1 DEF Owed, HasPage, Tries, AtIt, Working
    <2>2. d \in Nat /\ d >= 1 /\ Tries \in Nat /\ AtIt(d) \in {0, 1}
        BY DayFacts, AtItIs DEF LivingDays, DayAssumption
    <2>3. CostAt(d)
        OBVIOUS
    <2>4. CASE d < living - 1
        BY <1>1, <1>2, <2>1, <2>2, <2>3, <2>4 DEF CostAt
    <2>5. CASE d = living - 1
        BY <1>1, <1>2, <2>1, <2>2, <2>3, <2>5 DEF CostAt
    <2>6. CASE d > living - 1
        BY <1>1, <1>2, <2>1, <2>2, <2>6 DEF CostAt
    <2> QED BY <1>2, <2>2, <2>4, <2>5, <2>6
<1> QED BY <1>4, <1>5, <1>6, <1>7, <1>8

\* A sweep passes over a day that has its page, or sets out for it.
LEMMA MorningSweepKeeps ==
    ASSUME DayAssumption, DayIInv, MorningSweep PROVE DayIInv'
<1> USE DEF DayIInv
<1>1. /\ living > 1 /\ swept < Sweeps /\ shift["sweep"].pc = "off"
      /\ (life.pc \in {"run", "save"} \/ (life.pc = "review" /\ swept > 0)) => life.day = living
      /\ UNCHANGED <<life, updates, born, lived, jots, living, state, watermark, turned, pages, lock, dayFaults>>
    BY DEF MorningSweep, lifeVars
<1>2. living \in Nat /\ swept \in Nat /\ Sweeps \in Nat /\ updates \in Nat /\ state.shows \in Nat
    BY DayFacts DEF DayTyped, Looks
<1>3. CASE state.shows = Unset \/ HasPage(living - 1)
    <2>1. swept' = swept + 1 /\ shift' = shift
        BY <1>3 DEF MorningSweep, Done
    <2>2. DayTyped'
        <3>1. swept' \in 0 .. Sweeps
            BY <1>1, <1>2, <2>1
        <3> QED BY <1>1, <2>1, <3>1 DEF DayTyped
    <2>3. StateShown' /\ LocksHeld' /\ JottingsAreAbsorbed'
        BY <1>1, <2>1 DEF StateShown, LocksHeld, Working, JottingsAreAbsorbed
    <2>4. \A s \in Shifts : SoundAt(s)'
        <3> SUFFICES ASSUME NEW s \in Shifts PROVE SoundAt(s)'
            OBVIOUS
        <3>1. SoundAt(s) /\ watermark.at <= watermark.at /\ watermark.ver <= watermark.ver
                 /\ jots <= jots /\ updates <= updates
            BY DayFacts
        <3> QED BY <1>1, <2>1, <2>2, <3>1, SoundStays
    <2>5. MorningsOrdered'
        BY <1>1, <1>2, <2>1 DEF MorningsOrdered
    <2>6. ASSUME NEW d \in LivingDays PROVE CostAt(d)'
        <3> SUFFICES ASSUME Owed(d)' PROVE CostAt(d)'
            BY DEF CostAt
        <3>1. Owed(d) /\ Tries' = Tries /\ AtIt(d)' = AtIt(d)
            BY <1>1, <2>1 DEF Owed, HasPage, Tries, AtIt, Working
        <3>2. d # living - 1
            BY <1>2, <1>3, <3>1 DEF Owed, StateShown, Unset
        <3> QED BY <1>1, <3>1, <3>2 DEF CostAt
    <2> QED BY <2>2, <2>3, <2>4, <2>5, <2>6
<1>4. CASE ~(state.shows = Unset \/ HasPage(living - 1))
    <2> DEFINE n == [NoShift EXCEPT !.pc = "lock", !.day = living - 1]
    <2>1. swept' = swept /\ shift' = [shift EXCEPT !["sweep"] = n]
        BY <1>4 DEF MorningSweep, Done
    <2>2. living - 1 \in LivingDays
        BY <1>1, <1>2 DEF LivingDays, DayTyped, DayAssumption
    <2>3. /\ n \in ShiftStates /\ n.pc = "lock" /\ n.day = living - 1
          /\ n.floor = 0 /\ n.cursor = 0 /\ n.ver = 0 /\ n.writes = 0
        BY <2>2, NoShiftTyped DEF NoShift, ShiftStates, ReviewSteps, Unset
    <2> HIDE DEF n
    <2>4. shift' \in [Shifts -> ShiftStates] /\ shift'["sweep"] = n /\ shift'["sleep"] = shift["sleep"]
        BY <2>1, <2>3 DEF DayTyped, Shifts
    <2>5. DayTyped'
        BY <1>1, <2>1, <2>4 DEF DayTyped
    <2>6. StateShown' /\ JottingsAreAbsorbed'
        BY <1>1 DEF StateShown, JottingsAreAbsorbed
    <2>7. \A s \in Shifts : Working(s)' = Working(s) /\ (Working(s) => shift'[s] = shift[s])
        BY <1>1, <2>3, <2>4 DEF Working, Shifts
    <2>8. LocksHeld'
        BY <1>1, <2>7 DEF LocksHeld
    <2>9. MorningsOrdered'
        BY <1>1, <1>2, <2>1, <2>3, <2>4 DEF MorningsOrdered
    <2>10. SoundAt("sleep")' /\ SoundAt("sweep")'
        <3>1. watermark.at \in Nat /\ watermark.ver \in Nat /\ jots \in Nat
            BY DayFacts
        <3>2. updates > 0
            BY <1>2, <1>4 DEF DayTyped, Unset
        <3>3. SoundAt("sweep")'
            BY <1>1, <2>2, <2>3, <2>4, <3>1, <3>2 DEF SoundAt
        <3>4. watermark.at <= watermark.at /\ watermark.ver <= watermark.ver /\ jots <= jots /\ updates <= updates
            BY <1>2, <3>1
        <3>5. "sleep" \in Shifts /\ SoundAt("sleep")
            BY DEF Shifts
        <3>6. SoundAt("sleep")'
            BY <1>1, <2>4, <2>5, <3>4, <3>5, SoundStays
        <3> QED BY <3>3, <3>6
    <2>11. ASSUME NEW d \in LivingDays PROVE CostAt(d)'
        <3>1. Owed(d)' = Owed(d) /\ Tries' = Tries
            BY <1>1 DEF Owed, HasPage, Tries
        <3>2. AtIt(d)' = AtIt(d)
            BY <2>7 DEF AtIt, Shifts
        <3> QED BY <1>1, <2>1, <3>1, <3>2 DEF CostAt
    <2> QED BY <2>5, <2>6, <2>8, <2>9, <2>10, <2>11 DEF Shifts
<1> QED BY <1>3, <1>4

LEMMA DayLockExpiresKeeps ==
    ASSUME DayAssumption, DayIInv, DayLockExpires PROVE DayIInv'
<1> USE DEF DayIInv
<1>1. /\ UNCHANGED <<living, swept, life, updates, born, lived, jots, state, watermark, turned, pages, shift, dayFaults>>
      /\ lock' \in [LivingDays -> {"free", "orphan"} \cup Shifts]
      /\ \A d \in LivingDays : lock'[d] = lock[d] \/ (lock[d] = "orphan" /\ lock'[d] = "free")
    BY DEF DayLockExpires, lifeVars, DayTyped
<1>2. DayTyped' /\ StateShown' /\ JottingsAreAbsorbed' /\ MorningsOrdered'
    BY <1>1 DEF DayTyped, StateShown, JottingsAreAbsorbed, MorningsOrdered
<1>3. LocksHeld'
    <2>1. "free" \notin Shifts /\ "orphan" \notin Shifts
        BY DEF Shifts
    <2> QED BY <1>1, <2>1 DEF LocksHeld, Working
<1>4. \A s \in Shifts : SoundAt(s)'
    BY <1>1 DEF SoundAt, Window, Unmoved, HasPage
<1>5. \A d \in LivingDays : CostAt(d)'
    BY <1>1 DEF CostAt, Owed, HasPage, Tries, AtIt, Working
<1> QED BY <1>2, <1>3, <1>4, <1>5

--------------------------------------------------------------------------------
\* Two reviews at work are never of the same day.
LEMMA OneReviewADay ==
    ASSUME LocksHeld, NEW s \in Shifts, NEW t \in Shifts, s # t, Working(s), Working(t),
           shift[s].day \in LivingDays, shift[t].day \in LivingDays
    PROVE  shift[s].day # shift[t].day
BY DEF LocksHeld

\* A review at work goes on: it may write its page, turn the watermark, or fail to.
LEMMA ReviewGoesOn ==
    ASSUME DayAssumption, DayIInv, NEW s \in Shifts, Working(s), DayTyped', Working(s)',
           shift'[s].day = shift[s].day, \A t \in Shifts : t # s => shift'[t] = shift[t],
           UNCHANGED <<living, swept, life, state, updates, born, lived, jots, lock>>,
           \A d \in LivingDays : d # shift[s].day => pages'[d] = pages[d],
           pages[shift[s].day].ver <= pages'[shift[s].day].ver,
           watermark.at <= watermark'.at, watermark.ver <= watermark'.ver,
           watermark'.ver = watermark.ver => watermark' = watermark,
           dayFaults'["crash"] = dayFaults["crash"], Tries <= Tries',
           JottingsAreAbsorbed', SoundAt(s)'
    PROVE  DayIInv'
<1> USE DEF DayIInv
<1>1. /\ \A t \in Shifts : shift'[t].day = shift[t].day /\ Working(t)' = Working(t)
      /\ shift'["sweep"].pc # "off" <=> shift["sweep"].pc # "off"
    BY DEF Working, Shifts
<1>2. StateShown'
    BY DEF StateShown
<1>3. LocksHeld'
    BY <1>1 DEF LocksHeld
<1>4. MorningsOrdered'
    BY <1>1 DEF MorningsOrdered, Shifts
<1>5. \A t \in Shifts : SoundAt(t)'
    <2> SUFFICES ASSUME NEW t \in Shifts, t # s PROVE SoundAt(t)'
        OBVIOUS
    <2>1. jots <= jots' /\ updates <= updates'
        BY DayFacts
    <2>2. Working(t) => pages'[shift[t].day] = pages[shift[t].day]
        <3>1. Working(t) => shift[t].day \in LivingDays
            BY DEF SoundAt, Working
        <3>2. shift[s].day \in LivingDays
            BY DEF SoundAt, Working
        <3> QED BY <3>1, <3>2, OneReviewADay
    <2>3. shift'[t] = shift[t] /\ SoundAt(t)
        OBVIOUS
    <2> QED BY <2>1, <2>2, <2>3, SoundStays
<1>6. ASSUME NEW d \in LivingDays PROVE CostAt(d)'
    <2>1. AtIt(d)' = AtIt(d)
        BY <1>1 DEF AtIt, Shifts
    <2>2. HasPage(d) => HasPage(d)'
        <3>1. pages[d].ver \in Nat /\ pages'[d].ver \in Nat
            BY DEF DayTyped
        <3> QED BY <3>1 DEF HasPage
    <2>3. Tries \in Nat /\ AtIt(d) \in {0, 1} /\ swept \in Nat
        BY DayFacts, AtItIs
    <2>4. Tries' \in Nat
        BY DEF DayTyped, Tries, DayEvents
    <2>5. Owed(d)' => Owed(d)
        BY <2>2 DEF Owed
    <2>6. CostAt(d)
        OBVIOUS
    <2> QED BY <2>1, <2>3, <2>4, <2>5, <2>6, DayFacts DEF CostAt
<1> QED BY <1>2, <1>3, <1>4, <1>5, <1>6

\* A review is over.  What it costs the day it was for: its page is there, a failure was
\* counted, or the other review of that day is at work.
LEMMA ReviewLeaves ==
    ASSUME DayAssumption, DayIInv, NEW s \in Shifts, shift[s].pc # "off", Leaves(s),
           NEW day \in LivingDays, day = shift[s].day,
           UNCHANGED <<living, updates, born, lived, jots, watermark, turned, pages>>,
           state' \in Looks, state'.shows \in 1 .. updates,
           lock' \in [LivingDays -> {"free", "orphan"} \cup Shifts],
           \A d \in LivingDays : lock'[d] # s /\ \A t \in Shifts : t # s => (lock'[d] = t <=> lock[d] = t),
           dayFaults' \in [DayEvents -> Nat], dayFaults'["crash"] = 0 => dayFaults["crash"] = 0,
           dayFaults'["crash"] = 0 => \A d \in LivingDays : lock'[d] = "orphan" => lock[d] = "orphan",
           Tries <= Tries',
           s = "sleep" => (Owed(day)' => Tries + AtIt(day) <= Tries'),
           s = "sweep" => (Owed(day)' => swept + 1 <= Tries' + AtIt(day))
    PROVE  DayIInv'
<1> USE DEF DayIInv
<1>1. /\ shift' = [shift EXCEPT ![s] = NoShift]
      /\ life' = (IF s = "sleep" THEN NoLifeRound ELSE life)
      /\ swept' = (IF s = "sweep" THEN swept + 1 ELSE swept)
    BY DEF Leaves
<1>2. NoShift.pc = "off" /\ NoLifeRound.pc = "off"
    BY DEF NoShift, NoLifeRound
<1>3. /\ shift' \in [Shifts -> ShiftStates] /\ shift'[s] = NoShift
      /\ \A t \in Shifts : t # s => shift'[t] = shift[t]
    BY <1>1, NoShiftTyped DEF DayTyped
<1>4. living \in Nat /\ swept \in Nat /\ Sweeps \in Nat /\ Tries \in Nat /\ updates \in Nat
    BY DayFacts
<1>5. DayTyped'
    <2>1. swept' \in 0 .. Sweeps
        <3>1. s = "sweep" => swept < Sweeps
            BY DEF MorningsOrdered
        <3> QED BY <1>1, <1>4, <3>1, DayFacts
    <2>2. life' \in LifeStates /\ (life'.pc # "off" => life'.day \in LivingDays)
        BY <1>1, <1>2, NoShiftTyped DEF DayTyped
    <2>3. life'.pc = "review" <=> shift'["sleep"].pc # "off"
        BY <1>1, <1>2, <1>3 DEF DayTyped, Shifts
    <2>4. state'.shows <= updates'
        BY <1>4
    <2> QED BY <1>3, <2>1, <2>2, <2>3, <2>4 DEF DayTyped
<1>6. StateShown'
    <2>1. updates > 0 /\ state'.shows # Unset
        BY <1>4 DEF Unset
    <2> QED BY <2>1 DEF StateShown
<1>7. LocksHeld'
    <2>1. ~Working(s)' /\ \A t \in Shifts : t # s => Working(t)' = Working(t) /\ shift'[t] = shift[t]
        BY <1>2, <1>3 DEF Working
    <2>2. \A d \in LivingDays : lock'[d] = s <=> Working(s)' /\ shift'[s].day = d
        BY <2>1
    <2>3. ASSUME NEW t \in Shifts, t # s, NEW d \in LivingDays
          PROVE  lock'[d] = t <=> Working(t)' /\ shift'[t].day = d
        BY <2>1, <2>3 DEF LocksHeld
    <2>4. dayFaults'["crash"] = 0 => \A d \in LivingDays : lock'[d] # "orphan"
        BY DEF LocksHeld
    <2> QED BY <2>2, <2>3, <2>4 DEF LocksHeld
<1>8. MorningsOrdered'
    <2>1. MorningsOrdered
        OBVIOUS
    <2>2. CASE s = "sleep"
        <3>1. life'.pc = "off" /\ swept' = swept /\ shift'["sweep"] = shift["sweep"]
            BY <1>1, <1>2, <1>3, <2>2 DEF Shifts
        <3> QED BY <2>1, <3>1 DEF MorningsOrdered
    <2>3. CASE s = "sweep"
        <3>1. /\ life' = life /\ swept' = swept + 1 /\ shift'["sweep"].pc = "off"
              /\ shift'["sleep"] = shift["sleep"]
            BY <1>1, <1>2, <1>3, <2>3 DEF Shifts
        <3>2. swept' > 1 => swept > 0
            BY <1>4, <3>1
        <3> QED BY <2>1, <2>3, <3>1, <3>2 DEF MorningsOrdered
    <2> QED BY <2>2, <2>3 DEF Shifts
<1>9. \A t \in Shifts : SoundAt(t)'
    <2>1. watermark.at \in Nat /\ watermark.ver \in Nat /\ jots \in Nat
        BY DayFacts
    <2>2. SoundAt(s)'
        <3>1. NoShift.floor = 0 /\ NoShift.cursor = 0 /\ NoShift.ver = 0 /\ NoShift.writes = 0
            BY DEF NoShift, Unset
        <3> QED BY <1>2, <1>3, <2>1, <3>1 DEF SoundAt
    <2>3. ASSUME NEW t \in Shifts, t # s PROVE SoundAt(t)'
        <3>1. watermark.at <= watermark'.at /\ watermark.ver <= watermark'.ver /\ jots <= jots' /\ updates <= updates'
            BY <1>4, <2>1
        <3>2. SoundAt(t) /\ shift'[t] = shift[t]
            BY <1>3, <2>3
        <3> QED BY <1>5, <3>1, <3>2, SoundStays
    <2> QED BY <2>2, <2>3
<1>10. JottingsAreAbsorbed'
    BY DEF JottingsAreAbsorbed
<1>11. ASSUME NEW d \in LivingDays, Owed(d)'
       PROVE  /\ d < living - 1 => Sweeps <= Tries' + AtIt(d)'
              /\ d = living - 1 => swept' <= Tries' + AtIt(d)'
    <2>1. Owed(d)
        BY <1>11 DEF Owed, HasPage
    <2>2. /\ d < living - 1 => Sweeps <= Tries + AtIt(d)
          /\ d = living - 1 => swept <= Tries + AtIt(d)
        BY <2>1 DEF CostAt
    <2>3. AtIt(d) \in {0, 1} /\ AtIt(d)' \in {0, 1} /\ Tries' \in Nat /\ d \in Nat
        <3>1. AtIt(d)' \in {0, 1}
            BY DEF AtIt
        <3>2. Tries' \in Nat
            BY DEF Tries, DayEvents
        <3> QED BY <3>1, <3>2, AtItIs, DayFacts
    <2>4. CASE s = "sleep"
        <3>1. swept' = swept
            BY <1>1, <2>4
        <3>2. CASE d = day
            BY <1>4, <1>11, <2>2, <2>3, <2>4, <3>1, <3>2
        <3>3. CASE d # day
            <4>1. AtIt(d) = 0
                BY <2>4, <3>3 DEF AtIt
            <4> QED BY <1>4, <2>2, <2>3, <3>1, <4>1
        <3> QED BY <3>2, <3>3
    <2>5. CASE s = "sweep"
        <3>1. swept' = swept + 1 /\ AtIt(d)' = AtIt(d) /\ shift[s].day = living - 1
            BY <1>1, <1>3, <2>5 DEF AtIt, Working, Shifts, MorningsOrdered
        <3>2. CASE d = living - 1
            BY <1>4, <1>11, <2>3, <2>5, <3>1, <3>2
        <3>3. CASE d # living - 1
            BY <1>4, <2>2, <2>3, <3>1, <3>3
        <3> QED BY <3>2, <3>3
    <2> QED BY <2>4, <2>5 DEF Shifts
<1>12. \A d \in LivingDays : CostAt(d)'
    BY <1>11 DEF CostAt
<1> QED BY <1>5, <1>6, <1>7, <1>8, <1>9, <1>10, <1>12

\* A review at work is over, without a process that died: its day has its page, was not
\* one she lived, or a failure was counted.
LEMMA WorkerLeaves ==
    ASSUME DayAssumption, DayIInv, NEW s \in Shifts, Working(s), Leaves(s), Frees(s),
           NEW day \in LivingDays, day = shift[s].day,
           UNCHANGED <<living, updates, born, lived, jots, watermark, turned, pages>>,
           state' \in Looks, state'.shows \in 1 .. updates,
           dayFaults' \in [DayEvents -> Nat], dayFaults'["crash"] = dayFaults["crash"],
           Tries <= Tries',
           \/ HasPage(day) \/ day \notin lived \/ Tries + 1 <= Tries'
    PROVE  DayIInv'
<1>1. shift[s].pc # "off"
    BY DEF Working
<1>3. lock' = [d \in LivingDays |-> IF lock[d] = s THEN "free" ELSE lock[d]]
    BY DEF Frees
<1>4. "free" \notin Shifts /\ "orphan" \notin Shifts
    BY DEF Shifts
<1>5. lock \in [LivingDays -> {"free", "orphan"} \cup Shifts]
    BY DEF DayIInv, DayTyped
<1>6. lock' \in [LivingDays -> {"free", "orphan"} \cup Shifts]
    BY <1>3, <1>5
<1>7. \A d \in LivingDays : lock'[d] # s /\ \A t \in Shifts : t # s => (lock'[d] = t <=> lock[d] = t)
    BY <1>3, <1>4
<1>8. \A d \in LivingDays : lock'[d] = "orphan" => lock[d] = "orphan"
    BY <1>3
<1>9. Tries \in Nat /\ Tries' \in Nat /\ swept \in Nat /\ AtIt(day) \in {0, 1}
    <2>1. Tries' \in Nat
        BY DEF Tries, DayEvents
    <2> QED BY <2>1, AtItIs, DayFacts DEF DayIInv
<1>10. Owed(day)' => Owed(day) /\ Tries + 1 <= Tries'
    BY DEF Owed, HasPage
<1>11. s = "sleep" => (Owed(day)' => Tries + AtIt(day) <= Tries')
    BY <1>9, <1>10
<1>12. s = "sweep" => (Owed(day)' => swept + 1 <= Tries' + AtIt(day))
    <2> SUFFICES ASSUME s = "sweep", Owed(day), Tries + 1 <= Tries'
                 PROVE  swept + 1 <= Tries' + AtIt(day)
        BY <1>10
    <2>1. day = living - 1
        BY <1>1 DEF DayIInv, MorningsOrdered
    <2>2. swept <= Tries + AtIt(day)
        BY <2>1 DEF DayIInv, CostAt
    <2> QED BY <1>9, <2>2
<1> QED BY <1>1, <1>6, <1>7, <1>8, <1>11, <1>12, ReviewLeaves

--------------------------------------------------------------------------------
LEMMA WorkerFacts ==
    ASSUME DayAssumption, DayIInv, NEW s \in Shifts, Working(s)
    PROVE  /\ shift[s].pc \notin {"off", "lock"} /\ shift[s].day \in LivingDays /\ lock[shift[s].day] = s
           /\ shift[s] \in ShiftStates
           /\ shift[s].floor \in Nat /\ shift[s].cursor \in Nat /\ shift[s].ver \in Nat
           /\ shift[s].old \in Nat /\ shift[s].writes \in Nat /\ shift[s].read \in Looks
           /\ state \in Looks /\ state.shows \in 1 .. updates
<1>1. shift[s].pc \notin {"off", "lock"} /\ shift[s].day \in LivingDays /\ updates > 0
    BY DEF Working, DayIInv, SoundAt
<1>2. lock[shift[s].day] = s
    BY <1>1 DEF DayIInv, LocksHeld
<1>3. shift[s] \in ShiftStates
    BY DEF DayIInv, DayTyped
<1>4. state \in Looks /\ state.shows \in 1 .. updates
    BY <1>1 DEF DayIInv, DayTyped, StateShown, Looks, Unset
<1> QED BY <1>1, <1>2, <1>3, <1>4 DEF ShiftStates

\* A review takes its next step: what stays as it was.
LEMMA NextStepOf ==
    ASSUME DayAssumption, DayIInv, NEW s \in Shifts, Working(s),
           NEW n \in ShiftStates, n.pc \notin {"off", "lock"}, n.day = shift[s].day,
           shift' = [shift EXCEPT ![s] = n],
           UNCHANGED <<living, swept, life, state, updates, born, lived, jots, lock>>,
           watermark' \in [at : Nat, ver : Nat], watermark'.at <= jots, turned' \in Nat,
           pages' \in [LivingDays -> [ver : Nat, from : SUBSET Nat]],
           \A d \in LivingDays : pages'[d].from \subseteq 1 .. jots,
           dayFaults' \in [DayEvents -> Nat]
    PROVE  /\ shift'[s] = n /\ Working(s)' /\ DayTyped'
           /\ \A t \in Shifts : t # s => shift'[t] = shift[t]
<1>1. /\ shift' \in [Shifts -> ShiftStates] /\ shift'[s] = n
      /\ \A t \in Shifts : t # s => shift'[t] = shift[t]
    BY DEF DayIInv, DayTyped
<1>2. Working(s)'
    BY <1>1 DEF Working
<1>3. shift'["sleep"].pc # "off" <=> shift["sleep"].pc # "off"
    BY <1>1 DEF Working, Shifts
<1>4. DayTyped'
    BY <1>1, <1>3 DEF DayIInv, DayTyped
<1> QED BY <1>1, <1>2, <1>4

Same(n, m) ==
    /\ n.day = m.day /\ n.floor = m.floor /\ n.cursor = m.cursor /\ n.old = m.old
    /\ n.writes = m.writes /\ n.ver = m.ver /\ n.read = m.read

LEMMA OnePcMoves ==
    ASSUME NEW s \in Shifts, shift \in [Shifts -> ShiftStates], NEW p \in ReviewSteps,
           shift' = [shift EXCEPT ![s].pc = p]
    PROVE  \E n \in ShiftStates : shift' = [shift EXCEPT ![s] = n] /\ n.pc = p /\ Same(n, shift[s])
<1> DEFINE n == [shift[s] EXCEPT !.pc = p]
<1>1. shift' = [shift EXCEPT ![s] = n]
    OBVIOUS
<1>2. n \in ShiftStates /\ n.pc = p /\ Same(n, shift[s])
    <2>1. shift[s] \in ShiftStates
        OBVIOUS
    <2> QED BY <2>1 DEF ShiftStates, Same
<1> QED BY <1>1, <1>2

\* On to the watermark or to the mark: there is a page, and the window is in it.
LEMMA MovesOn ==
    ASSUME DayAssumption, DayIInv, NEW s \in Shifts, shift[s].pc \in {"run", "turn", "cas"},
           NEW p \in {"turn", "mark"}, Moves(s, p),
           UNCHANGED <<living, state, updates, born, lived, jots, watermark, turned, pages, lock>>,
           dayFaults' \in [DayEvents -> Nat], dayFaults'["crash"] = dayFaults["crash"], Tries <= Tries',
           HasPage(shift[s].day), p = "turn" => Window(s) \subseteq pages[shift[s].day].from
    PROVE  DayIInv'
<1>1. Working(s) /\ p \in ReviewSteps
    BY DEF Working, ReviewSteps
<1>2. shift' = [shift EXCEPT ![s].pc = p] /\ life' = life /\ swept' = swept
    BY DEF Moves
<1>3. shift \in [Shifts -> ShiftStates]
    BY DEF DayIInv, DayTyped
<1>4. PICK n \in ShiftStates : shift' = [shift EXCEPT ![s] = n] /\ n.pc = p /\ Same(n, shift[s])
    BY <1>1, <1>2, <1>3, OnePcMoves
<1>5. /\ shift'[s] = n /\ Working(s)' /\ DayTyped'
      /\ \A t \in Shifts : t # s => shift'[t] = shift[t]
    <2>1. /\ watermark' \in [at : Nat, ver : Nat] /\ watermark'.at <= jots /\ turned' \in Nat
          /\ pages' \in [LivingDays -> [ver : Nat, from : SUBSET Nat]]
          /\ \A d \in LivingDays : pages'[d].from \subseteq 1 .. jots
        BY DEF DayIInv, DayTyped
    <2>2. n.pc \notin {"off", "lock"} /\ n.day = shift[s].day
        BY <1>4 DEF Same
    <2>3. DayTyped'
        BY <1>1, <1>2, <1>4, <2>1, <2>2, NextStepOf
    <2>4. shift'[s] = n /\ \A t \in Shifts : t # s => shift'[t] = shift[t]
        BY <1>3, <1>4
    <2> QED BY <2>2, <2>3, <2>4 DEF Working
<1>6. JottingsAreAbsorbed'
    BY DEF DayIInv, JottingsAreAbsorbed
<1>7. SoundAt(s)'
    <2>1. SoundAt(s) /\ shift[s].pc \notin {"off", "lock", "check"}
        BY DEF DayIInv
    <2>2. Window(s)' = Window(s)
        BY <1>4, <1>5 DEF Window, Same
    <2> QED BY <1>4, <1>5, <2>1, <2>2 DEF SoundAt, HasPage, Same
<1>8. /\ watermark.at <= watermark'.at /\ watermark.ver <= watermark'.ver
      /\ pages[shift[s].day].ver <= pages'[shift[s].day].ver
    BY <1>1, WorkerFacts, DayFacts DEF DayIInv
<1> QED BY <1>1, <1>2, <1>4, <1>5, <1>6, <1>7, <1>8, ReviewGoesOn DEF Same

LEMMA LockDayKeeps ==
    ASSUME DayAssumption, DayIInv, NEW s \in Shifts, LockDay(s) PROVE DayIInv'
<1> USE DEF DayIInv
<1>1. /\ shift[s].pc = "lock" /\ shift[s].day \in LivingDays /\ updates > 0
      /\ UNCHANGED <<living, state, updates, born, lived, jots, watermark, turned, pages, dayFaults>>
    BY DEF LockDay, SoundAt
<1>2. PICK day \in LivingDays : day = shift[s].day
    BY <1>1
<1>3. state \in Looks /\ state.shows \in 1 .. updates
    BY <1>1 DEF DayTyped, StateShown, Looks, Unset
<1>4. ~Working(s) /\ \A d \in LivingDays : lock[d] # s
    BY <1>1 DEF Working, LocksHeld
<1>5. lock \in [LivingDays -> {"free", "orphan"} \cup Shifts] /\ dayFaults \in [DayEvents -> Nat]
    BY DEF DayTyped
<1>6. Tries' = Tries /\ Tries \in Nat /\ swept \in Nat
    BY <1>1, DayFacts DEF Tries
<1>7. CASE lock[day] # "free"
    <2>1. Leaves(s) /\ lock' = lock
        BY <1>2, <1>7 DEF LockDay
    <2>2. CASE lock[day] = "orphan"
        <3>1. ~Owed(day)'
            BY <1>1, <2>2 DEF LocksHeld, Owed
        <3> QED BY <1>1, <1>2, <1>3, <1>4, <1>5, <1>6, <2>1, <3>1, ReviewLeaves
    <2>3. CASE lock[day] # "orphan"
        <3>1. PICK t \in Shifts : lock[day] = t /\ t # s
            BY <1>4, <1>5, <1>7, <2>3
        <3>2. Working(t) /\ shift[t].day = day
            BY <3>1 DEF LocksHeld
        <3>3. s = "sleep" => AtIt(day) = 0
            BY <1>4 DEF AtIt
        <3>4. ASSUME s = "sweep" PROVE swept + 1 <= Tries' + AtIt(day)
            <4>1. t = "sleep" /\ AtIt(day) = 1
                BY <3>1, <3>2, <3>4 DEF Shifts, AtIt
            <4>2. life.pc = "review" /\ life.day = day
                BY <3>2, <4>1 DEF DayTyped, Working, MorningsOrdered
            <4>3. day = living - 1 /\ living \in Nat
                BY <1>1, <1>2, <3>4, DayFacts DEF MorningsOrdered
            <4>4. swept = 0
                BY <1>1, <1>6, <3>4, <4>2, <4>3 DEF MorningsOrdered
            <4> QED BY <1>6, <4>1, <4>4
        <3> QED BY <1>1, <1>2, <1>3, <1>4, <1>5, <1>6, <2>1, <3>3, <3>4, ReviewLeaves
    <2> QED BY <2>2, <2>3
<1>8. CASE lock[day] = "free"
    <2>1. shift' = [shift EXCEPT ![s].pc = "check"] /\ life' = life /\ swept' = swept /\ lock' = [lock EXCEPT ![day] = s]
        BY <1>2, <1>8 DEF LockDay, Moves
    <2>2. "check" \in ReviewSteps /\ shift \in [Shifts -> ShiftStates]
        BY DEF DayTyped, ReviewSteps
    <2>3. PICK n \in ShiftStates : shift' = [shift EXCEPT ![s] = n] /\ n.pc = "check" /\ Same(n, shift[s])
        BY <2>1, <2>2, OnePcMoves
    <2>4. /\ shift' \in [Shifts -> ShiftStates] /\ shift'[s] = n
          /\ \A t \in Shifts : t # s => shift'[t] = shift[t]
        BY <2>3 DEF DayTyped
    <2>5. DayTyped'
        <3>1. lock' \in [LivingDays -> {"free", "orphan"} \cup Shifts]
            BY <1>5, <2>1
        <3>2. shift'["sleep"].pc # "off" <=> shift["sleep"].pc # "off"
            BY <1>1, <2>3, <2>4 DEF Shifts
        <3> QED BY <1>1, <2>1, <2>4, <3>1, <3>2 DEF DayTyped
    <2>6. StateShown' /\ JottingsAreAbsorbed'
        BY <1>1 DEF StateShown, JottingsAreAbsorbed
    <2>7. \A t \in Shifts : shift'[t].day = shift[t].day /\ (Working(t)' <=> Working(t) \/ t = s)
        BY <2>3, <2>4 DEF Working, Same
    <2>8. LocksHeld'
        <3>1. \A d \in LivingDays : lock'[d] = (IF d = day THEN s ELSE lock[d])
            BY <1>5, <2>1
        <3>2. "free" \notin Shifts /\ s # "orphan"
            BY DEF Shifts
        <3>3. ASSUME NEW t \in Shifts, NEW d \in LivingDays
              PROVE  lock'[d] = t <=> Working(t)' /\ shift'[t].day = d
            <4>1. CASE t = s
                BY <1>2, <1>4, <2>7, <3>1, <4>1
            <4>2. CASE t # s
                BY <1>2, <1>8, <2>7, <3>1, <3>2, <4>2 DEF LocksHeld
            <4> QED BY <4>1, <4>2
        <3>4. dayFaults'["crash"] = 0 => \A d \in LivingDays : lock'[d] # "orphan"
            BY <1>1, <3>1, <3>2 DEF LocksHeld
        <3> QED BY <3>3, <3>4 DEF LocksHeld
    <2>9. MorningsOrdered'
        <3>1. shift'["sweep"].pc # "off" <=> shift["sweep"].pc # "off"
            BY <1>1, <2>3, <2>4 DEF Shifts
        <3> QED BY <1>1, <2>1, <2>7, <3>1 DEF MorningsOrdered, Shifts
    <2>10. \A t \in Shifts : SoundAt(t)'
        <3>1. watermark.at \in Nat /\ watermark.ver \in Nat /\ jots \in Nat /\ updates \in Nat
            BY DayFacts
        <3>2. SoundAt(s)'
            BY <1>1, <2>3, <2>4, <3>1 DEF SoundAt, Same
        <3>3. ASSUME NEW t \in Shifts, t # s PROVE SoundAt(t)'
            <4>1. watermark.at <= watermark.at /\ watermark.ver <= watermark.ver /\ jots <= jots /\ updates <= updates
                BY <3>1
            <4>2. SoundAt(t) /\ shift'[t] = shift[t]
                BY <2>4, <3>3
            <4> QED BY <1>1, <2>5, <4>1, <4>2, SoundStays
        <3> QED BY <3>2, <3>3
    <2>11. ASSUME NEW d \in LivingDays PROVE CostAt(d)'
        <3>1. Owed(d)' = Owed(d)
            BY <1>1 DEF Owed, HasPage
        <3>2. AtIt(d) <= AtIt(d)' /\ AtIt(d) \in {0, 1} /\ AtIt(d)' \in {0, 1}
            BY <2>7 DEF AtIt, Shifts
        <3>3. CostAt(d) /\ Sweeps \in Nat
            BY DayFacts
        <3> QED BY <1>1, <1>6, <2>1, <3>1, <3>2, <3>3 DEF CostAt
    <2> QED BY <2>5, <2>6, <2>8, <2>9, <2>10, <2>11
<1> QED BY <1>7, <1>8

\* A review learns something: only its own part of the state changes.
LEMMA ReviewLearns ==
    ASSUME DayAssumption, DayIInv, NEW s \in Shifts, Working(s),
           NEW n \in ShiftStates, n.pc \notin {"off", "lock"}, n.day = shift[s].day,
           shift' = [shift EXCEPT ![s] = n], SoundAt(s)',
           UNCHANGED <<living, swept, life, state, updates, born, lived, jots, watermark, turned, pages,
                       lock, dayFaults>>
    PROVE  DayIInv'
<1>1. /\ watermark' \in [at : Nat, ver : Nat] /\ watermark'.at <= jots /\ turned' \in Nat
      /\ pages' \in [LivingDays -> [ver : Nat, from : SUBSET Nat]]
      /\ \A d \in LivingDays : pages'[d].from \subseteq 1 .. jots
      /\ dayFaults' \in [DayEvents -> Nat]
    BY DEF DayIInv, DayTyped
<1>2. DayTyped'
    BY <1>1, NextStepOf
<1>3. shift'[s] = n /\ (\A t \in Shifts : t # s => shift'[t] = shift[t]) /\ Working(s)'
    BY DEF DayIInv, DayTyped, Working
<1>4. JottingsAreAbsorbed'
    BY DEF DayIInv, JottingsAreAbsorbed
<1>5. shift[s].day \in LivingDays
    BY WorkerFacts
<1>6. /\ watermark.at <= watermark'.at /\ watermark.ver <= watermark'.ver
      /\ pages[shift[s].day].ver <= pages'[shift[s].day].ver /\ Tries <= Tries'
    <2>1. Tries' = Tries
        BY DEF Tries
    <2> QED BY <1>5, <2>1, DayFacts DEF DayIInv
<1> QED BY <1>2, <1>3, <1>4, <1>6, ReviewGoesOn

LEMMA GatherKeeps ==
    ASSUME DayAssumption, DayIInv, NEW s \in Shifts, Gather(s) PROVE DayIInv'
<1>1. /\ shift[s].pc = "check" /\ Working(s)
      /\ UNCHANGED <<living, state, updates, born, lived, jots, watermark, turned, pages, dayFaults>>
    BY DEF Gather, Working
<1>2. PICK day \in LivingDays : day = shift[s].day
    BY <1>1, WorkerFacts
<1>3. dayFaults \in [DayEvents -> Nat] /\ Tries' = Tries /\ Tries \in Nat
    BY <1>1, DayFacts DEF DayIInv, DayTyped, Tries
<1>4. CASE Superseded(s) \/ ~Evidence(shift[s].day)
    <2>1. Leaves(s) /\ Frees(s)
        BY <1>4 DEF Gather
    <2>2. HasPage(day) \/ day \notin lived
        BY <1>2, <1>4 DEF Superseded, Evidence
    <2>3. state \in Looks /\ state.shows \in 1 .. updates
        BY <1>1, WorkerFacts
    <2> QED BY <1>1, <1>2, <1>3, <2>1, <2>2, <2>3, WorkerLeaves
<1>5. CASE ~(Superseded(s) \/ ~Evidence(shift[s].day))
    <2> DEFINE n == [shift[s] EXCEPT !.pc = "run", !.floor = watermark.at,
                                     !.cursor = IF jots > watermark.at THEN jots ELSE Unset,
                                     !.old = pages[shift[s].day].ver]
    <2>1. shift' = [shift EXCEPT ![s] = n] /\ UNCHANGED <<life, swept, lock>>
        BY <1>5 DEF Gather
    <2>2. /\ watermark.at \in Nat /\ watermark.ver \in Nat /\ jots \in Nat /\ updates \in Nat
          /\ pages[day].ver \in Nat /\ shift[s] \in ShiftStates
        BY DayFacts DEF DayIInv
    <2>3. /\ n \in ShiftStates /\ n.pc = "run" /\ n.day = shift[s].day /\ n.floor = watermark.at
          /\ (n.cursor = jots \/ n.cursor = 0)
          /\ n.old = pages[day].ver /\ n.writes = shift[s].writes /\ n.ver = shift[s].ver
        BY <1>2, <2>2 DEF ShiftStates, ReviewSteps, Unset
    <2> HIDE DEF n
    <2>4. shift'[s] = n
        BY <2>1 DEF DayIInv, DayTyped
    <2>5. SoundAt(s)'
        <3>1. SoundAt(s)
            BY DEF DayIInv
        <3>2. shift[s].writes = 0
            BY <1>1 DEF DayIInv, SoundAt
        <3>3. s = "sweep" => n.old = 0
            BY <1>2, <1>5, <2>2, <2>3 DEF Superseded, HasPage
        <3> QED BY <1>1, <1>2, <2>2, <2>3, <2>4, <3>1, <3>2, <3>3 DEF SoundAt
    <2> QED BY <1>1, <2>1, <2>3, <2>5, ReviewLearns
<1> QED BY <1>4, <1>5

\* The whole page again, with the window in it.
LEMMA WritePageKeeps ==
    ASSUME DayAssumption, DayIInv, NEW s \in Shifts, WritePage(s) PROVE DayIInv'
<1> USE DEF DayIInv
<1>1. /\ shift[s].pc = "run" /\ Working(s)
      /\ UNCHANGED <<life, updates, born, lived, jots, living, swept, state, watermark, turned, lock, dayFaults>>
    BY DEF WritePage, Working, lifeVars
<1>2. PICK day \in LivingDays : day = shift[s].day
    BY <1>1, WorkerFacts
<1>3. /\ shift[s] \in ShiftStates /\ shift[s].floor \in Nat /\ shift[s].cursor \in Nat
      /\ shift[s].old \in Nat /\ shift[s].writes \in Nat
    BY <1>1, WorkerFacts
<1>4. /\ watermark.at \in Nat /\ watermark.ver \in Nat /\ jots \in Nat /\ updates \in Nat
      /\ pages[day].ver \in Nat /\ pages[day].from \subseteq 1 .. jots
    BY DayFacts
<1>5. Window(s) \subseteq 1 .. jots
    <2>1. shift[s].cursor <= jots
        BY DEF SoundAt
    <2> QED BY <1>3, <1>4, <2>1 DEF Window
<1>6. PICK v \in Nat : v = pages[day].ver + 1
    BY <1>4
<1>7. PICK f : f = pages[day].from \cup Window(s)
    OBVIOUS
<1>8. f \subseteq 1 .. jots /\ f \in SUBSET Nat
    BY <1>4, <1>5, <1>7
<1>9. pages' = [pages EXCEPT ![day] = [ver |-> v, from |-> f]]
    BY <1>2, <1>6, <1>7 DEF WritePage, Window
<1>10. /\ pages' \in [LivingDays -> [ver : Nat, from : SUBSET Nat]]
       /\ pages'[day].ver = v /\ pages'[day].from = f
       /\ \A d \in LivingDays : d # day => pages'[d] = pages[d]
    BY <1>8, <1>9 DEF DayTyped
<1>11. \A d \in LivingDays : pages'[d].from \subseteq 1 .. jots /\ pages[d].from \subseteq pages'[d].from
    BY <1>7, <1>8, <1>10 DEF DayTyped
<1>12. PICK w \in Nat : w = shift[s].writes + 1
    BY <1>3
<1> DEFINE n == [shift[s] EXCEPT !.writes = w]
<1>13. shift' = [shift EXCEPT ![s] = n]
    BY <1>12 DEF WritePage
<1>14. /\ n \in ShiftStates /\ n.pc = "run" /\ n.day = shift[s].day /\ n.floor = shift[s].floor
       /\ n.cursor = shift[s].cursor /\ n.old = shift[s].old /\ n.writes = w /\ n.ver = shift[s].ver
    BY <1>1, <1>3 DEF ShiftStates
<1> HIDE DEF n
<1>15. DayTyped'
    <2>1. /\ watermark' \in [at : Nat, ver : Nat] /\ watermark'.at <= jots /\ turned' \in Nat
          /\ dayFaults' \in [DayEvents -> Nat]
        BY <1>1 DEF DayTyped
    <2>2. n.pc \notin {"off", "lock"}
        BY <1>14
    <2> QED BY <1>1, <1>10, <1>11, <1>13, <1>14, <2>1, <2>2, NextStepOf
<1>16. shift'[s] = n /\ (\A t \in Shifts : t # s => shift'[t] = shift[t]) /\ Working(s)'
    BY <1>13, <1>14 DEF DayTyped, Working
<1>17. JottingsAreAbsorbed'
    <2>1. UNION {pages[d].from : d \in LivingDays} \subseteq UNION {pages'[d].from : d \in LivingDays}
        BY <1>11
    <2>2. 1 .. watermark.at \subseteq UNION {pages[d].from : d \in LivingDays} /\ watermark.at = turned
        BY DEF JottingsAreAbsorbed
    <2> QED BY <1>1, <2>1, <2>2 DEF JottingsAreAbsorbed
<1>18. SoundAt(s)'
    <2>1. SoundAt(s) /\ pages[day].ver = shift[s].old + shift[s].writes
        BY <1>1, <1>2 DEF SoundAt
    <2>2. Window(s)' = Window(s)
        BY <1>14, <1>16 DEF Window
    <2>3. /\ pages'[n.day].ver = n.old + n.writes
          /\ Window(s)' \subseteq pages'[n.day].from
        BY <1>2, <1>3, <1>4, <1>6, <1>7, <1>10, <1>12, <1>14, <2>1, <2>2
    <2> QED BY <1>1, <1>14, <1>16, <2>1, <2>3 DEF SoundAt
<1>19. /\ watermark.at <= watermark'.at /\ watermark.ver <= watermark'.ver /\ Tries <= Tries'
       /\ pages[shift[s].day].ver <= pages'[shift[s].day].ver
    <2>1. Tries' = Tries /\ Tries \in Nat
        BY <1>1, DayFacts DEF Tries
    <2> QED BY <1>1, <1>2, <1>4, <1>6, <1>10, <2>1
<1>20. \A d \in LivingDays : d # shift[s].day => pages'[d] = pages[d]
    BY <1>2, <1>10
<1> QED BY <1>1, <1>14, <1>15, <1>16, <1>17, <1>18, <1>19, <1>20, ReviewGoesOn

\* Without a page the review has failed: it wrote nothing, and that was counted.
LEMMA ReviewEndsKeeps ==
    ASSUME DayAssumption, DayIInv, NEW s \in Shifts, ReviewEnds(s) PROVE DayIInv'
<1>1. /\ shift[s].pc = "run" /\ Working(s)
      /\ UNCHANGED <<living, state, updates, born, lived, jots, watermark, turned, pages>>
    BY DEF ReviewEnds, Working
<1>2. PICK day \in LivingDays : day = shift[s].day
    BY <1>1, WorkerFacts
<1>3. DayTyped /\ "idle" \in DayEvents /\ Tries \in Nat
    BY DayFacts DEF DayIInv, DayEvents
<1>4. /\ dayFaults' \in [DayEvents -> Nat] /\ dayFaults'["crash"] = dayFaults["crash"]
      /\ Tries <= Tries' /\ (shift[s].writes = 0 => Tries + 1 <= Tries')
    <2>1. CASE shift[s].writes = 0
        <3>1. Fault("idle")
            BY <2>1 DEF ReviewEnds
        <3>2. dayFaults' \in [DayEvents -> Nat] /\ dayFaults'["idle"] = dayFaults["idle"] + 1
            BY <1>3, <3>1, FaultCounts
        <3>3. dayFaults'["crash"] = dayFaults["crash"] /\ dayFaults'["review"] = dayFaults["review"]
            BY <1>3, <3>1, FaultCounts DEF DayEvents
        <3>4. dayFaults["idle"] \in Nat /\ dayFaults["review"] \in Nat
            BY <1>3, DayFacts
        <3>5. Tries' = Tries + 1
            BY <3>2, <3>3, <3>4 DEF Tries
        <3> QED BY <1>3, <3>2, <3>3, <3>5
    <2>2. CASE shift[s].writes # 0
        BY <1>3, <2>2 DEF ReviewEnds, Tries, DayTyped
    <2> QED BY <2>1, <2>2
<1>5. /\ pages[day].ver = shift[s].old + shift[s].writes
      /\ shift[s].writes > 0 => Window(s) \subseteq pages[day].from
      /\ shift[s].old \in Nat /\ shift[s].writes \in Nat /\ pages[day].ver \in Nat
    <2>1. shift[s].old \in Nat /\ shift[s].writes \in Nat /\ pages[day].ver \in Nat
        BY <1>1, <1>3, WorkerFacts, DayFacts
    <2> QED BY <1>1, <1>2, <2>1 DEF DayIInv, SoundAt
<1>6. CASE ~HasPage(shift[s].day)
    <2>1. Leaves(s) /\ Frees(s)
        BY <1>6 DEF ReviewEnds
    <2>2. shift[s].writes = 0
        BY <1>2, <1>5, <1>6 DEF HasPage
    <2>3. state \in Looks /\ state.shows \in 1 .. updates
        BY <1>1, WorkerFacts
    <2>4. state' \in Looks /\ state'.shows \in 1 .. updates
        BY <1>1, <2>3
    <2> QED BY <1>1, <1>2, <1>4, <2>1, <2>2, <2>4, WorkerLeaves
<1>7. CASE HasPage(shift[s].day)
    <2>1. PICK p \in {"turn", "mark"} : Moves(s, p) /\ (p = "turn" => Wrote(s))
        BY <1>7 DEF ReviewEnds
    <2>2. lock' = lock
        BY <1>7 DEF ReviewEnds
    <2>3. Wrote(s) => Window(s) \subseteq pages[shift[s].day].from
        BY <1>2, <1>5 DEF Wrote
    <2>4. shift[s].pc \in {"run", "turn", "cas"} /\ (p = "turn" => Window(s) \subseteq pages[shift[s].day].from)
        BY <1>1, <2>1, <2>3
    <2> QED BY <1>1, <1>4, <1>7, <2>1, <2>2, <2>4, MovesOn
<1> QED BY <1>6, <1>7

LEMMA TurnReadsKeeps ==
    ASSUME DayAssumption, DayIInv, NEW s \in Shifts, TurnReads(s) PROVE DayIInv'
<1>1. /\ shift[s].pc = "turn" /\ Working(s) /\ SoundAt(s)
      /\ UNCHANGED <<living, state, updates, born, lived, jots, watermark, turned, pages, lock, dayFaults>>
    BY DEF TurnReads, Working, DayIInv
<1>2. /\ HasPage(shift[s].day) /\ Window(s) \subseteq pages[shift[s].day].from
      /\ shift[s].pc \in {"run", "turn", "cas"}
    BY <1>1 DEF SoundAt
<1>3. dayFaults' \in [DayEvents -> Nat] /\ dayFaults'["crash"] = dayFaults["crash"] /\ Tries <= Tries'
    <2>1. Tries' = Tries /\ Tries \in Nat
        BY <1>1, DayFacts DEF Tries, DayIInv
    <2> QED BY <1>1, <2>1 DEF DayIInv, DayTyped
<1>4. CASE shift[s].cursor <= watermark.at
    <2>1. Moves(s, "mark")
        BY <1>4 DEF TurnReads
    <2> QED BY <1>1, <1>2, <1>3, <2>1, MovesOn
<1>5. CASE ~(shift[s].cursor <= watermark.at)
    <2> DEFINE n == [shift[s] EXCEPT !.pc = "cas", !.ver = watermark.ver]
    <2>1. shift' = [shift EXCEPT ![s] = n] /\ UNCHANGED <<life, swept>>
        BY <1>5 DEF TurnReads
    <2>2. /\ watermark.at \in Nat /\ watermark.ver \in Nat /\ jots \in Nat /\ updates \in Nat
          /\ shift[s] \in ShiftStates /\ shift[s].cursor \in Nat
        BY <1>1, WorkerFacts, DayFacts DEF DayIInv
    <2>3. /\ n \in ShiftStates /\ n.pc = "cas" /\ n.ver = watermark.ver
          /\ n.day = shift[s].day /\ n.floor = shift[s].floor /\ n.cursor = shift[s].cursor
          /\ n.old = shift[s].old /\ n.writes = shift[s].writes /\ n.read = shift[s].read
        BY <2>2 DEF ShiftStates, ReviewSteps
    <2> HIDE DEF n
    <2>4. shift'[s] = n
        BY <2>1 DEF DayIInv, DayTyped
    <2>5. SoundAt(s)'
        <3>1. Window(s)' = Window(s)
            BY <2>3, <2>4 DEF Window
        <3>2. shift[s].cursor > watermark.at
            BY <1>5, <2>2
        <3> QED BY <1>1, <1>2, <2>2, <2>3, <2>4, <3>1, <3>2 DEF SoundAt, HasPage
    <2> QED BY <1>1, <2>1, <2>3, <2>5, ReviewLearns
<1> QED BY <1>4, <1>5

\* The watermark moves only on the version that was read: to a cursor that is ahead of it.
LEMMA TurnWritesKeeps ==
    ASSUME DayAssumption, DayIInv, NEW s \in Shifts, TurnWrites(s) PROVE DayIInv'
<1> USE DEF DayIInv
<1>1. /\ shift[s].pc = "cas" /\ Working(s) /\ SoundAt(s)
      /\ UNCHANGED <<living, state, updates, born, lived, jots, pages, lock, dayFaults>>
    BY DEF TurnWrites, Working
<1>2. HasPage(shift[s].day) /\ Window(s) \subseteq pages[shift[s].day].from
    BY <1>1 DEF SoundAt
<1>3. dayFaults' \in [DayEvents -> Nat] /\ dayFaults'["crash"] = dayFaults["crash"] /\ Tries <= Tries'
    <2>1. Tries' = Tries /\ Tries \in Nat
        BY <1>1, DayFacts DEF Tries
    <2> QED BY <1>1, <2>1 DEF DayTyped
<1>4. PICK day \in LivingDays : day = shift[s].day
    BY <1>1, WorkerFacts
<1>5. CASE ~Unmoved(s)
    <2>1. Moves(s, "turn") /\ UNCHANGED <<watermark, turned>>
        BY <1>5 DEF TurnWrites
    <2>2. shift[s].pc \in {"run", "turn", "cas"}
        BY <1>1
    <2> QED BY <1>1, <1>2, <1>3, <2>1, <2>2, MovesOn
<1>6. CASE Unmoved(s)
    <2>1. /\ watermark.at \in Nat /\ watermark.ver \in Nat /\ jots \in Nat /\ updates \in Nat
          /\ shift[s].cursor \in Nat /\ shift[s].floor \in Nat /\ pages[day].ver \in Nat
        BY <1>1, WorkerFacts, DayFacts
    <2>2. /\ shift[s].cursor > watermark.at /\ shift[s].cursor <= jots /\ shift[s].floor <= watermark.at
        BY <1>1, <1>6 DEF SoundAt
    <2>3. PICK c \in Nat : c = shift[s].cursor
        BY <2>1
    <2>4. PICK v \in Nat : v = watermark.ver + 1
        BY <2>1
    <2>5. watermark' = [at |-> c, ver |-> v]
        BY <1>6, <2>3, <2>4 DEF TurnWrites
    <2>6. watermark'.at = c /\ watermark'.ver = v /\ watermark' \in [at : Nat, ver : Nat]
        BY <2>5
    <2>7. turned' = c
        <3>1. turned = watermark.at
            BY DEF JottingsAreAbsorbed
        <3> QED BY <1>6, <2>2, <2>3, <3>1 DEF TurnWrites
    <2>8. shift' = [shift EXCEPT ![s].pc = "mark"] /\ life' = life /\ swept' = swept
        BY <1>6 DEF TurnWrites, Moves
    <2>9. "mark" \in ReviewSteps /\ shift \in [Shifts -> ShiftStates]
        BY DEF DayTyped, ReviewSteps
    <2>10. PICK n \in ShiftStates : shift' = [shift EXCEPT ![s] = n] /\ n.pc = "mark" /\ Same(n, shift[s])
        BY <2>8, <2>9, OnePcMoves
    <2>11. shift'[s] = n /\ (\A t \in Shifts : t # s => shift'[t] = shift[t]) /\ Working(s)'
        BY <2>9, <2>10 DEF Working
    <2>12. DayTyped'
        <3>1. /\ pages' \in [LivingDays -> [ver : Nat, from : SUBSET Nat]]
              /\ \A d \in LivingDays : pages'[d].from \subseteq 1 .. jots
            BY <1>1 DEF DayTyped
        <3>2. n.pc \notin {"off", "lock"} /\ n.day = shift[s].day /\ watermark'.at <= jots /\ turned' \in Nat
            BY <2>2, <2>3, <2>6, <2>7, <2>10 DEF Same
        <3> QED BY <1>1, <1>3, <2>6, <2>8, <2>10, <3>1, <3>2, NextStepOf
    <2>13. JottingsAreAbsorbed'
        <3>1. 1 .. watermark.at \subseteq UNION {pages[d].from : d \in LivingDays}
            BY DEF JottingsAreAbsorbed
        <3>2. 1 .. c \subseteq (1 .. watermark.at) \cup Window(s)
            BY <2>1, <2>2, <2>3 DEF Window
        <3>3. Window(s) \subseteq UNION {pages[d].from : d \in LivingDays}
            BY <1>2, <1>4
        <3> QED BY <1>1, <2>6, <2>7, <3>1, <3>2, <3>3 DEF JottingsAreAbsorbed
    <2>14. SoundAt(s)'
        <3>1. /\ shift[s].floor <= c /\ shift[s].ver \in Nat /\ shift[s].ver <= v
            BY <1>1, <2>1, <2>2, <2>3, <2>4, WorkerFacts DEF SoundAt
        <3> QED BY <1>1, <1>2, <2>2, <2>3, <2>6, <2>10, <2>11, <3>1 DEF SoundAt, Same, HasPage
    <2>15. /\ watermark.at <= watermark'.at /\ watermark.ver <= watermark'.ver
           /\ watermark'.ver # watermark.ver /\ pages[shift[s].day].ver <= pages'[shift[s].day].ver
        BY <1>1, <1>4, <2>1, <2>2, <2>3, <2>4, <2>6
    <2>16. shift'[s].day = shift[s].day
        BY <2>10, <2>11 DEF Same
    <2> QED BY <1>1, <1>3, <2>8, <2>11, <2>12, <2>13, <2>14, <2>15, <2>16, ReviewGoesOn
<1> QED BY <1>5, <1>6

LEMMA TurnFailsKeeps ==
    ASSUME DayAssumption, DayIInv, NEW s \in Shifts, TurnFails(s) PROVE DayIInv'
<1>1. /\ shift[s].pc \in {"turn", "cas"} /\ Working(s) /\ SoundAt(s) /\ Fault("turn") /\ Moves(s, "mark")
      /\ UNCHANGED <<living, state, updates, born, lived, jots, watermark, turned, pages, lock>>
    BY DEF TurnFails, Working, DayIInv
<1>2. dayFaults' \in [DayEvents -> Nat] /\ \A e \in DayEvents \ {"turn"} : dayFaults'[e] = dayFaults[e]
    BY <1>1, FaultCounts DEF DayIInv, DayEvents
<1>3. dayFaults'["crash"] = dayFaults["crash"] /\ Tries <= Tries'
    <2>1. Tries' = Tries /\ Tries \in Nat
        BY <1>2, DayFacts DEF Tries, DayIInv, DayEvents
    <2> QED BY <1>2, <2>1 DEF DayEvents
<1>4. HasPage(shift[s].day) /\ shift[s].pc \in {"run", "turn", "cas"}
    BY <1>1 DEF SoundAt
<1> QED BY <1>1, <1>2, <1>3, <1>4, MovesOn

LEMMA MarkReadsKeeps ==
    ASSUME DayAssumption, DayIInv, NEW s \in Shifts, MarkReads(s) PROVE DayIInv'
<1>1. /\ shift[s].pc = "mark" /\ Working(s) /\ SoundAt(s)
      /\ UNCHANGED <<living, swept, life, state, updates, born, lived, jots, watermark, turned, pages,
                     lock, dayFaults>>
    BY DEF MarkReads, Working, DayIInv, lifeVars
<1> DEFINE n == [shift[s] EXCEPT !.pc = "row", !.read = state]
<1>2. shift' = [shift EXCEPT ![s] = n]
    BY DEF MarkReads
<1>3. shift[s] \in ShiftStates /\ state \in Looks /\ state.shows \in 1 .. updates
    BY <1>1, WorkerFacts
<1>4. /\ n \in ShiftStates /\ n.pc = "row" /\ n.read = state
      /\ n.day = shift[s].day /\ n.floor = shift[s].floor /\ n.cursor = shift[s].cursor
      /\ n.old = shift[s].old /\ n.ver = shift[s].ver
    BY <1>3 DEF ShiftStates, ReviewSteps
<1> HIDE DEF n
<1>5. shift'[s] = n
    BY <1>2 DEF DayIInv, DayTyped
<1>6. SoundAt(s)'
    BY <1>1, <1>3, <1>4, <1>5 DEF SoundAt, HasPage
<1> QED BY <1>1, <1>2, <1>4, <1>6, ReviewLearns

LEMMA MarkWritesKeeps ==
    ASSUME DayAssumption, DayIInv, NEW s \in Shifts, MarkWrites(s) PROVE DayIInv'
<1>1. /\ shift[s].pc = "row" /\ Working(s) /\ SoundAt(s) /\ Leaves(s) /\ Frees(s)
      /\ state' = [shift[s].read EXCEPT !.marked = shift[s].day]
      /\ UNCHANGED <<living, updates, born, lived, jots, watermark, turned, pages, dayFaults>>
    BY DEF MarkWrites, Working, DayIInv
<1>2. PICK day \in LivingDays : day = shift[s].day
    BY <1>1, WorkerFacts
<1>3. state' \in Looks /\ state'.shows \in 1 .. updates
    <2>1. shift[s].read \in Looks /\ shift[s].read.shows \in 1 .. updates
        BY <1>1, WorkerFacts DEF SoundAt
    <2> QED BY <1>1, <1>2, <2>1 DEF Looks
<1>4. HasPage(day)
    BY <1>1, <1>2 DEF SoundAt
<1>5. dayFaults' \in [DayEvents -> Nat] /\ dayFaults'["crash"] = dayFaults["crash"] /\ Tries <= Tries'
    <2>1. Tries' = Tries /\ Tries \in Nat
        BY <1>1, DayFacts DEF Tries, DayIInv
    <2> QED BY <1>1, <2>1 DEF DayIInv, DayTyped
<1> QED BY <1>1, <1>2, <1>3, <1>4, <1>5, WorkerLeaves

LEMMA ReviewFailsKeeps ==
    ASSUME DayAssumption, DayIInv, NEW s \in Shifts, ReviewFails(s) PROVE DayIInv'
<1>1. /\ Working(s) /\ Leaves(s) /\ Frees(s) /\ Fault("review")
      /\ UNCHANGED <<living, state, updates, born, lived, jots, watermark, turned, pages>>
    BY DEF ReviewFails
<1>2. PICK day \in LivingDays : day = shift[s].day
    BY <1>1, WorkerFacts
<1>3. state' \in Looks /\ state'.shows \in 1 .. updates
    <2>1. state \in Looks /\ state.shows \in 1 .. updates
        BY <1>1, WorkerFacts
    <2> QED BY <1>1, <2>1
<1>4. DayTyped /\ "review" \in DayEvents
    BY DEF DayIInv, DayEvents
<1>5. dayFaults' \in [DayEvents -> Nat] /\ dayFaults'["review"] = dayFaults["review"] + 1
    BY <1>1, <1>4, FaultCounts
<1>6. dayFaults'["crash"] = dayFaults["crash"] /\ dayFaults'["idle"] = dayFaults["idle"]
    BY <1>1, <1>4, FaultCounts DEF DayEvents
<1>7. Tries <= Tries' /\ Tries + 1 <= Tries'
    BY <1>4, <1>5, <1>6, DayFacts DEF Tries
<1> QED BY <1>1, <1>2, <1>3, <1>5, <1>6, <1>7, WorkerLeaves

LEMMA ReviewDiesKeeps ==
    ASSUME DayAssumption, DayIInv, NEW s \in Shifts, ReviewDies(s) PROVE DayIInv'
<1>1. /\ Working(s) /\ Leaves(s) /\ Fault("crash") /\ shift[s].pc # "off"
      /\ UNCHANGED <<living, state, updates, born, lived, jots, watermark, turned, pages>>
    BY DEF ReviewDies, Working
<1>2. PICK day \in LivingDays : day = shift[s].day
    BY <1>1, WorkerFacts
<1>3. lock' = [lock EXCEPT ![day] = "orphan"]
    BY <1>2 DEF ReviewDies
<1>4. state' \in Looks /\ state'.shows \in 1 .. updates
    <2>1. state \in Looks /\ state.shows \in 1 .. updates
        BY <1>1, WorkerFacts
    <2> QED BY <1>1, <2>1
<1>5. DayTyped /\ "crash" \in DayEvents
    BY DEF DayIInv, DayEvents
<1>6. dayFaults' \in [DayEvents -> Nat] /\ dayFaults'["crash"] = dayFaults["crash"] + 1
    BY <1>1, <1>5, FaultCounts
<1>7. dayFaults'["review"] = dayFaults["review"] /\ dayFaults'["idle"] = dayFaults["idle"]
    BY <1>1, <1>5, FaultCounts DEF DayEvents
<1>8. Tries <= Tries' /\ dayFaults'["crash"] # 0
    BY <1>5, <1>6, <1>7, DayFacts DEF Tries
<1>9. ~Owed(day)'
    BY <1>8 DEF Owed
<1>10. /\ lock' \in [LivingDays -> {"free", "orphan"} \cup Shifts]
       /\ \A d \in LivingDays : lock'[d] # s /\ \A t \in Shifts : t # s => (lock'[d] = t <=> lock[d] = t)
    <2>1. lock \in [LivingDays -> {"free", "orphan"} \cup Shifts]
        BY <1>5 DEF DayTyped
    <2>2. \A d \in LivingDays : lock[d] = s <=> d = day
        BY <1>1, <1>2 DEF DayIInv, LocksHeld
    <2>3. "orphan" \notin Shifts
        BY DEF Shifts
    <2> QED BY <1>3, <2>1, <2>2, <2>3
<1> QED BY <1>1, <1>2, <1>4, <1>6, <1>8, <1>9, <1>10, ReviewLeaves

LEMMA DayStepsKeep ==
    ASSUME DayAssumption, DayIInv, [DayNext]_dayVars PROVE DayIInv'
<1>1. CASE NextDay \/ StartRound \/ Jot \/ SaveReads \/ SaveWrites
    BY <1>1, NextDayKeeps, StartRoundKeeps, JotKeeps, SaveReadsKeeps, SaveWritesKeeps
<1>2. CASE EndRound \/ RoundFails \/ MorningSweep \/ DayLockExpires
    BY <1>2, EndRoundKeeps, RoundFailsKeeps, MorningSweepKeeps, DayLockExpiresKeeps
<1>3. ASSUME NEW s \in Shifts, Review(s) PROVE DayIInv'
    <2>1. CASE LockDay(s) \/ Gather(s) \/ WritePage(s) \/ ReviewEnds(s)
        BY <2>1, LockDayKeeps, GatherKeeps, WritePageKeeps, ReviewEndsKeeps
    <2>2. CASE TurnReads(s) \/ TurnWrites(s) \/ TurnFails(s)
        BY <2>2, TurnReadsKeeps, TurnWritesKeeps, TurnFailsKeeps
    <2>3. CASE MarkReads(s) \/ MarkWrites(s) \/ ReviewFails(s) \/ ReviewDies(s)
        BY <2>3, MarkReadsKeeps, MarkWritesKeeps, ReviewFailsKeeps, ReviewDiesKeeps
    <2> QED BY <1>3, <2>1, <2>2, <2>3 DEF Review
<1>4. CASE UNCHANGED dayVars
    BY <1>4 DEF dayVars, DayIInv, DayTyped, StateShown, LocksHeld, JottingsAreAbsorbed, MorningsOrdered, SoundAt,
                CostAt, Owed, AtIt, Tries, Working, Window, Unmoved, HasPage
<1> QED BY <1>1, <1>2, <1>3, <1>4 DEF DayNext

LEMMA DayInvariant == DaySpec => []DayIInv
<1> USE DayAssumption
<1>1. DayInit => DayIInv
    BY DayInitially
<1>2. DayIInv /\ [DayNext]_dayVars => DayIInv'
    BY DayStepsKeep
<1> QED BY <1>1, <1>2, PTL DEF DaySpec

LEMMA DayPromises ==
    ASSUME DayAssumption, DayIInv
    PROVE  JottingsAreAbsorbed /\ SweepsFillGapsOnly /\ EveryDayGetsItsPage
<1> USE DEF DayIInv
<1>1. SweepsFillGapsOnly
    <2>1. SoundAt("sweep") /\ "sweep" \in Shifts /\ "sleep" \in Shifts
        BY DEF Shifts
    <2>2. Working("sweep") => shift["sweep"].day \in LivingDays
        BY <2>1, WorkerFacts
    <2>3. Working("sleep") => shift["sleep"].day \in LivingDays
        BY <2>1, WorkerFacts
    <2>4. Working("sweep") /\ Working("sleep") => shift["sweep"].day # shift["sleep"].day
        BY <2>1, <2>2, <2>3 DEF LocksHeld
    <2> QED BY <2>1, <2>4 DEF SweepsFillGapsOnly, SoundAt
<1>2. EveryDayGetsItsPage
    <2> SUFFICES ASSUME dayFaults["crash"] = 0, dayFaults["review"] + dayFaults["idle"] < Sweeps,
                        NEW d \in lived, born # Unset, d >= born,
                        d < living - 1 \/ (d = living - 1 /\ swept = Sweeps), ~HasPage(d)
                 PROVE  \E s \in Shifts : Working(s) /\ shift[s].day = d
        BY DEF EveryDayGetsItsPage
    <2>1. d \in LivingDays
        BY DEF DayTyped
    <2>2. Owed(d) /\ CostAt(d)
        BY <2>1 DEF Owed
    <2>3. Sweeps <= Tries + AtIt(d)
        BY <2>2 DEF CostAt
    <2>4. Tries < Sweeps /\ Tries \in Nat /\ Sweeps \in Nat /\ AtIt(d) \in {0, 1}
        BY DayFacts, AtItIs DEF Tries
    <2>5. AtIt(d) = 1
        BY <2>3, <2>4
    <2> QED BY <2>5 DEF AtIt, Shifts
<1> QED BY <1>1, <1>2

--------------------------------------------------------------------------------
\* The reviews can be trusted together (life/review.py, pages.py, persona_review.py):
\* jottings are not lost behind the watermark, sweeps only fill gaps, a day she lived
\* gets its page; pages are digested, the owner's word stays, a week changes her once.
THEOREM HerDaysStayTrusted == HerDaysSpec => []HerDaysCanBeTrusted
<1> USE DayAssumption
<1>1. DayIInv /\ PersonaIInv => HerDaysCanBeTrusted
    <2> SUFFICES ASSUME DayIInv, PersonaIInv PROVE HerDaysCanBeTrusted
        OBVIOUS
    <2>1. JottingsAreAbsorbed /\ SweepsFillGapsOnly /\ EveryDayGetsItsPage
        BY DayPromises
    <2>2. PagesAreDigested /\ OwnersWordStays /\ OneReviewAWeek
        BY PersonaPromises
    <2> QED BY <2>1, <2>2 DEF HerDaysCanBeTrusted
<1> QED BY <1>1, DayInvariant, PersonaInvariant, PTL DEF HerDaysSpec

\* What a tick, a node or a reminder speaks of is in the book, at a time there is (notes.py).
THEOREM NotesStayTyped == NotesSpec => []NotesTypeOK
<1>1. NotesIInv => NotesTypeOK
    <2> SUFFICES ASSUME NotesTyped PROVE NotesTypeOK
        BY DEF NotesIInv
    <2>1. Written \subseteq Entries /\ \A e \in Written : book[e] \in Versions
        BY DEF NotesTyped, Dicts, Written
    <2>2. \A n \in nodes : n.tick.entry \in Written
        <3> SUFFICES ASSUME NEW n \in nodes PROVE n.tick.entry \in Written
            OBVIOUS
        <3>1. n.tick \in [entry : Written, at : Times]
            BY DEF NotesTyped
        <3> QED BY <3>1
    <2> QED BY <2>1, <2>2 DEF NotesTyped, NotesTypeOK
<1> QED BY <1>1, NotesInvariant, PTL

\* A shift and a life round are where the code can be, a page is of jottings that are there
\* (life/review.py, pages.py).
THEOREM DaysStayTyped == DaySpec => []DayTypeOK
<1>1. DayIInv => DayTypeOK
    <2> SUFFICES ASSUME DayTyped PROVE DayTypeOK
        BY DEF DayIInv
    <2>1. /\ state.shows \in Nat /\ state.marked \in {Unset} \cup LivingDays
          /\ watermark.at \in Nat /\ jots \in Nat /\ updates \in Nat
          /\ life.pc \in {"off", "run", "save", "review"}
        BY DEF DayTyped, Looks, LifeStates
    <2>2. state.shows \in 0 .. updates /\ watermark.at \in 0 .. jots
        BY <2>1 DEF DayTyped
    <2>3. \A s \in Shifts : shift[s].pc \in ReviewSteps
        BY DEF DayTyped, ShiftStates
    <2> QED BY <2>1, <2>2, <2>3 DEF DayTyped, DayTypeOK, ReviewSteps
<1> QED BY <1>1, DayInvariant, PTL

\* The first identity and no other is the seed, and none is from the future
\* (persona_review.py).
THEOREM PersonasStayTyped == PersonaSpec => []PersonaTypeOK
<1>1. PersonaIInv => PersonaTypeOK
    <2> SUFFICES ASSUME PersonaTyped PROVE PersonaTypeOK
        BY DEF PersonaIInv
    <2>1. ASSUME NEW i \in DOMAIN chain
          PROVE  /\ chain[i].source \in {"seed", "review", "owner"} /\ chain[i].at <= now
                 /\ 1 \in DOMAIN chain
        <3>1. chain \in Seq(Identities) /\ DOMAIN chain = 1 .. Len(chain) /\ Len(chain) \in Nat
            BY DEF PersonaTyped
        <3>2. chain[i] \in Identities
            BY <3>1
        <3>3. 1 \in DOMAIN chain
            BY <3>1
        <3> QED BY <3>2, <3>3 DEF PersonaTyped, Identities
    <2>2. \A i \in DOMAIN chain : chain[i].source = "seed" <=> i = 1 /\ chain[1].source = "seed"
        BY <2>1 DEF PersonaTyped
    <2>3. \A d \in Dates : written[d] \in 0 .. now
        BY DEF PersonaTyped
    <2>4. \A s \in Sweepers : drift[s].pc \in {"off", "lock", "check", "read", "base", "run"}
        BY DEF PersonaTyped, DriftStates
    <2> QED BY <2>1, <2>2, <2>3, <2>4 DEF PersonaTyped, PersonaTypeOK
<1> QED BY <1>1, PersonaInvariant, PTL
================================================================================
