------------------------------- MODULE Emission --------------------------------
(***************************************************************************)
(* emit and what calls it (runtime/emit.py, emit_wait.py, scheduled.py,     *)
(* delayed_trigger.py, http_source.py).                                     *)
(*                                                                         *)
(* An emit walks the wires of its data in order, awaiting each.  It is      *)
(* awaited by a source, raced against a reply (emit_and_wait), or started   *)
(* when a delay is over, by a task of this process or by the trigger queue. *)
(* All calls share the process, its registry of waiters and its stop.       *)
(***************************************************************************)
EXTENDS Naturals, Sequences, FiniteSets

CONSTANTS
    Emits,          \* emits under way
    Wirings,        \* what a compiled graph may have for the data
    FanKeys,        \* what a fan_out_per extractor lists
    Correlations,   \* correlation ids
    NoCall,
    EmitLimit       \* bound on each of EmitEvents

\* How a wire hands its data on: to a node here, to one that reads with_latest, to
\* one node per key, to a durable or a debounced edge, to the queue of another app's
\* source, to another app without a transport.
WireKinds == {"call", "reads", "fan", "durable", "debounce", "mq", "foreign"}

\* A node or publish raises; a budget runs out; the process stops; a reply comes from
\* elsewhere.
EmitEvents == {"raise", "expire", "stop", "late"}

\* The wires of the data in their order, and whether one of them is as_latest.
Wired == [wires : Seq([kind : WireKinds, when : BOOLEAN, sink : BOOLEAN]), latest : BOOLEAN]

ASSUME EmissionAssumption ==
    /\ Wirings \subseteq Wired
    /\ NoCall \notin Emits \cup Correlations /\ "sink" \notin FanKeys
    /\ EmitLimit \in [EmitEvents -> Nat]

VARIABLES
    wiring,     \* what the compiled graph has for the data
    calls,      \* the calls
    waiters,    \* _waiters: who waits for each correlation
    reached,    \* history: <<call, wire, target>> handed on
    persisted,  \* rows insert_append wrote, and by which call
    incidents   \* how often each of EmitEvents happened

emitVars == <<wiring, calls, waiters, reached, persisted, incidents>>

Running == {"append", "wire", "fan", "sink"}
Over == {"done", "raised", "cancelled"}

\* pc, wire, keys: the emit.  wait, key, reply, out: the emit_and_wait around it.
NoEmit == [pc |-> "idle", wire |-> 1, keys |-> {}, wait |-> "no", key |-> NoCall,
           reply |-> NoCall, out |-> "none"]

Outs == {"none", "reply", "timeout", "raised", "duplicate", "cancelled"}

\* Types; whoever waits is registered, and whoever is done waiting has no emit left.
EmissionTypeOK ==
    /\ wiring \in Wirings
    /\ \A c \in Emits :
        /\ calls[c].pc \in Running \cup Over \cup {"idle", "asleep", "held"}
        /\ calls[c].wire \in 1 .. Len(wiring.wires) + 1
        /\ calls[c].keys \subseteq FanKeys
        /\ calls[c].wait \in {"no", "first", "join", "second", "over"}
        /\ calls[c].out \in Outs
    /\ waiters \in [Correlations -> Emits \cup {NoCall}]
    /\ persisted \subseteq Emits

EmissionInit ==
    /\ wiring \in Wirings
    /\ calls = [c \in Emits |-> NoEmit]
    /\ waiters = [k \in Correlations |-> NoCall]
    /\ reached = {} /\ persisted = {}
    /\ incidents = [e \in EmitEvents |-> 0]

Incident(e) == incidents[e] < EmitLimit[e] /\ incidents' = [incidents EXCEPT ![e] = @ + 1]

AtStep(c, pc) == calls[c].pc = pc
Is(c, new) == calls' = [calls EXCEPT ![c] = [f \in DOMAIN @ |->
                           IF f \in DOMAIN new THEN new[f] ELSE @[f]]]

Started == IF wiring.latest THEN "append" ELSE "wire"

--------------------------------------------------------------------------------
\* An awaited emit: of a source, a handler, an HTTP endpoint; emit_delayed with no
\* delay left.  Its data is no reply: notify finds nobody.
Emit(c) ==
    /\ AtStep(c, "idle")
    /\ Is(c, [pc |-> Started])
    /\ UNCHANGED <<wiring, waiters, reached, persisted, incidents>>

\* emit_and_wait: a correlation that is waited for already is refused.
EmitAndWait(c) ==
    /\ AtStep(c, "idle")
    /\ \E k \in Correlations :
        IF waiters[k] # NoCall
          THEN Is(c, [pc |-> "done", wait |-> "over", out |-> "duplicate"]) /\ UNCHANGED waiters
          ELSE /\ waiters' = [waiters EXCEPT ![k] = c]
               /\ Is(c, [pc |-> Started, wait |-> "first", key |-> k])
    /\ UNCHANGED <<wiring, reached, persisted, incidents>>

\* emit_delayed: a task of this process (best_effort), or an envelope in the trigger
\* queue, which the caller may be told was not confirmed.
EmitDelayed(c) ==
    /\ AtStep(c, "idle")
    /\ \/ Is(c, [pc |-> "asleep"]) /\ UNCHANGED incidents
       \/ Is(c, [pc |-> "held"]) /\ UNCHANGED incidents
       \/ Is(c, [pc |-> "held", out |-> "raised"]) /\ Incident("raise")
    /\ UNCHANGED <<wiring, waiters, reached, persisted>>

\* The delay is over.  The trigger consumer drops an envelope of another app, of a
\* class it does not find or whose fields do not fit.
DelayOver(c) ==
    /\ \/ AtStep(c, "asleep") /\ Is(c, [pc |-> Started])
       \/ AtStep(c, "held") /\ \E pc \in {Started, "done"} : Is(c, [pc |-> pc])
    /\ UNCHANGED <<wiring, waiters, reached, persisted, incidents>>

--------------------------------------------------------------------------------
\* The rows come before the nodes that read them.
AppendLatest(c) ==
    /\ AtStep(c, "append")
    /\ \/ persisted' = persisted \cup {c} /\ Is(c, [pc |-> "wire"]) /\ UNCHANGED incidents
       \/ Incident("raise") /\ Is(c, [pc |-> "raised"]) /\ UNCHANGED persisted
    /\ UNCHANGED <<wiring, waiters, reached>>

AtWire(c) == AtStep(c, "wire") /\ calls[c].wire <= Len(wiring.wires)
Wire(c) == wiring.wires[calls[c].wire]
NextWire(c) == [pc |-> "wire", wire |-> calls[c].wire + 1]
Reaches(c, targets) == reached' = reached \cup {<<c, calls[c].wire, t>> : t \in targets}

\* A predicate says no.
SkipWire(c) ==
    /\ AtWire(c) /\ Wire(c).when
    /\ Is(c, NextWire(c))
    /\ UNCHANGED <<wiring, waiters, reached, persisted, incidents>>

\* A publish: debounced wires have no sinks.  It may raise although it was taken.
PublishWire(c) ==
    /\ AtWire(c) /\ Wire(c).kind \in {"durable", "debounce", "mq"}
    /\ \/ Reaches(c, {"it"}) /\ UNCHANGED incidents
          /\ Is(c, IF Wire(c).sink THEN [pc |-> "sink"] ELSE NextWire(c))
       \/ Incident("raise") /\ Is(c, [pc |-> "raised"])
          /\ \E taken \in BOOLEAN : IF taken THEN Reaches(c, {"it"}) ELSE UNCHANGED reached
    /\ UNCHANGED <<wiring, waiters, persisted>>

\* _resolve_inputs: with_latest needs the row, an earlier emit's or this one's.
Resolves(c) == Wire(c).kind = "reads" => persisted # {}

\* notify, inside the emit of a reply: the future of its correlation, once.
Notified(k) ==
    LET c == waiters[k] IN
    IF c = NoCall \/ calls[c].reply # NoCall THEN calls
    ELSE [calls EXCEPT ![c].reply = k]

Replies(c) == {k \in Correlations : k = calls[c].key}

\* A node of this process: it runs, and what it returns is emitted (here: a reply);
\* what it raises leaves the emit, with the wires and sinks that follow.
CallNode(c) ==
    /\ AtWire(c) /\ Wire(c).kind \in {"call", "reads"}
    /\ IF ~Resolves(c)
         THEN Is(c, [pc |-> "raised"]) /\ UNCHANGED <<wiring, reached, incidents>>
         ELSE /\ Reaches(c, {"it"})
              /\ LET after == IF Wire(c).sink THEN [pc |-> "sink", wire |-> calls[c].wire] ELSE NextWire(c) IN
                 \/ UNCHANGED incidents
                    /\ \E said \in {calls} \cup {Notified(k) : k \in Replies(c)} :
                        calls' = [said EXCEPT ![c].pc = after.pc, ![c].wire = after.wire]
                 \/ Incident("raise") /\ Is(c, [pc |-> "raised"])
    /\ UNCHANGED <<wiring, waiters, persisted>>

\* Another app without a transport.
ForeignNode(c) ==
    /\ AtWire(c) /\ Wire(c).kind = "foreign"
    /\ Is(c, [pc |-> "raised"])
    /\ UNCHANGED <<wiring, waiters, reached, persisted, incidents>>

\* fan_out_per: the extractor lists the keys, or fails and the wire is dropped.
Fan(c) ==
    /\ AtWire(c) /\ Wire(c).kind = "fan"
    /\ \/ Is(c, [pc |-> "fan", keys |-> FanKeys]) /\ UNCHANGED incidents
       \/ Is(c, [pc |-> "fan", keys |-> {}]) /\ Incident("raise")
    /\ UNCHANGED <<wiring, waiters, reached, persisted>>

\* The nodes of the keys run side by side; what one raises is logged.
FanKey(c) ==
    /\ AtStep(c, "fan") /\ calls[c].keys # {}
    /\ \E k \in calls[c].keys :
        /\ Reaches(c, {k}) /\ Is(c, [keys |-> calls[c].keys \ {k}])
        /\ Incident("raise") \/ UNCHANGED incidents
    /\ UNCHANGED <<wiring, waiters, persisted>>

FanEnds(c) ==
    /\ AtStep(c, "fan") /\ calls[c].keys = {}
    /\ Is(c, IF Wire(c).sink THEN [pc |-> "sink"] ELSE NextWire(c))
    /\ UNCHANGED <<wiring, waiters, reached, persisted, incidents>>

Sink(c) ==
    /\ AtStep(c, "sink")
    /\ \/ Reaches(c, {"sink"}) /\ Is(c, NextWire(c)) /\ UNCHANGED incidents
       \/ Is(c, [pc |-> "raised"]) /\ Incident("raise") /\ UNCHANGED reached
    /\ UNCHANGED <<wiring, waiters, persisted>>

Returns(c) ==
    /\ AtStep(c, "wire") /\ calls[c].wire > Len(wiring.wires)
    /\ Is(c, [pc |-> "done"])
    /\ UNCHANGED <<wiring, waiters, reached, persisted, incidents>>

\* A reply from elsewhere: a durable consumer of this process, a redelivery.
LateReply(k) ==
    /\ Incident("late")
    /\ calls' = Notified(k)
    /\ UNCHANGED <<wiring, waiters, reached, persisted>>

--------------------------------------------------------------------------------
\* Wrong variant: only a reply unregisters.
EndsRegistered(c, out) ==
    /\ Is(c, [wait |-> "over", out |-> out,
              pc |-> IF calls[c].pc \in Running THEN "cancelled" ELSE calls[c].pc])
    /\ waiters' = IF out = "reply" THEN [waiters EXCEPT ![calls[c].key] = NoCall] ELSE waiters

\* The end of an emit_and_wait: the emit is cancelled if it still runs, the waiter
\* unregistered.
Ends(c, out) ==
    /\ Is(c, [wait |-> "over", out |-> out,
              pc |-> IF calls[c].pc \in Running THEN "cancelled" ELSE calls[c].pc])
    /\ waiters' = [waiters EXCEPT ![calls[c].key] = NoCall]

\* The race of reply, emit and budget: a reply is preferred, and waits for the emit
\* without a budget; an emit that returned first opens a second budget.
Race(c) ==
    LET replied == calls[c].reply # NoCall IN
    /\ \/ calls[c].wait = "first" /\ replied /\ Is(c, [wait |-> "join"]) /\ UNCHANGED waiters
       \/ calls[c].wait = "first" /\ ~replied /\ AtStep(c, "done")
          /\ Is(c, [wait |-> "second"]) /\ UNCHANGED waiters
       \/ calls[c].wait = "first" /\ ~replied /\ AtStep(c, "raised") /\ Ends(c, "raised")
       \/ calls[c].wait = "join" /\ calls[c].pc \in Over /\ Ends(c, "reply")
       \/ calls[c].wait = "second" /\ replied /\ Ends(c, "reply")
    /\ UNCHANGED <<wiring, reached, persisted, incidents>>

\* timeout_s is over with nothing done.
Expires(c) ==
    /\ calls[c].reply = NoCall
    /\ \/ calls[c].wait = "first" /\ calls[c].pc \in Running
       \/ calls[c].wait = "second"
    /\ Incident("expire")
    /\ Ends(c, "timeout")
    /\ UNCHANGED <<wiring, reached, persisted>>

\* A stop cancels what runs and what sleeps; a trigger stays in its queue.
StopEmits ==
    /\ Incident("stop")
    /\ calls' = [c \in Emits |->
           IF calls[c].pc \in Running \cup {"asleep"} \/ calls[c].wait \in {"first", "join", "second"}
             THEN [calls[c] EXCEPT
                     !.pc = IF @ \in Over THEN @ ELSE "cancelled",
                     !.wait = IF @ = "no" THEN @ ELSE "over",
                     !.out = IF calls[c].wait = "no" THEN @ ELSE "cancelled"]
             ELSE calls[c]]
    /\ waiters' = [k \in Correlations |-> NoCall]
    /\ UNCHANGED <<wiring, reached, persisted>>

CallStep(c) ==
    \/ AppendLatest(c) \/ SkipWire(c) \/ PublishWire(c) \/ CallNode(c) \/ ForeignNode(c)
    \/ Fan(c) \/ FanKey(c) \/ FanEnds(c) \/ Sink(c) \/ Returns(c) \/ Race(c)

EmissionNext ==
    \/ \E c \in Emits : \/ Emit(c) \/ EmitAndWait(c) \/ EmitDelayed(c) \/ DelayOver(c)
                        \/ CallStep(c) \/ Expires(c)
    \/ \E k \in Correlations : LateReply(k)
    \/ StopEmits

EmissionSpec == EmissionInit /\ [][EmissionNext]_emitVars
--------------------------------------------------------------------------------
\* Whoever waits is in the registry under its own correlation and whoever is there
\* waits; an emit_and_wait that is over leaves no emit running, and a reply came
\* from the emit of its own correlation.
WaitersAreClean ==
    /\ \A k \in Correlations : \A c \in Emits :
        waiters[k] = c <=> calls[c].key = k /\ calls[c].wait \in {"first", "join", "second"}
    /\ \A c \in Emits :
        /\ calls[c].wait = "over" => calls[c].pc \in Over
        /\ calls[c].out = "reply" => calls[c].reply = calls[c].key

Handed(c, i) == {r \in reached : r[1] = c /\ r[2] = i}

\* An emit is strict and in order: a wire is only reached when every wire before it
\* that no predicate skipped was, its sink only after its consumers; one key that
\* fails leaves the others alone; and nobody reads a row that is not written yet.
EmitsInOrder ==
    \A c \in Emits : \A i \in 1 .. Len(wiring.wires) :
        /\ Handed(c, i) # {} => \A j \in 1 .. i - 1 :
            Handed(c, j) # {} \/ wiring.wires[j].when \/ wiring.wires[j].kind = "fan"
        /\ wiring.wires[i].kind = "fan" /\ calls[c].wire > i =>
            {k \in FanKeys : <<c, i, k>> \in reached} \in {{}, FanKeys}
        /\ wiring.latest /\ Handed(c, i) # {} => c \in persisted

\* No waiter outlives its call, and what a node is handed was appended before
\* (emit.py, emit_wait.py).
EmissionIsClean == WaitersAreClean /\ EmitsInOrder
================================================================================
