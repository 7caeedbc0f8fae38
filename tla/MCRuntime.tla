------------------------------- MODULE MCRuntime -------------------------------
(* Small instances of the debounced edge and of what the runtime has around the  *)
(* edges.  They share no state here; each is explored on its own: `part` says     *)
(* which one moves.                                                              *)
EXTENDS MCDebounce, Promises, Emission, LaneQueues, Versions, Processes, Tagger

CONSTANTS Nobody

VARIABLE part

\* An envelope, and the bare event of a durable edge.
Carried == "e1" :> "envelope" @@ "b1" :> "bare"

Each(kinds) == [e \in kinds |-> 1]
\* The values of the constants that a configuration cannot write.
MCLetters == DOMAIN Carried
MCDeadLimit == [Each({"request", "fault", "drop"}) EXCEPT !["request"] = 2]
MCOutboxLimit == Each({"emit", "db", "crash"})
MCLoopLimit == Each(LoopEvents)
MCLockOf == "k" :> "l"

\* A fan with a sink and a node that reads what was appended; a durable edge behind a
\* predicate, with a sink, and another app without a queue; a node with a sink and a
\* debounced edge behind a predicate.
A(kind, when, sink) == [kind |-> kind, when |-> when, sink |-> sink]
MCWirings == {
    [wires |-> <<A("fan", TRUE, TRUE), A("reads", FALSE, TRUE)>>, latest |-> TRUE],
    [wires |-> <<A("durable", TRUE, TRUE), A("foreign", FALSE, FALSE)>>, latest |-> FALSE],
    [wires |-> <<A("call", FALSE, TRUE), A("debounce", TRUE, FALSE)>>, latest |-> FALSE]}
MCEmitLimit == Each({"raise", "expire", "stop", "late"})

\* A wire under construction beside those that keep the mood and the diary and a debounced one.
DataClass(transient, fields, keys) == [transient |-> transient, fields |-> fields, keys |-> keys]
MCDataTypes ==
    "job" :> DataClass(FALSE, {"id", "who"}, <<"id">>) @@ "tick" :> DataClass(TRUE, {"id"}, <<"id">>)
    @@ "mood" :> DataClass(FALSE, {"who"}, <<"who">>)
    @@ "diary" :> DataClass(FALSE, {"who", "day"}, <<"who", "day">>)

Node(inputs, app) == [node |-> TRUE, inputs |-> inputs, app |-> app]
MCNodes ==
    "onJob" :> Node({"job"}, "unbound") @@ "workJob" :> Node({"job"}, "worker")
    @@ "onTick" :> Node({"tick"}, "unbound") @@ "joins" :> Node({"job", "mood"}, "unbound")
    @@ "reads" :> Node({"job", "diary"}, "unbound") @@ "plain" :> [node |-> FALSE, inputs |-> {"job"}, app |-> "unbound"]

Declares(type, keeps, debounced, consumers) ==
    [type |-> type, consumers |-> consumers, sinks |-> {}, sources |-> {}, durable |-> FALSE,
     latest |-> keeps, when |-> FALSE, debounce |-> debounced, joins |-> {}, retry |-> FALSE,
     on_error |-> "dlq", fan |-> FALSE]

MCDeclared == {Declares("mood", TRUE, FALSE, {}), Declares("diary", TRUE, FALSE, {}),
               Declares("tick", FALSE, TRUE, {"onTick"})}

\* Releases that add a column, change its type, cannot be mapped and name a wrong index.
Shape(fields, indexes) == [fields |-> fields, indexes |-> indexes]
MCReleases ==
    "one" :> Shape([day |-> "date", at |-> "datetime"], {{"day"}})
    @@ "two" :> Shape([day |-> "date", at |-> "datetime", mood |-> "str | None"], {{"day", "mood"}})
    @@ "three" :> Shape([day |-> "date", at |-> "datetime", mood |-> "dict"], {{"created_at"}})
    @@ "union" :> Shape([day |-> "int | str"], {})
    @@ "typo" :> Shape([day |-> "date", at |-> "datetime"], {{"dya"}})

MCDirs == <<"a", "b">>

\* The same image twice, and one that cannot be read.
Images(paths) == [paths |-> paths, allowed |-> TRUE]
MCSubmitted == "t" :> Images(<<"a", "b", "a">>) @@ "u" :> Images(<<"b">>)
MCTaggerLimit == Each(TaggerFaults)
\* Of the kinds of fault of the largest parts, a few in one behaviour.
FewFaults == MapThenSumSet(LAMBDA e : spent[e], Faults) <= 3
FewTroubles == MapThenSumSet(LAMBDA e : troubles[e], LoopEvents) <= 3
FewTaggings == MapThenSumSet(LAMBDA f : taggings[f], TaggerFaults) <= 2

RuntimeInit ==
    /\ Init /\ DeadLettersInit /\ OutboxInit /\ LoopsInit /\ LanesInit /\ VersionsInit
    /\ EmissionInit /\ WiringInit /\ SchemaInit /\ SnapshotsInit
    /\ TaggerInit
    /\ part \in {"fires", "dead", "outbox", "emits", "loops", "lanes", "rows", "wires",
                 "schema", "settings", "skills", "tags"}
    /\ part # "emits" => wiring.latest
    /\ wire.type \in {"tick", "job"} /\ (part # "wires" => wire.type = "tick")
    /\ part # "settings" => config = Missing
    /\ part # "tags" => process.exits

\* One part moves, and part stays.
Only(p) == part = p /\ UNCHANGED part
Edges == <<vars, deadVars, outboxVars, emitVars, loopVars, laneVars, versionVars>>
Kept == <<wiringVars, schemaVars, snapshotVars, taggerVars>>
Apart(p) == Only(p) /\ UNCHANGED Edges
Edge(p) == Only(p) /\ UNCHANGED Kept

RuntimeNext ==
    \/ /\ Edge("fires") /\ Next /\ FewFaults'
       /\ UNCHANGED <<deadVars, outboxVars, emitVars, loopVars, laneVars, versionVars>>
    \/ /\ Edge("dead") /\ DeadLettersNext
       /\ UNCHANGED <<vars, outboxVars, emitVars, loopVars, laneVars, versionVars>>
    \/ /\ Edge("outbox") /\ OutboxNext
       /\ UNCHANGED <<vars, deadVars, emitVars, loopVars, laneVars, versionVars>>
    \/ /\ Edge("emits") /\ EmissionNext
       /\ UNCHANGED <<vars, deadVars, outboxVars, loopVars, laneVars, versionVars>>
    \/ /\ Edge("loops") /\ LoopsNext /\ FewTroubles'
       /\ UNCHANGED <<vars, deadVars, outboxVars, emitVars, laneVars, versionVars>>
    \/ /\ Edge("lanes") /\ LanesNext
       /\ UNCHANGED <<vars, deadVars, outboxVars, emitVars, loopVars, versionVars>>
    \/ /\ Edge("rows") /\ VersionsNext
       /\ UNCHANGED <<vars, deadVars, outboxVars, emitVars, loopVars, laneVars>>
    \/ Apart("wires") /\ WiringNext /\ UNCHANGED <<schemaVars, snapshotVars, taggerVars>>
    \/ Apart("schema") /\ SchemaNext /\ UNCHANGED <<wiringVars, snapshotVars, taggerVars>>
    \/ Apart("settings") /\ SettingsNext /\ UNCHANGED <<wiringVars, schemaVars, skillVars, taggerVars>>
    \/ Apart("skills") /\ SkillsNext /\ UNCHANGED <<wiringVars, schemaVars, configVars, taggerVars>>
    \/ Apart("tags") /\ TaggerNext /\ FewTaggings' /\ UNCHANGED <<wiringVars, schemaVars, snapshotVars>>

runtimeVars == <<part, Edges, Kept>>

RuntimeSpec == RuntimeInit /\ [][RuntimeNext]_runtimeVars

WellTyped ==
    /\ part = "dead" => DeadLettersTypeOK
    /\ part = "outbox" => OutboxTypeOK
    /\ part = "loops" => LoopsTypeOK
    /\ part = "lanes" => LanesTypeOK
    /\ part = "rows" => VersionsTypeOK
    /\ part = "emits" => EmissionTypeOK
    /\ part = "wires" => WiringTypeOK
    /\ part = "schema" => SchemaTypeOK
    /\ part = "tags" => TaggerTypeOK /\ EveryPathIsAnswered
    /\ part \in {"settings", "skills"} => SnapshotsTypeOK
================================================================================
