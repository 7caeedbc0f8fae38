--------------------------------- MODULE Wiring ---------------------------------
(***************************************************************************)
(* Wiring a graph and compiling it (runtime/wire.py, graph.py, placement.py,*)
(* node.py), against what the edges do with it later (emit.py, durable.py,  *)
(* debounce.py): a graph that compiles calls every consumer with what it    *)
(* declares, but for two gaps between the checks and emit, which are named. *)
(***************************************************************************)
EXTENDS Naturals, FiniteSets, SequencesExt

CONSTANTS
    DataTypes,      \* Data classes: [transient, fields, keys]
    Nodes,          \* functions: [node: decorated?, inputs, app]
    DefaultApp,     \* DEFAULT_APP
    Declared,       \* wires that are there already
    MaxCalls        \* bound: calls on the wire under construction

ASSUME WiringAssumption == MaxCalls \in Nat

VARIABLES
    wire,           \* the WireSpec that is being built
    built,
    graph           \* "open", "refused" or "compiled"

Types == DOMAIN DataTypes
WireSources == {"mq", "http", "cron"}
Sinks == {"routed", "unknown"}

NewWire(type) ==
    [type |-> type, consumers |-> {}, sinks |-> {}, sources |-> {}, durable |-> FALSE,
     latest |-> FALSE, when |-> FALSE, debounce |-> FALSE, joins |-> {}, retry |-> FALSE,
     on_error |-> "dlq", fan |-> FALSE]

WiringTypeOK ==
    /\ wire.type \in Types /\ wire.consumers \subseteq DOMAIN Nodes
    /\ wire.joins \subseteq Types /\ wire.sources \subseteq WireSources /\ wire.sinks \subseteq Sinks
    /\ built \in 0 .. MaxCalls
    /\ graph \in {"open", "refused", "compiled"}

WiringInit ==
    /\ wire \in {NewWire(t) : t \in Types}
    /\ built = 0
    /\ graph = "open"

Inputs(c) == Nodes[c].inputs
AppOf(c) == IF Nodes[c].app = "unbound" THEN DefaultApp ELSE Nodes[c].app
Transient(t) == DataTypes[t].transient
KeysOf(t) == ToSet(DataTypes[t].keys)
JoinKey(t) == Head(DataTypes[t].keys)
Wires == Declared \cup {wire}
KeptAsLatest(t) == \E w \in Wires : w.type = t /\ w.latest

--------------------------------------------------------------------------------
Builds(changed) ==
    /\ graph = "open" /\ built < MaxCalls
    /\ wire' = changed /\ changed # wire
    /\ built' = built + 1
    /\ UNCHANGED graph

To == \/ \E c \in DOMAIN Nodes : Builds([wire EXCEPT !.consumers = @ \cup {c}])
      \/ \E s \in Sinks : Builds([wire EXCEPT !.sinks = @ \cup {s}])

From == \E s \in WireSources : Builds([wire EXCEPT !.sources = @ \cup {s}])
Durable == Builds([wire EXCEPT !.durable = TRUE])
AsLatest == Builds([wire EXCEPT !.latest = TRUE])
When == Builds([wire EXCEPT !.when = TRUE])
Debounce == Builds([wire EXCEPT !.debounce = TRUE])
WithLatest == \E ts \in SUBSET Types : Builds([wire EXCEPT !.joins = ts])
FanOutPer == Builds([wire EXCEPT !.fan = TRUE])

\* retry() must come after durable().
Retry == wire.durable /\ Builds([wire EXCEPT !.retry = TRUE])
OnError == Builds([wire EXCEPT !.on_error = "swallow_and_log"])

--------------------------------------------------------------------------------
\* The checks of compile_graph, each for a wire w.
Registered(w) == \A c \in w.consumers : Nodes[c].node

LatestIsWritten(w) == \A t \in w.joins : KeptAsLatest(t)

SignatureFits(w) == \A c \in w.consumers : Inputs(c) = {w.type} \cup w.joins

MqHasOneTarget(w) ==
    "mq" \in w.sources =>
        Cardinality(w.consumers) = 1 /\ \A c \in w.consumers : Cardinality(Inputs(c)) = 1

OneApp(w) == \A c, d \in w.consumers : AppOf(c) = AppOf(d)

DebouncesAlone(w) ==
    w.debounce =>
        /\ Transient(w.type)
        /\ ~w.durable /\ ~w.latest /\ ~w.when
        /\ w.joins = {} /\ w.sinks = {} /\ w.sources = {}
        /\ Cardinality(w.consumers) = 1
        /\ \A o \in Wires \ {w} : o.debounce => o.type # w.type
        /\ w = wire => w \notin Declared

NoJoinOverQueue(w) == w.durable => w.joins = {}

DurableIsPersisted(w) == w.durable => ~Transient(w.type)

JoinsHaveKeys(w) == \A t \in w.joins : JoinKey(t) \in DataTypes[w.type].fields

OnErrorIsDurable(w) == w.on_error # "dlq" => w.durable

FansAlone(w) == w.fan => ~w.durable /\ ~w.debounce /\ w.joins = {}

SinksAreRouted(w) == "unknown" \notin w.sinks

HttpIsAtHome(w) == "http" \in w.sources => \A c \in w.consumers : AppOf(c) = DefaultApp

Compiles ==
    \A w \in Wires :
        /\ Registered(w) /\ LatestIsWritten(w) /\ SignatureFits(w)
        /\ MqHasOneTarget(w) /\ OneApp(w) /\ DebouncesAlone(w)
        /\ NoJoinOverQueue(w) /\ DurableIsPersisted(w) /\ JoinsHaveKeys(w)
        /\ OnErrorIsDurable(w) /\ FansAlone(w) /\ SinksAreRouted(w) /\ HttpIsAtHome(w)

Compile ==
    /\ graph = "open"
    /\ graph' = IF Compiles THEN "compiled" ELSE "refused"
    /\ UNCHANGED <<wire, built>>

WiringNext ==
    \/ To \/ From \/ Durable \/ AsLatest \/ When \/ Debounce \/ WithLatest \/ FanOutPer
    \/ Retry \/ OnError \/ Compile

wiringVars == <<wire, built, graph>>

WiringSpec == WiringInit /\ [][WiringNext]_wiringVars
--------------------------------------------------------------------------------
\* What the edges do later, read off the code that does it.

\* emit: which way an instance goes to a consumer.
Way(w) ==
    IF w.debounce THEN "debounce" ELSE IF w.fan THEN "fan" ELSE IF w.durable THEN "durable"
    ELSE "call"

\* _resolve_inputs looks up the joins the consumer names; a handler has the one instance.
Supplied(w, c) ==
    IF Way(w) \in {"call", "fan"} THEN Inputs(c) \cap ({w.type} \cup w.joins) ELSE {w.type}

\* A join is looked up with the value of its first key, read from the instance; select_latest
\* compares every key, in a table that some wire has to fill.
FindsJoin(w, t) ==
    \/ t = w.type
    \/ /\ JoinKey(t) \in DataTypes[w.type].fields /\ KeysOf(t) \subseteq {JoinKey(t)}
       /\ KeptAsLatest(t) /\ ~Transient(t)

\* emit appends an instance of a class that any of its wires keeps as latest, whichever way
\* it goes on, and the handler of a durable edge inserts it.
Stores(t) == KeptAsLatest(t) \/ \E w \in Wires : w.type = t /\ Way(w) = "durable"

\* The gaps.  No check asks whether the class behind as_latest has a table, nor for more than
\* the first key of what is joined.
KeptNowhere(t) == Transient(t) /\ KeptAsLatest(t)
JoinedInPart(t) == \E key \in KeysOf(t) : key # JoinKey(t)

\* Every consumer of a graph that compiles is called with the parameters it declares; emit
\* finds each of them but for the two gaps, where it fails, and has a table for what it
\* stores but for the first; and the state a debounced edge keeps in redis under its data type
\* is not another edge's.
CompiledCallsFit ==
    graph = "compiled" =>
        /\ \A w \in Wires : \A c \in w.consumers :
            /\ Supplied(w, c) = Inputs(c)
            /\ \A t \in Inputs(c) \ {w.type} :
                FindsJoin(w, t) <=> ~KeptNowhere(t) /\ ~JoinedInPart(t)
        /\ \A t \in Types : Stores(t) /\ Transient(t) => KeptNowhere(t)
        /\ \A w, o \in Wires : w.debounce /\ o.debounce /\ o.type = w.type => o = w

\* An instance posted to http reaches every consumer in the process that took it.
CompiledHttpArrives ==
    graph = "compiled" => \A w \in Wires :
        "http" \in w.sources /\ Way(w) \in {"call", "fan"} => \A c \in w.consumers : AppOf(c) = DefaultApp
================================================================================
