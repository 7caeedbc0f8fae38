------------------------------- MODULE MCRounds --------------------------------
(* Small instances of what runs in rounds: the world, the agent every round runs, *)
(* the tools of a life round, her notebook, the reviews of a day and of a week,   *)
(* a chat reply and a book she reads.  They share no state here; each is explored *)
(* on its own: `part` says which one.                                             *)
EXTENDS WorldRound, LifeTools, Notebook, HerDays, Chat, Sessions, Reading, TLC

CONSTANTS
    Tried,              \* how many of each kind of failure a behaviour has
    a1, a2              \* what there is more than one of

VARIABLES
    part

Symmetry == Permutations({a1, a2})

Each(kinds) == [e \in kinds |-> Tried]
Limits(kinds) == [e \in Events |-> IF e \in kinds THEN Tried ELSE 0]

\* Everything may fail but the reflection; two days with a death or with a reflection that
\* fails; the tools' deliveries in rounds that are cut off.
Failing == Limits({"fail", "crash", "persist"})
Daily(kind) == Limits({"arc", kind})
Telling(kinds, n) == [Limits(kinds) EXCEPT !["tell"] = n]

TwoDays(kind) ==
    INSTANCE WorldRound WITH MaxActs <- 1, MaxDay <- 2, MaxWakes <- 0, Limit <- Daily(kind)
Told(kinds, n) ==
    INSTANCE WorldRound WITH MaxActs <- 1, MaxDay <- 1, MaxWakes <- 0, Limit <- Telling(kinds, n)

\* A living day that ends twice and what her state shows of it, beside the mornings of two
\* sweeps, with rounds that fail, of the configuration.
DayTries == Each({"round", "review", "crash", "idle", "turn"})
Bedtimes == INSTANCE DayReview WITH
    Sweeps <- 1, MaxRounds <- 3, MaxJots <- 1, DayLimit <- [DayTries EXCEPT !["round"] = 0]

\* The values of the constants that a configuration cannot write.
MCToolLimit == Each({"fail", "lost", "again", "drift"})
MCNoteLimit == Each({"run", "emit", "node"})
MCPersonaLimit == [Each({"raise", "crash", "idle", "owner", "sweep"}) EXCEPT !["sweep"] = 3]

MCRunLimit == [Each({"transient", "error", "persist", "leave", "bytes"}) EXCEPT !["transient"] = 2]
MCReadingLimit == Each({"bytes", "agent", "raise", "crash", "replay"})

\* A file she reads on and on; every text of up to three paragraphs, cut into pages.
BookTexts == {<<5, 0, 1>>, <<0, 0>>, <<2, 1>>}
AnyText == UNION {[1 .. n -> 0 .. 5] : n \in 0 .. 3}
Library == INSTANCE Reading WITH Texts <- AnyText

Init ==
    /\ ToolsInit /\ NotesInit /\ DayInit /\ PersonaInit /\ AgentInit /\ AdapterInit
    /\ \/ /\ part \in {"world", "doing", "noting", "mornings", "bedtimes", "drifting", "talking",
                       "agent", "speaking", "reading", "pages"}
          /\ WorldInit
       \/ part = "dies" /\ TwoDays("crash")!WorldInit
       \/ part = "muses" /\ TwoDays("reflect")!WorldInit
       \/ part = "told" /\ Told({"fail"}, 1)!WorldInit
       \/ part = "tells" /\ Told({}, 2)!WorldInit
    /\ ChatInit /\ (part # "talking" => replyRow.status = "none")
    /\ IF part = "pages" THEN Library!ReadingInit
       ELSE ReadingInit /\ (part # "reading" => \A f \in Files : text[f] = <<0, 0>>)

\* One part moves, and part stays.
Only(p) == part = p /\ UNCHANGED part
Alone == UNCHANGED <<agentVars, adapterVars, readingVars>>
World(p) == Only(p) /\ Alone /\ UNCHANGED <<toolVars, noteVars, dayVars, personaVars, chatVars>>
Her(p) == Only(p) /\ Alone /\ UNCHANGED <<worldVars, toolVars, noteVars, personaVars, chatVars>>
Apart(p) == Only(p) /\ UNCHANGED <<worldVars, toolVars, noteVars, dayVars, personaVars, chatVars>>

Next ==
    \/ World("world") /\ WorldNext
    \/ World("dies") /\ TwoDays("crash")!WorldNext
    \/ World("muses") /\ TwoDays("reflect")!WorldNext
    \/ World("told") /\ Told({"fail"}, 1)!WorldNext
    \/ World("tells") /\ Told({}, 2)!WorldNext
    \/ Her("mornings") /\ DayNext
    \/ Her("bedtimes") /\ Bedtimes!DayNext
    \/ /\ Only("doing") /\ ToolsNext /\ Alone
       /\ UNCHANGED <<worldVars, noteVars, dayVars, personaVars, chatVars>>
    \/ /\ Only("noting") /\ NotesNext /\ Alone
       /\ UNCHANGED <<worldVars, toolVars, dayVars, personaVars, chatVars>>
    \/ /\ Only("drifting") /\ PersonaNext /\ Alone
       /\ UNCHANGED <<worldVars, toolVars, noteVars, dayVars, chatVars>>
    \/ /\ Only("talking") /\ ChatNext /\ Alone
       /\ UNCHANGED <<worldVars, toolVars, noteVars, dayVars, personaVars>>
    \/ Apart("agent") /\ AgentNext /\ UNCHANGED <<adapterVars, readingVars>>
    \/ Apart("speaking") /\ AdapterNext /\ UNCHANGED <<agentVars, readingVars>>
    \/ Apart("reading") /\ ReadingNext /\ UNCHANGED <<agentVars, adapterVars>>

vars == <<part, worldVars, toolVars, noteVars, dayVars, personaVars, chatVars, agentVars,
          adapterVars, readingVars>>

Spec == Init /\ [][Next]_vars

\* Every part keeps its types, and the pages of every text hold it.
WellTyped ==
    /\ part = "world" => WorldTypeOK
    /\ part = "dies" => TwoDays("crash")!WorldTypeOK
    /\ part = "muses" => TwoDays("reflect")!WorldTypeOK
    /\ part = "told" => Told({"fail"}, 1)!WorldTypeOK
    /\ part = "tells" => Told({}, 2)!WorldTypeOK
    /\ part = "agent" => AgentTypeOK
    /\ part = "doing" => ToolsTypeOK
    /\ part = "noting" => NotesTypeOK
    /\ part = "bedtimes" => Bedtimes!DayTypeOK
    /\ part = "mornings" => DayTypeOK
    /\ part = "drifting" => PersonaTypeOK
    /\ part = "talking" => ChatTypeOK
    /\ part = "reading" => ReadingTypeOK
    /\ part = "pages" => Library!ReadingTypeOK /\ PagesHoldTheText
    /\ part = "speaking" => AdapterTypeOK
================================================================================
