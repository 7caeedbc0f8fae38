----------------------------- MODULE MCDurableEdge -----------------------------
(* Instances of DurableEdge for TLC. *)
EXTENDS DurableEdge, TLC

CONSTANTS k1, k2, w1, w2, none

MCKeys    == {k1, k2}
OneKey    == {k1}
MCWorkers == {w1, w2}

Symmetry    == Permutations(MCKeys) \cup Permutations(MCWorkers)
WorkersOnly == Permutations(MCWorkers)

Limits(publish, fault, crash, loss, clear, replay) ==
    [e \in Events |-> CASE e = "publish" -> publish [] e = "fault" -> fault
                        [] e = "crash" -> crash [] e = "loss" -> loss
                        [] e = "clear" -> clear [] e = "replay" -> replay]
\* Everything that can go wrong, once each, after two publishes of the event.
FaultLimit == Limits(2, 1, 1, 1, 1, 1)
\* One worker dies.
OneCrash == Limits(1, 0, 1, 0, 0, 0)
\* An operator clears rows and replays dead letters.
OperatorLimit == Limits(1, 0, 0, 0, 1, 1)
================================================================================
