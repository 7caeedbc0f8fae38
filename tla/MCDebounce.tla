------------------------------ MODULE MCDebounce -------------------------------
(* Instances of Debounce for TLC. *)
EXTENDS Debounce, TLC

CONSTANTS h1, h2

MCHandlers == {h1, h2}

Symmetry == Permutations(MCHandlers)

Limits(fault, crash, loss, expiry, replay) ==
    [e \in Faults |-> CASE e = "fault" -> fault [] e = "crash" -> crash
                        [] e = "loss" -> loss [] e = "expiry" -> expiry
                        [] e = "replay" -> replay]

AllLimit    == Limits(1, 1, 1, 1, 1)
OneCrash    == Limits(0, 1, 0, 0, 0)
================================================================================
