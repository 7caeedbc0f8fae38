------------------------------ MODULE MCLifeWake -------------------------------
(* Instances of LifeWake for TLC. *)
EXTENDS LifeWake, TLC

CONSTANTS r1, r2

MCRunners == {r1, r2}

Symmetry == Permutations(MCRunners)

Limits(call, model, crash, loss, knock, expiry, cap) ==
    [f \in Faults |-> CASE f = "call" -> call [] f = "model" -> model
                        [] f = "crash" -> crash [] f = "loss" -> loss
                        [] f = "knock" -> knock [] f = "expiry" -> expiry
                        [] f = "cap" -> cap]

OneCall     == Limits(1, 0, 0, 0, 0, 0, 0)
FaultLimit  == Limits(1, 1, 1, 0, 1, 0, 0)
LossLimit   == Limits(0, 0, 0, 1, 0, 1, 1)
================================================================================
