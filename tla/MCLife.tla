-------------------------------- MODULE MCLife ---------------------------------
(* Two instances of LifeWake: rounds that fail over an event and a passive one,   *)
(* and rounds that overlap over two events that knock.  `part` says which one      *)
(* moves; they share the variables, and the bounds of the first cover the second. *)
EXTENDS MCLifeWake

VARIABLE part

Overlap == INSTANCE LifeWake WITH
    InboxMax <- 1, MaxChats <- 0, Limit <- LossLimit

LifeInit == part \in {"faults", "overlap"} /\ Init

Only(p) == part = p /\ UNCHANGED part

LifeNext ==
    \/ Only("faults") /\ Next /\ 3 \notin envelopes'
    \/ Only("overlap") /\ Overlap!Next /\ envelopes' \cap Passive = {}

LifeSpec == LifeInit /\ [][LifeNext]_<<part, vars>>
================================================================================
