------------------------------- MODULE Promises --------------------------------
(***************************************************************************)
(* What the runtime has promised to do and takes in hand before it is done: *)
(* the dead letters of a requeue, the rows of the outbox, the frames of a   *)
(* queue source.  Each is taken, acted on and settled in steps of their own, *)
(* by another system each, with no transaction around them.  The three meet *)
(* nowhere but in a deployment: this module states them side by side.       *)
(***************************************************************************)
EXTENDS DeadLetters, Outbox, SourceLoops

PromisesSpec == DeadLettersSpec /\ OutboxSpec /\ LoopsSpec

\* A dead letter leaves its queue only into the origin's or because its event succeeded,
\* a replay is audited, and a second one has a fault behind it (nodes/dlq_admin.py); what a
\* transaction promised is emitted, by whichever dispatcher, and again only after a batch
\* failed (outbox_dispatcher.py).
PromisesAreKept ==
    /\ NoLetterVanishes /\ EveryReplayIsAudited /\ ReplaysNeedFaults
    /\ EmitsAreCommitted /\ RepeatsAreEarned
================================================================================
