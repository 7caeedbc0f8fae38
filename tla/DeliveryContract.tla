--------------------------- MODULE DeliveryContract ----------------------------
(***************************************************************************)
(* What a queued edge promises for each event, whatever duplicates,        *)
(* retries and reschedules happen below: an emitted event is pending until *)
(* it is consumed or parked for an operator (dead-letter or review queue); *)
(* a parked event may still be consumed by another copy, or become pending *)
(* again when the operator moves it back or a newer event stands in for    *)
(* it; a consumed one stays so, and no event drops out of sight.  One step *)
(* may move several events: a debounced run covers all that came before.   *)
(***************************************************************************)
CONSTANT Keys

VARIABLE status

Statuses == {"absent", "pending", "parked", "done"}

Moves == { <<"absent", "pending">>, <<"pending", "parked">>,
           <<"parked", "pending">>, <<"pending", "done">>, <<"parked", "done">> }

Init == status = [k \in Keys |-> "absent"]

Next ==
    /\ status' \in [Keys -> Statuses]
    /\ \A k \in Keys :
          status'[k] # status[k] => <<status[k], status'[k]>> \in Moves

Spec == Init /\ [][Next]_status

\* Nothing stays pending for ever; what is parked waits for an operator.
Settle(k) == status[k] = "pending" /\ Next /\ status'[k] # "pending"

FairSpec == Spec /\ \A k \in Keys : WF_status(Settle(k))
================================================================================
