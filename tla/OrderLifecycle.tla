--------------------------- MODULE OrderLifecycle ---------------------------
(***************************************************************************)
(* What the EMS promises of an order, without goroutines, locks, log and   *)
(* crashes: it is registered once, moves along the transition table, and   *)
(* its fills never exceed its quantity.                                    *)
(***************************************************************************)
EXTENDS Naturals

CONSTANTS OrderIds, Totals, Deltas

VARIABLE book

Fills == {"PARTIALLY_FILLED", "FILLED"}

NoOrder == [state |-> "NONE", total |-> 0, cum |-> 0]

ValidTransitions ==
    [PENDING          |-> {"SUBMITTED", "REJECTED"},
     SUBMITTED        |-> {"PARTIALLY_FILLED", "FILLED", "PENDING_CANCEL", "REJECTED"},
     PARTIALLY_FILLED |-> {"PARTIALLY_FILLED", "FILLED", "PENDING_CANCEL"},
     PENDING_CANCEL   |-> {"CANCELED", "FILLED"}]

Init == book = [id \in OrderIds |-> NoOrder]

Register(id, total) ==
    /\ book[id] = NoOrder
    /\ book' = [book EXCEPT ![id] = [state |-> "PENDING", total |-> total, cum |-> 0]]

Move(id, target) ==
    /\ book[id].state \in DOMAIN ValidTransitions
    /\ target \in ValidTransitions[book[id].state] \ Fills
    /\ book' = [book EXCEPT ![id].state = target]

\* A partial fill leaves some quantity open; the fill that leaves none is FILLED.
Fill(id, target, delta) ==
    /\ book[id].state \in DOMAIN ValidTransitions
    /\ target \in ValidTransitions[book[id].state] \cap Fills
    /\ book[id].cum + delta <= book[id].total
    /\ target = "PARTIALLY_FILLED" => book[id].cum + delta < book[id].total
    /\ book' = [book EXCEPT ![id].state = target, ![id].cum = @ + delta]

Next ==
    \E id \in OrderIds :
        \/ \E total \in Totals : Register(id, total)
        \/ \E target \in {"SUBMITTED", "REJECTED", "PENDING_CANCEL", "CANCELED"} :
               Move(id, target)
        \/ \E target \in Fills, delta \in Deltas : Fill(id, target, delta)

Spec == Init /\ [][Next]_book
=============================================================================
