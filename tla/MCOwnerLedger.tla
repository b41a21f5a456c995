--------------------------- MODULE MCOwnerLedger ----------------------------
(***************************************************************************)
(* Two instances of OwnerLedgerChecks in one: a behavior is one            *)
(* `scenario`. "forward_test": the user sends no order by hand. "by_hand": *)
(* the user starts no forward test, and sends at most HandOrders orders of *)
(* one share.                                                              *)
(***************************************************************************)
EXTENDS OwnerLedgerChecks

CONSTANT HandOrders     \* bound: orders in a behavior by hand

VARIABLE scenario

MCInit == ChecksInit /\ scenario \in {"forward_test", "by_hand"}

\* What the user does in a scenario.
IsInScenario ==
    /\ scenario = "forward_test" => \A r \in Requests : at'[r] = "idle"
    /\ scenario = "by_hand" =>
        /\ UNCHANGED stage
        /\ Len(orders') <= HandOrders /\ \A r \in Requests : order'[r].quantity <= 1

MCNext == ChecksNext /\ IsInScenario /\ UNCHANGED scenario

MCSpec == MCInit /\ [][MCNext]_<<checksVars, scenario>> /\ Fairness
=============================================================================
