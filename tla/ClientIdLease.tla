--------------------------- MODULE ClientIdLease ---------------------------
(***************************************************************************)
(* What the forward-test worker promises about the IB client IDs, without  *)
(* saying how: a client ID is lent to one forward test at a time, only a   *)
(* forward test that has a lease is exposed at IBKR (an open order, or an  *)
(* execution that the owner ledger does not have), and the lease ends only *)
(* when nothing is exposed. A forward test whose lease ended is over.      *)
(*                                                                         *)
(* docs/architecture/forward_test.md 12.4: "A forward test keeps its ID    *)
(* while it runs, restarts, or has the status 'stop failed'. The ID        *)
(* becomes free after the orders are cancelled and the process ends."      *)
(***************************************************************************)

CONSTANTS
    ForwardTests,   \* the forward tests
    ClientIds,      \* the client ID range of the settings
    NoClientId      \* client_id IS NULL

VARIABLES
    lease,          \* the client ID of each forward test
    exposed,        \* the forward tests with something outstanding at IBKR
    over            \* the forward tests that gave their ID back

vars == <<lease, exposed, over>>

Init ==
    /\ lease = [f \in ForwardTests |-> NoClientId]
    /\ exposed = {}
    /\ over = {}

IsFree(c) == \A f \in ForwardTests : lease[f] # c

Take(f, c) ==
    /\ lease[f] = NoClientId
    /\ f \notin over
    /\ IsFree(c)
    /\ lease' = [lease EXCEPT ![f] = c]
    /\ UNCHANGED <<exposed, over>>

Expose(f) ==
    /\ lease[f] # NoClientId
    /\ exposed' = exposed \cup {f}
    /\ UNCHANGED <<lease, over>>

\* One order or execution at a time, or, when IBKR ends its day, all executions of the day.
Settle(settled) ==
    /\ exposed' = exposed \ settled
    /\ UNCHANGED <<lease, over>>

GiveBack(f) ==
    /\ lease[f] # NoClientId
    /\ f \notin exposed
    /\ lease' = [lease EXCEPT ![f] = NoClientId]
    /\ over' = over \cup {f}
    /\ UNCHANGED exposed

Next ==
    \/ \E settled \in SUBSET ForwardTests : Settle(settled)
    \/ \E f \in ForwardTests :
        \/ \E c \in ClientIds : Take(f, c)
        \/ Expose(f)
        \/ GiveBack(f)

Spec == Init /\ [][Next]_vars
=============================================================================
