------------------------- MODULE OwnerLedgerChecks -------------------------
(***************************************************************************)
(* OwnerLedger with one history variable: the checks that began when the   *)
(* owner ledger had every execution of their owner. It changes nothing     *)
(* that the processes do.                                                  *)
(***************************************************************************)
EXTENDS OwnerLedger

VARIABLE
    settled     \* checks whose first read found the ledger complete

checksVars == <<vars, settled>>

ChecksInit == Init /\ settled = {}

\* The first of the two reads of a check: the entries by hand, the open orders of a forward test.
Begins(r) == IF r \in Requests
             THEN at[r] = "read_entries" /\ at'[r] # "read_entries"
             ELSE at[r] = "idle" /\ at'[r] # "idle"

NoteSettled ==
    settled' = {r \in Checkers : at'[r] # "idle" /\
                   IF Begins(r) THEN Unrecorded(OwnerOf(r)) = {} ELSE r \in settled}

ChecksNext == Next /\ NoteSettled

ChecksSpec == ChecksInit /\ [][ChecksNext]_checksVars /\ Fairness

Sends(r) == at[r] = "send" /\ Len(orders') > Len(orders) /\ orders'[Len(orders')].owner = OwnerOf(r)
            /\ at'[r] # "send"

FundsOf(r) == IF order[r].side = "SELL" THEN OwnedShares(OwnerOf(r)) ELSE OwnedCash(OwnerOf(r))

SendsAreFunded(r) ==
    Sends(r) /\ r \in settled =>
        order[r].quantity <= FundsOf(r) - OpenShares(OwnerOf(r), order[r].side)

\* A forward test whose fills were all in the owner ledger when the check began sends no order
\* beyond its cash or its shares, although its older orders fill, end and come into the ledger
\* in the middle of the check: the check reads the open orders before the entries.
ForwardTestSendsAreFunded == [][\A f \in ForwardTests : SendsAreFunded(f)]_checksVars

\* The same of the orders by hand, whose check reads the entries before the open orders
\* (11.10: "A sell order must not be larger than the owner position minus the open sell orders
\* of the owner on the instrument").
ByHandSendsAreFunded == [][\A r \in Requests : SendsAreFunded(r)]_checksVars
=============================================================================
