---------------------------- MODULE OwnerLedger ----------------------------
(***************************************************************************)
(* The owner ledger of one paper account: who owns the shares and the cash *)
(* while orders by hand and the orders of forward tests run at the same    *)
(* time. The Web process checks and sends the orders by hand under one     *)
(* lock, stores a manual_order row for each, and records their fills. The  *)
(* child process of a forward test checks and sends its orders, and saves  *)
(* its fills. A start allocates capital, and an end transfers all to "By   *)
(* hand" (the life of the forward tests is in ForwardTestWorker).          *)
(*                                                                         *)
(* There is one instrument. A share costs one dollar, without commission,  *)
(* so NetLiquidation does not change and each amount is a number of        *)
(* shares. IBKR executes one share at a time, and each execution has an    *)
(* execution ID. The rows of owner_ledger_entry are reduced to what the    *)
(* code reads of them: the sums of each owner, and the execution IDs.      *)
(***************************************************************************)
EXTENDS Integers, Sequences, FiniteSets, Functions

CONSTANTS
    ForwardTests,   \* the forward tests
    Requests,       \* requests for orders by hand that the Web process can have at one time
    ByHand,         \* the owner "By hand"
    Background,     \* keep_recording_fills of the Web process
    NoRequest,      \* send_lock is free
    Quantities,     \* quantities of orders
    Capitals,       \* amounts that the user allocates
    StartPosition,  \* position of the account at the ledger start
    StartCash,      \* cash of the account at the ledger start
    MaxOrders,      \* bound: orders in one behaviour
    MaxFaults,      \* bound: restarts, crashes and failed requests in one behaviour
    RareEvents      \* "held": an execution can wait for its commission report

ASSUME ConstantsAssumption ==
    /\ ByHand \notin ForwardTests
    /\ NoRequest \notin Requests
    /\ Background \notin Requests \cup ForwardTests
    /\ Requests \cap ForwardTests = {}
    /\ Quantities \subseteq Nat \ {0}
    /\ Capitals \subseteq Nat \ {0}
    /\ StartPosition \in Nat /\ StartCash \in Nat
    /\ MaxOrders \in Nat /\ MaxFaults \in Nat
    /\ RareEvents \subseteq {"held"}

Owners == ForwardTests \cup {ByHand}
Checkers == Requests \cup ForwardTests
Recorders == Requests \cup {Background}
OwnerOf(r) == IF r \in ForwardTests THEN r ELSE ByHand

VARIABLES
    (* PostgreSQL: owner_ledger_entry, manual_order and forward_test. *)
    position,       \* sum of quantity_change of each owner
    cash,           \* sum of cash_change of each owner
    recorded,       \* the ibkr_execution_id values
    manualOrders,   \* orders with a manual_order row
    stage,          \* "absent", "running" (with a client ID) or "over"
    capital,        \* allocated_capital_usd
    (* The Web process and the child processes. *)
    sendLock,       \* the request that holds send_lock
    at,             \* where a request, the background recording or a child is
    order,          \* side, quantity and IBKR order ID of the order in work
    funds,          \* what the check read from the owner ledger
    open,           \* what the check read from the open orders
    seen,           \* executions that a recording read
    (* IBKR. *)
    account,        \* position and cash of the account
    orders,         \* the orders at IBKR, in the order of their send
    held,           \* executions without a commission report
    faults          \* faults so far

ledgerVars == <<position, cash, recorded>>
rowVars == <<manualOrders, stage, capital>>
processVars == <<sendLock, at, order, funds, open, seen>>
ibkrVars == <<account, orders, held>>
vars == <<ledgerVars, rowVars, processVars, ibkrVars, faults>>

Sides == {"BUY", "SELL"}
\* id is the IBKR order ID, or 0 before the send.
NoOrder == [side |-> "BUY", quantity |-> 0, id |-> 0]
OrderIds == 1..Len(orders)

\* The execution IDs: the order, and the number of the share.
Executions == UNION {{i} \X (1..orders[i].filled) : i \in OrderIds}
ExecutionsOf(o) == {e \in Executions : orders[e[1]].owner = o}
Unrecorded(o) == ExecutionsOf(o) \ recorded
\* Shares bought minus shares sold. The cash changes the other way.
Change(executions) ==
    Cardinality({e \in executions : orders[e[1]].side = "BUY"})
        - Cardinality({e \in executions : orders[e[1]].side = "SELL"})

Steps == {"idle", "lock", "read_executions", "record", "read_entries", "read_orders", "send",
          "answer", "insert"}

TypeOK ==
    /\ position \in [Owners -> Int]
    /\ cash \in [Owners -> Int]
    /\ recorded \subseteq Executions
    /\ manualOrders \subseteq {i \in OrderIds : orders[i].owner = ByHand}
    /\ stage \in [ForwardTests -> {"absent", "running", "over"}]
    /\ capital \in [ForwardTests -> Nat]
    /\ sendLock \in Requests \cup {NoRequest}
    /\ at \in [Checkers \cup {Background} -> Steps]
    /\ order \in [Checkers -> [side : Sides, quantity : Nat, id : {0} \cup OrderIds]]
    /\ funds \in [Checkers -> Int]
    /\ open \in [Checkers -> Nat]
    /\ seen \in [Recorders -> SUBSET Executions]
    /\ account \in [position : Int, cash : Int]
    /\ orders \in Seq([owner : Owners, side : Sides, quantity : Nat, filled : Nat, isOpen : BOOLEAN])
    /\ held \subseteq Executions
    /\ faults \in Nat

\* The ledger of the account has its start: all belongs to "By hand".
Init ==
    /\ position = [o \in Owners |-> IF o = ByHand THEN StartPosition ELSE 0]
    /\ cash = [o \in Owners |-> IF o = ByHand THEN StartCash ELSE 0]
    /\ recorded = {}
    /\ manualOrders = {}
    /\ stage = [f \in ForwardTests |-> "absent"]
    /\ capital = [f \in ForwardTests |-> 0]
    /\ sendLock = NoRequest
    /\ at = [r \in Checkers \cup {Background} |->
                IF r = Background THEN "read_executions" ELSE "idle"]
    /\ order = [r \in Checkers |-> NoOrder]
    /\ funds = [r \in Checkers |-> 0]
    /\ open = [r \in Checkers |-> 0]
    /\ seen = [w \in Recorders |-> {}]
    /\ account = [position |-> StartPosition, cash |-> StartCash]
    /\ orders = <<>>
    /\ held = {}
    /\ faults = 0

-----------------------------------------------------------------------------
Fault == faults < MaxFaults /\ faults' = faults + 1

GoTo(r, s) == at' = [at EXCEPT ![r] = s]

\* The request or the check ends, and its local variables with it.
Finish(r) ==
    /\ GoTo(r, "idle")
    /\ order' = [order EXCEPT ![r] = NoOrder]
    /\ funds' = [funds EXCEPT ![r] = 0]
    /\ open' = [open EXCEPT ![r] = 0]

ReleaseLock(r) == sendLock' = IF sendLock = r THEN NoRequest ELSE sendLock

\* The quantities of the open orders of an owner that are not filled yet.
OpenShares(o, side) ==
    Cardinality(UNION {{i} \X ((orders[i].filled + 1)..orders[i].quantity) :
        i \in {j \in OrderIds : orders[j].owner = o /\ orders[j].side = side /\ orders[j].isOpen}})

\* check_sell reads the position of the owner, and check_buy its cash.
LedgerFunds(o, side) == IF side = "SELL" THEN position[o] ELSE cash[o]

(* An order by hand. *)

RequestOrder(r) ==
    /\ at[r] = "idle" /\ Len(orders) < MaxOrders
    /\ \E side \in Sides, quantity \in Quantities :
        order' = [order EXCEPT ![r] = [side |-> side, quantity |-> quantity, id |-> 0]]
    /\ GoTo(r, "lock")
    /\ UNCHANGED <<ledgerVars, rowVars, sendLock, funds, open, seen, ibkrVars, faults>>

\* Mutation: no lock.
TakeNoLock(r) ==
    /\ at[r] = "lock"
    /\ GoTo(r, "read_executions")
    /\ UNCHANGED <<ledgerVars, rowVars, sendLock, order, funds, open, seen, ibkrVars, faults>>

TakeLock(r) ==
    /\ at[r] = "lock" /\ sendLock = NoRequest
    /\ sendLock' = r
    /\ GoTo(r, "read_executions")
    /\ UNCHANGED <<ledgerVars, rowVars, order, funds, open, seen, ibkrVars, faults>>

\* record_fills, in a request or in the background: read_executions leaves held fills out.
ReadExecutions(w) ==
    /\ at[w] = "read_executions"
    /\ seen' = [seen EXCEPT ![w] = ExecutionsOf(ByHand) \ held]
    /\ GoTo(w, "record")
    /\ UNCHANGED <<ledgerVars, rowVars, sendLock, order, funds, open, ibkrVars, faults>>

\* "IBKR errors leave them for the next time." The request goes on with its check.
ExecutionReadFails(r) ==
    /\ at[r] = "read_executions"
    /\ Fault
    /\ GoTo(r, "read_entries")
    /\ UNCHANGED <<ledgerVars, rowVars, sendLock, order, funds, open, seen, ibkrVars>>

\* Adds the executions to the sums of the owner.
Book(o, executions) ==
    /\ position' = [position EXCEPT ![o] = @ + Change(executions)]
    /\ cash' = [cash EXCEPT ![o] = @ - Change(executions)]
    /\ recorded' = recorded \cup executions

EndRecording(w) ==
    /\ seen' = [seen EXCEPT ![w] = {}]
    /\ GoTo(w, IF w = Background THEN "read_executions" ELSE "read_entries")

\* Mutation: an execution that another recording wrote in the meantime is written again.
RecordSeenFills(w) ==
    /\ at[w] = "record"
    /\ Book(ByHand, {e \in seen[w] : e[1] \in manualOrders})
    /\ EndRecording(w)
    /\ UNCHANGED <<rowVars, sendLock, order, funds, open, ibkrVars, faults>>

\* Mutation: the recording looks at the open orders only.
RecordFillsOfOpenOrders(w) ==
    /\ at[w] = "record"
    /\ Book(ByHand, {e \in seen[w] \ recorded : e[1] \in manualOrders /\ orders[e[1]].isOpen})
    /\ EndRecording(w)
    /\ UNCHANGED <<rowVars, sendLock, order, funds, open, ibkrVars, faults>>

\* One transaction. Only executions of orders with a row, and each execution ID once.
RecordFills(w) ==
    /\ at[w] = "record"
    /\ Book(ByHand, {e \in seen[w] \ recorded : e[1] \in manualOrders})
    /\ EndRecording(w)
    /\ UNCHANGED <<rowVars, sendLock, order, funds, open, ibkrVars, faults>>

\* The check by hand reads the entries before the open orders.
ReadEntries(r) ==
    /\ at[r] = "read_entries"
    /\ funds' = [funds EXCEPT ![r] = LedgerFunds(OwnerOf(r), order[r].side)]
    /\ GoTo(r, IF r \in Requests THEN "read_orders" ELSE "send")
    /\ UNCHANGED <<ledgerVars, rowVars, sendLock, order, open, seen, ibkrVars, faults>>

ReadOpenOrders(r) ==
    /\ at[r] = "read_orders"
    /\ open' = [open EXCEPT ![r] = OpenShares(OwnerOf(r), order[r].side)]
    /\ GoTo(r, "send")
    /\ UNCHANGED <<ledgerVars, rowVars, sendLock, order, funds, seen, ibkrVars, faults>>

PassesRule(r) == order[r].quantity <= funds[r] - open[r]

Refuse(r) ==
    /\ at[r] = "send" /\ ~PassesRule(r)
    /\ Finish(r)
    /\ ReleaseLock(r)
    /\ UNCHANGED <<ledgerVars, rowVars, seen, ibkrVars, faults>>

PlaceOrder(r) ==
    /\ at[r] = "send" /\ PassesRule(r) /\ Len(orders) < MaxOrders
    /\ orders' = Append(orders, [owner |-> OwnerOf(r), side |-> order[r].side,
                                 quantity |-> order[r].quantity, filled |-> 0, isOpen |-> TRUE])

SendByHand(r) ==
    /\ PlaceOrder(r)
    /\ order' = [order EXCEPT ![r].id = Len(orders')]
    /\ GoTo(r, "answer")
    /\ UNCHANGED <<ledgerVars, rowVars, sendLock, funds, open, seen, account, held, faults>>

\* place_order_and_wait returns for a working or filled order, and without an answer in time. For
\* an order that it sees as ended it raises, and the request ends without a row.
ReadAnswer(r) ==
    /\ at[r] = "answer"
    /\ LET sent == orders[order[r].id] IN
        \/ GoTo(r, "insert") /\ UNCHANGED <<order, funds, open>>
        \/ ~sent.isOpen /\ sent.filled < sent.quantity /\ Finish(r)
    /\ ReleaseLock(r)
    /\ UNCHANGED <<ledgerVars, rowVars, seen, ibkrVars, faults>>

InsertManualOrder(r) ==
    /\ at[r] = "insert"
    /\ manualOrders' = manualOrders \cup {order[r].id}
    /\ Finish(r)
    /\ UNCHANGED <<ledgerVars, stage, capital, sendLock, seen, ibkrVars, faults>>

\* The transaction of a recording fails. The background recording tries again, and a request ends.
RecordingFails(w) ==
    /\ at[w] = "record"
    /\ Fault
    /\ seen' = [seen EXCEPT ![w] = {}]
    /\ IF w = Background
       THEN GoTo(w, "read_executions") /\ UNCHANGED <<order, funds, open, sendLock>>
       ELSE Finish(w) /\ ReleaseLock(w)
    /\ UNCHANGED <<ledgerVars, rowVars, ibkrVars>>

\* A GatewayRequestError of the check before the send, or a database error before or after it.
RequestFails(r) ==
    /\ at[r] \in {"read_entries", "read_orders", "send", "insert"}
    /\ Fault
    /\ Finish(r)
    /\ ReleaseLock(r)
    /\ UNCHANGED <<ledgerVars, rowVars, seen, ibkrVars>>

\* The Web process ends and starts again. The rows and the orders at IBKR stay.
WebRestarts ==
    /\ Fault
    /\ at' = [r \in Checkers \cup {Background} |->
                IF r = Background THEN "read_executions"
                ELSE IF r \in Requests THEN "idle" ELSE at[r]]
    /\ sendLock' = NoRequest
    /\ order' = [r \in Checkers |-> IF r \in Requests THEN NoOrder ELSE order[r]]
    /\ funds' = [r \in Checkers |-> IF r \in Requests THEN 0 ELSE funds[r]]
    /\ open' = [r \in Checkers |-> IF r \in Requests THEN 0 ELSE open[r]]
    /\ seen' = [w \in Recorders |-> {}]
    /\ UNCHANGED <<ledgerVars, rowVars, ibkrVars>>

-----------------------------------------------------------------------------
(* A forward test. *)

NetLiquidation == account.position + account.cash
RunningForwardTests == {f \in ForwardTests : stage[f] = "running"}

\* The sum of allocated_capital_usd of the rows with a client ID.
AllocatedCapital == Cardinality(UNION {{f} \X (1..capital[f]) : f \in RunningForwardTests})

\* Mutation: the start checks its own capital only.
StartWithoutSum(f) ==
    /\ stage[f] = "absent"
    /\ \E amount \in Capitals :
        /\ amount <= NetLiquidation
        /\ capital' = [capital EXCEPT ![f] = amount]
        /\ cash' = [cash EXCEPT ![ByHand] = @ - amount, ![f] = @ + amount]
    /\ stage' = [stage EXCEPT ![f] = "running"]
    /\ UNCHANGED <<position, recorded, manualOrders, processVars, ibkrVars, faults>>

\* One transaction under a table lock, with 2 transfer rows. NetLiquidation is read before it. The
\* client ID is in ForwardTestWorker.
StartForwardTest(f) ==
    /\ stage[f] = "absent"
    /\ \E amount \in Capitals :
        /\ amount <= NetLiquidation - AllocatedCapital
        /\ capital' = [capital EXCEPT ![f] = amount]
        /\ cash' = [cash EXCEPT ![ByHand] = @ - amount, ![f] = @ + amount]
    /\ stage' = [stage EXCEPT ![f] = "running"]
    /\ UNCHANGED <<position, recorded, manualOrders, processVars, ibkrVars, faults>>

\* Mutation: the check reads the entries before the open orders, as the check by hand does.
SubmitOrderAfterEntries(f) ==
    /\ at[f] = "idle" /\ stage[f] = "running" /\ Len(orders) < MaxOrders
    /\ \E side \in Sides, quantity \in Quantities :
        /\ order' = [order EXCEPT ![f] = [side |-> side, quantity |-> quantity, id |-> 0]]
        /\ funds' = [funds EXCEPT ![f] = LedgerFunds(f, side)]
    /\ GoTo(f, "read_orders")
    /\ UNCHANGED <<ledgerVars, rowVars, sendLock, open, seen, ibkrVars, faults>>

\* _submit_order and the first read of check_order: the open orders of the own client ID.
SubmitOrder(f) ==
    /\ at[f] = "idle" /\ stage[f] = "running" /\ Len(orders) < MaxOrders
    /\ \E side \in Sides, quantity \in Quantities :
        /\ order' = [order EXCEPT ![f] = [side |-> side, quantity |-> quantity, id |-> 0]]
        /\ open' = [open EXCEPT ![f] = OpenShares(f, side)]
    /\ GoTo(f, "read_entries")
    /\ UNCHANGED <<ledgerVars, rowVars, sendLock, funds, seen, ibkrVars, faults>>

SendForForwardTest(f) ==
    /\ PlaceOrder(f)
    /\ Finish(f)
    /\ UNCHANGED <<ledgerVars, rowVars, sendLock, seen, account, held, faults>>

\* save_fill, from the fill check of the LiveNode or from the start and stop steps of a child.
SaveFill(f) ==
    /\ stage[f] = "running"
    /\ \E e \in Unrecorded(f) \ held : Book(f, {e})
    /\ UNCHANGED <<rowVars, processVars, ibkrVars, faults>>

\* The child ends in the middle of a check, or a read of the check fails and refuses the order.
CheckFails(f) ==
    /\ at[f] # "idle"
    /\ Fault
    /\ Finish(f)
    /\ UNCHANGED <<ledgerVars, rowVars, sendLock, seen, ibkrVars>>

\* write_end and transfer_to_by_hand in one transaction.
EndAndTransfer(f) ==
    /\ stage[f] = "running" /\ at[f] = "idle"
    /\ stage' = [stage EXCEPT ![f] = "over"]
    /\ position' = [position EXCEPT ![ByHand] = @ + position[f], ![f] = 0]
    /\ cash' = [cash EXCEPT ![ByHand] = @ + cash[f], ![f] = 0]
    /\ UNCHANGED <<recorded, manualOrders, capital, processVars, ibkrVars, faults>>

\* Mutation: the end does not wait for the fills.
EndBeforeLastFill(f) ==
    /\ OpenShares(f, "BUY") + OpenShares(f, "SELL") = 0
    /\ EndAndTransfer(f)

\* After the stop steps of a child: no order is open, and each fill is saved (FreedIdIsQuiet of
\* ForwardTestWorker).
EndForwardTest(f) ==
    /\ OpenShares(f, "BUY") + OpenShares(f, "SELL") = 0
    /\ Unrecorded(f) = {}
    /\ EndAndTransfer(f)

-----------------------------------------------------------------------------
(* IBKR. *)

OrderFills(i) ==
    /\ orders[i].isOpen
    /\ LET o == orders[i]
           change == IF o.side = "BUY" THEN 1 ELSE -1
           execution == <<i, o.filled + 1>> IN
        /\ orders' = [orders EXCEPT ![i].filled = @ + 1,
                                    ![i].isOpen = o.filled + 1 < o.quantity]
        /\ account' = [position |-> account.position + change, cash |-> account.cash - change]
        /\ held' \in {held} \cup (IF "held" \in RareEvents THEN {held \cup {execution}} ELSE {})
    /\ UNCHANGED <<ledgerVars, rowVars, processVars, faults>>

\* A cancel by the user, the strategy or the stop steps, a rejection, or the end of the day.
OrderEnds(i) ==
    /\ orders[i].isOpen
    /\ orders' = [orders EXCEPT ![i].isOpen = FALSE]
    /\ UNCHANGED <<ledgerVars, rowVars, processVars, account, held, faults>>

EndHold(e) ==
    /\ e \in held
    /\ held' = held \ {e}
    /\ UNCHANGED <<ledgerVars, rowVars, processVars, account, orders, faults>>

-----------------------------------------------------------------------------
RequestStep(r) ==
    \/ RequestOrder(r)
    \/ TakeLock(r)
    \/ ReadExecutions(r)
    \/ ExecutionReadFails(r)
    \/ RecordFills(r)
    \/ RecordingFails(r)
    \/ SendByHand(r)
    \/ ReadAnswer(r)
    \/ InsertManualOrder(r)
    \/ RequestFails(r)

\* The steps that check_owner_order has in both processes.
CheckStep(r) == ReadEntries(r) \/ ReadOpenOrders(r) \/ Refuse(r)

BackgroundStep ==
    \/ ReadExecutions(Background)
    \/ RecordFills(Background)
    \/ RecordingFails(Background)

ForwardTestStep(f) ==
    \/ StartForwardTest(f)
    \/ SubmitOrder(f)
    \/ SendForForwardTest(f)
    \/ SaveFill(f)
    \/ CheckFails(f)
    \/ EndForwardTest(f)

IbkrStep ==
    \/ \E i \in OrderIds : OrderFills(i) \/ OrderEnds(i)
    \/ \E e \in held : EndHold(e)

Next ==
    \/ \E r \in Requests : RequestStep(r)
    \/ \E r \in Checkers : CheckStep(r)
    \/ BackgroundStep
    \/ WebRestarts
    \/ \E f \in ForwardTests : ForwardTestStep(f)
    \/ IbkrStep

Spec == Init /\ [][Next]_vars

\* keep_recording_fills runs every FILL_RECORD_INTERVAL_SECONDS for ever, the fill check of a
\* LiveNode and the start steps after it do too, and a hold has a limit. That reqExecutions ends
\* with the day is in ForwardTestWorker (DayEnds): here all is in one day.
Fairness ==
    /\ WF_vars(BackgroundStep)
    /\ \A f \in ForwardTests : WF_vars(SaveFill(f))
    /\ WF_vars(\E e \in held : EndHold(e))

FairSpec == Spec /\ Fairness

-----------------------------------------------------------------------------
(* Properties. *)

\* The account at IBKR differs from the sums of the owner ledger by the executions that the
\* ledger does not have yet, and by nothing else: no race of two recordings, no retry, no
\* transfer and no restart books a share twice or loses one (11.10: "the IBKR position minus
\* the sum of the owner positions").
TotalOf(amount) == FoldFunction(+, 0, amount)
Reconciles ==
    /\ account.position - TotalOf(position) = Change(Executions \ recorded)
    /\ account.cash - TotalOf(cash) = -Change(Executions \ recorded)

\* The shares and the cash of an owner with the executions that wait for their entry.
OwnedShares(o) == position[o] + Change(Unrecorded(o))
OwnedCash(o) == cash[o] - Change(Unrecorded(o))

\* The owner ledger with the executions that wait for their entry is the promised ownership: to
\* record a fill changes no owner, and the transfer of an end gives exactly what was owned.
Books == INSTANCE Ownership WITH
    shares <- [o \in Owners |-> OwnedShares(o)],
    dollars <- [o \in Owners |-> OwnedCash(o)],
    active <- RunningForwardTests,
    over <- {f \in ForwardTests : stage[f] = "over"}
ImplementsOwnership == Books!Spec

\* What a running forward test owns is never more than what it was given: with its cash, its
\* shares at the price of one dollar are its allocated capital, and the sum of all capital
\* fits into the paper account, whatever order the starts and ends come in (12.18).
CapitalIsKept ==
    /\ \A f \in RunningForwardTests : OwnedShares(f) + OwnedCash(f) = capital[f]
    /\ AllocatedCapital <= NetLiquidation

\* Until the first execution, and without an allocation, the open orders by hand are within what
\* "By hand" has, however many requests there are at a time (11.3: "One lock of the Web process
\* holds from the check to the send, so 2 orders at the same time cannot both pass one check").
\* With executions, see ByHandSendsAreFunded of OwnerLedgerChecks.
OneCheckOneOrder ==
    Executions = {} /\ (\A f \in ForwardTests : stage[f] = "absent") =>
        \A side \in Sides : OpenShares(ByHand, side) <= LedgerFunds(ByHand, side)

\* Each execution of a forward test, or of an order by hand with a row, comes into the owner
\* ledger at some time, after any faults.
FillsAreRecorded ==
    \A i \in 1..MaxOrders : \A n \in Quantities :
        <<i, n>> \in Executions /\ (orders[i].owner # ByHand \/ i \in manualOrders)
            ~> <<i, n>> \in recorded
=============================================================================
