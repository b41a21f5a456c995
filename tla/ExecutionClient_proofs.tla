----------------------- MODULE ExecutionClient_proofs ------------------------
(***************************************************************************)
(* The fill events and the cancel events of the execution client, for any  *)
(* orders, executions and number of faults.                                *)
(***************************************************************************)
EXTENDS ExecutionClient, TLAPS

\* What MarketComponents assumes of the constants of this module.
ClientConstants == Parts \in [Orders -> Nat \ {0}] /\ MaxFaults \in Nat

\* An order goes to IBKR once, and one that is not over can have one more execution.
OrdersAreSentOnce ==
    \A o \in Orders :
        /\ engine[o] \in {"none", "checking"} => ibkr[o] = "none"
        /\ ibkr[o] # "done" => executed[o] < Parts[o]

\* Only the execution that was saved last can wait for its event, and it waits only in the read of the owner cash.
SavedHasItsEvent ==
    /\ \A e \in Executions : events[e] <= 1 /\ (events[e] = 1 => e \in known)
    /\ \A e \in known : events[e] = 1 \/ (loop = "account" /\ e \in batch)
    /\ \A e \in batch \cap known :
        loop = "account" /\ events[e] = 0 /\ \A d \in batch \cap known : d = e

\* An order that the check looks at and that the answer does not have is over: an answer that comes late after a restart
\* of IB Gateway is an unproved one.
MissingOrderIsOver ==
    /\ late => unproved
    /\ loop = "ended" => \A o \in old \ open_ids : ibkr[o] = "done"

\* The inductive invariant: the two event properties alone do not say what the read of the fills has still to do.
ClientIInv == ClientTypeOK /\ OrdersAreSentOnce /\ SavedHasItsEvent /\ MissingOrderIsOver

-----------------------------------------------------------------------------
\* What an execution is.
LEMMA ExecutionsAre ==
    ASSUME ClientConstants
    PROVE  \A e : e \in Executions <=> e = <<e[1], e[2]>> /\ e[1] \in Orders /\ e[2] \in 1 .. Parts[e[1]]
BY DEF ClientConstants, Executions

\* The first state.
LEMMA ClientInit == ClientConstants /\ Init => ClientIInv
<1> SUFFICES ASSUME ClientConstants, Init PROVE ClientIInv
    OBVIOUS
<1>1. FlagsOK
    BY DEF Init, FlagsOK
<1>2. ClientTypeOK
    BY <1>1 DEF ClientConstants, Init, ClientTypeOK, OrderStates, LoopSteps, Executed, Sent
<1>3. OrdersAreSentOnce /\ SavedHasItsEvent /\ MissingOrderIsOver
    BY DEF ClientConstants, Init, OrdersAreSentOnce, SavedHasItsEvent, MissingOrderIsOver
<1> QED
    BY <1>2, <1>3 DEF ClientIInv

-----------------------------------------------------------------------------
(* Types.                                                                  *)

\* The flags stay Boolean: a lemma of its own, because no prover takes them with the numbers.
LEMMA FlagsStep == FlagsOK /\ [Next]_variables => FlagsOK'
<1> SUFFICES ASSUME FlagsOK, [Next]_variables PROVE FlagsOK'
    OBVIOUS
<1> USE DEF FlagsOK, variables, check, link
<1>1. ASSUME NEW o \in Orders,
             SubmitOrder(o) \/ PlaceOrder(o) \/ CancelOrder(o) \/ GrowOld(o) \/ Execute(o) \/ EndOrder(o)
      PROVE  FlagsOK'
    BY <1>1 DEF SubmitOrder, PlaceOrder, CancelOrder, GrowOld, Execute, EndOrder
<1>2. CASE Loop
    BY <1>2
    DEF Loop, Reconnect, ReadNewFills, FillsEnd, SaveFill, SendFill, SkipOpenOrders, ReadOpenOrders, CancelEnded
<1>3. CASE Stop \/ LoseSocket \/ \E e \in Executions : EndHold(e)
    BY <1>3 DEF Stop, LoseSocket, EndHold
<1> QED
    BY <1>1, <1>2, <1>3 DEF Next

\* The commands of the strategy keep the types, and send an order once.
LEMMA StrategyStepTypes ==
    ASSUME ClientConstants, ClientIInv, FlagsOK', NEW o \in Orders,
           SubmitOrder(o) \/ PlaceOrder(o) \/ CancelOrder(o) \/ GrowOld(o)
    PROVE  (ClientTypeOK /\ OrdersAreSentOnce)'
<1> USE DEF ClientConstants, ClientIInv, ClientTypeOK, OrdersAreSentOnce, OrderStates, Executed, Sent, Executions,
            check, market, link
<1>1. CASE SubmitOrder(o)
    BY <1>1 DEF SubmitOrder
<1>2. CASE PlaceOrder(o)
    BY <1>2 DEF PlaceOrder
<1>3. CASE CancelOrder(o)
    BY <1>3 DEF CancelOrder
<1>4. CASE GrowOld(o)
    BY <1>4 DEF GrowOld
<1> QED
    BY <1>1, <1>2, <1>3, <1>4

\* So do the fill check and the end of the node.
LEMMA LoopStepTypes ==
    ASSUME ClientConstants, ClientIInv, FlagsOK', Loop \/ Stop
    PROVE  (ClientTypeOK /\ OrdersAreSentOnce)'
<1> USE DEF ClientConstants, ClientIInv, ClientTypeOK, OrdersAreSentOnce, OrderStates, LoopSteps, Executed, Sent,
            client, check, market, link, Fault, RequestFails, AfterFills
<1>1. CASE Reconnect
    BY <1>1 DEF Reconnect
<1>2. CASE ReadNewFills
    BY <1>2 DEF ReadNewFills
<1>3. CASE FillsEnd
    BY <1>3 DEF FillsEnd
<1>4. CASE SaveFill
    BY <1>4 DEF SaveFill
<1>5. CASE SendFill
    <2>1. events' \in [Executions -> Nat]
        BY <1>5 DEF SendFill
    <2>2. engine' \in [Orders -> OrderStates]
        BY <1>5 DEF SendFill
    <2> QED
        BY <1>5, <2>1, <2>2 DEF SendFill
<1>6. CASE SkipOpenOrders
    BY <1>6 DEF SkipOpenOrders
<1>7. CASE ReadOpenOrders
    BY <1>7 DEF ReadOpenOrders, Working
<1>8. CASE CancelEnded
    BY <1>8 DEF CancelEnded
<1>9. CASE Stop
    <2>1. events' \in [Executions -> Nat]
        BY <1>9 DEF Stop
    <2>2. engine' \in [Orders -> OrderStates]
        BY <1>9 DEF Stop
    <2> QED
        BY <1>9, <2>1, <2>2 DEF Stop
<1> QED
    BY <1>1, <1>2, <1>3, <1>4, <1>5, <1>6, <1>7, <1>8, <1>9 DEF Loop

\* So does IBKR: an execution comes only to an order that works.
LEMMA IbkrStepTypes ==
    ASSUME ClientConstants, ClientIInv, FlagsOK',
           (\E o \in Orders : Execute(o) \/ EndOrder(o)) \/ LoseSocket \/ \E e \in Executions : EndHold(e)
    PROVE  (ClientTypeOK /\ OrdersAreSentOnce)'
<1> USE DEF ClientConstants, ClientIInv, ClientTypeOK, OrdersAreSentOnce, Executed, Sent, client, check, market, link
<1>1. ASSUME NEW o \in Orders, Execute(o) PROVE (ClientTypeOK /\ OrdersAreSentOnce)'
    <2>1. executed' = [executed EXCEPT ![o] = @ + 1] /\ executed[o] < Parts[o]
        BY <1>1 DEF Execute
    <2>2. <<o, executed'[o]>> \in Executed'
        BY <2>1, ExecutionsAre
    <2>3. Executed \subseteq Executed'
        BY <2>1, ExecutionsAre
    <2>4. ibkr' \in [Orders -> {"none", "working", "done"}] /\ Sent' = Sent /\ OrdersAreSentOnce'
        BY <1>1, <2>1 DEF Execute
    <2>5. \A p \in Orders : executed'[p] \in 0 .. Parts[p]
        BY <2>1
    <2>6. held' \subseteq Executed' /\ ledger' \subseteq Executed' /\ batch' \subseteq Executed'
        BY <1>1, <2>2, <2>3 DEF Execute
    <2> HIDE DEF Executed, Sent, OrdersAreSentOnce
    <2> QED
        BY <1>1, <2>4, <2>5, <2>6 DEF Execute
<1>2. ASSUME NEW o \in Orders, EndOrder(o) PROVE (ClientTypeOK /\ OrdersAreSentOnce)'
    BY <1>2 DEF EndOrder
<1>3. CASE LoseSocket
    BY <1>3 DEF LoseSocket, Fault
<1>4. ASSUME NEW e \in Executions, EndHold(e) PROVE (ClientTypeOK /\ OrdersAreSentOnce)'
    BY <1>4 DEF EndHold
<1> QED
    BY <1>1, <1>2, <1>3, <1>4

-----------------------------------------------------------------------------
(* The fill events.                                                        *)

\* Each await of the fill check, and a stop in it, leaves at most one saved execution without its event.
LEMMA LoopStepEvents ==
    ASSUME ClientConstants, ClientIInv, Loop \/ Stop
    PROVE  SavedHasItsEvent'
<1> USE DEF ClientIInv, ClientTypeOK, SavedHasItsEvent, client, market, AfterFills
<1>1. CASE Reconnect \/ FillsEnd \/ SkipOpenOrders \/ ReadOpenOrders \/ CancelEnded
    BY <1>1 DEF Reconnect, FillsEnd, SkipOpenOrders, ReadOpenOrders, CancelEnded
<1>2. CASE ReadNewFills
    BY <1>2 DEF ReadNewFills
<1>3. CASE SaveFill
    BY <1>3 DEF SaveFill, Executed
<1>4. CASE SendFill
    BY <1>4 DEF SendFill, Executed
<1>5. CASE Stop
    BY <1>5 DEF Stop, Executed
<1> QED
    BY <1>1, <1>2, <1>3, <1>4, <1>5 DEF Loop

-----------------------------------------------------------------------------
(* The ended orders.                                                       *)

\* An answer that the check uses has each order that works.
LEMMA LoopStepOrders ==
    ASSUME ClientConstants, ClientIInv, Loop \/ Stop
    PROVE  MissingOrderIsOver'
<1> USE DEF ClientIInv, ClientTypeOK, MissingOrderIsOver, client, market, link, AfterFills
<1>1. CASE ReadOpenOrders
    BY <1>1 DEF ReadOpenOrders, Working, Sent
<1>2. CASE ~ReadOpenOrders
    BY <1>2 DEF Loop, Reconnect, ReadNewFills, FillsEnd, SaveFill, SendFill, SkipOpenOrders, CancelEnded, Stop
<1> QED
    BY <1>1, <1>2

\* No other step reaches the fill check, and no order works again.
LEMMA OtherStepEventsAndOrders ==
    ASSUME ClientConstants, ClientIInv,
           \/ \E o \in Orders : SubmitOrder(o) \/ PlaceOrder(o) \/ CancelOrder(o) \/ GrowOld(o) \/ Execute(o) \/ EndOrder(o)
           \/ LoseSocket
           \/ \E e \in Executions : EndHold(e)
    PROVE  (SavedHasItsEvent /\ MissingOrderIsOver)'
<1> USE DEF ClientIInv, ClientTypeOK, client, check, market, link
<1>1. UNCHANGED <<known, events, loop, batch, open_ids, old, unproved, late>>
    BY DEF SubmitOrder, PlaceOrder, CancelOrder, GrowOld, Execute, EndOrder, LoseSocket, EndHold
<1>2. SavedHasItsEvent'
    BY <1>1 DEF SavedHasItsEvent
<1>3. \A o \in Orders : ibkr[o] = "done" => ibkr'[o] = "done"
    <2>1. ASSUME NEW p \in Orders, PlaceOrder(p) PROVE \A o \in Orders : ibkr[o] = "done" => ibkr'[o] = "done"
        BY <2>1 DEF PlaceOrder, OrdersAreSentOnce
    <2>2. ASSUME NEW p \in Orders, Execute(p) \/ EndOrder(p)
          PROVE  \A o \in Orders : ibkr[o] = "done" => ibkr'[o] = "done"
        BY <2>2 DEF Execute, EndOrder
    <2>3. ASSUME NEW p \in Orders, SubmitOrder(p) \/ CancelOrder(p) \/ GrowOld(p) PROVE ibkr' = ibkr
        BY <2>3 DEF SubmitOrder, CancelOrder, GrowOld
    <2>4. LoseSocket \/ (\E e \in Executions : EndHold(e)) => ibkr' = ibkr
        BY DEF LoseSocket, EndHold
    <2> QED
        BY <2>1, <2>2, <2>3, <2>4
<1>4. MissingOrderIsOver'
    BY <1>1, <1>3 DEF MissingOrderIsOver, Sent
<1> QED
    BY <1>2, <1>4

\* ClientIInv is inductive.
LEMMA ClientStep == ClientConstants /\ ClientIInv /\ [Next]_variables => ClientIInv'
<1> SUFFICES ASSUME ClientConstants, ClientIInv, [Next]_variables PROVE ClientIInv'
    OBVIOUS
<1>1. CASE UNCHANGED variables
    BY <1>1 DEF variables, client, check, market, link, ClientIInv, ClientTypeOK, FlagsOK, OrdersAreSentOnce,
        SavedHasItsEvent, MissingOrderIsOver, Executed, Sent
<1>2. CASE Next
    <2>1. FlagsOK'
        BY FlagsStep DEF ClientIInv, ClientTypeOK
    <2> QED
        BY <1>2, <2>1, StrategyStepTypes, LoopStepTypes, IbkrStepTypes, LoopStepEvents, LoopStepOrders,
           OtherStepEventsAndOrders DEF Next, ClientIInv
<1> QED
    BY <1>1, <1>2

-----------------------------------------------------------------------------
\* One step gives a cancel event only to an order whose cancel the strategy asked for, or to one that is over and whose
\* executions all had their event.
LEMMA CancelStep ==
    ASSUME ClientConstants, ClientIInv, [Next]_variables, NEW o \in Orders,
           engine[o] # "canceled", engine'[o] = "canceled"
    PROVE  o \in asked' \/ (ibkr[o] = "done" /\ \A n \in 1 .. executed[o] : events[<<o, n>>] = 1)
<1> USE DEF ClientIInv, ClientTypeOK, client
<1>1. ASSUME NEW p \in Orders, CancelOrder(p) PROVE o \in asked'
    BY <1>1 DEF CancelOrder
<1>2. ASSUME CancelEnded PROVE ibkr[o] = "done" /\ \A n \in 1 .. executed[o] : events[<<o, n>>] = 1
    <2>1. loop = "ended" /\ o \in old \ (open_ids \cup Unsaved)
        BY <1>2 DEF CancelEnded
    <2>2. ibkr[o] = "done"
        BY <2>1 DEF MissingOrderIsOver
    <2>3. ASSUME NEW n \in 1 .. executed[o] PROVE events[<<o, n>>] = 1
        <3>1. <<o, n>> \in Executed
            BY ExecutionsAre DEF Executed, ClientConstants
        <3>2. <<o, n>> \in known
            BY <2>1, <3>1 DEF Unsaved
        <3> QED
            BY <2>1, <3>2 DEF SavedHasItsEvent
    <2> QED
        BY <2>2, <2>3
<1>3. CancelEnded \/ \E p \in Orders : CancelOrder(p)
    <2> SUFFICES ASSUME ~CancelEnded, \A p \in Orders : ~CancelOrder(p)
                 PROVE  engine'[o] = "canceled" => engine[o] = "canceled"
        OBVIOUS
    <2>1. ASSUME NEW p \in Orders, SubmitOrder(p) \/ PlaceOrder(p) \/ GrowOld(p) \/ Execute(p) \/ EndOrder(p)
          PROVE  engine'[o] = "canceled" => engine[o] = "canceled"
        BY <2>1 DEF SubmitOrder, PlaceOrder, GrowOld, Execute, EndOrder
    <2>2. CASE SendFill \/ Stop
        BY <2>2 DEF SendFill, Stop
    <2>3. CASE Reconnect \/ ReadNewFills \/ FillsEnd \/ SaveFill \/ SkipOpenOrders \/ ReadOpenOrders
        BY <2>3 DEF Reconnect, ReadNewFills, FillsEnd, SaveFill, SkipOpenOrders, ReadOpenOrders
    <2>4. CASE UNCHANGED variables \/ LoseSocket \/ \E e \in Executions : EndHold(e)
        BY <2>4 DEF variables, LoseSocket, EndHold
    <2> QED
        BY <2>1, <2>2, <2>3, <2>4 DEF Next, Loop
<1> QED
    BY <1>1, <1>2, <1>3

\* The invariants of the runs follow.
LEMMA ClientIInvIsEnough == ClientIInv => ClientTypeOK /\ FillEventsMatchLedger
BY DEF ClientIInv, ClientTypeOK, SavedHasItsEvent, FillEventsMatchLedger

\* A fill event comes after its row of the ledger and never two times, and no execution that the next reads skip misses
\* its event, also when the cash read fails or the node stops at any await (send_new_fills, _disconnect).
THEOREM FillEventsAreTrue == ASSUME ClientConstants PROVE Spec => []FillEventsMatchLedger
BY ClientInit, ClientStep, ClientIInvIsEnough, PTL DEF Spec

\* A cancel event without a cancel of the strategy is of an order that IBKR ended and whose executions the strategy has
\* (cancel_ended_orders).
THEOREM CancelsAreTrue == ASSUME ClientConstants PROVE Spec => EachCancelIsTrue
<1>1. ClientIInv /\ [Next]_variables =>
        /\ ClientIInv'
        /\ \A o \in Orders : engine[o] # "canceled" /\ engine'[o] = "canceled" =>
            \/ o \in asked'
            \/ ibkr[o] = "done" /\ \A n \in 1 .. executed[o] : events[<<o, n>>] = 1
    BY ClientStep, CancelStep
<1> QED
    BY ClientInit, <1>1, PTL DEF Spec, EachCancelIsTrue
=============================================================================
