--------------------------- MODULE NextOpenOrders ---------------------------
(***************************************************************************)
(* The orders of a strategy in one engine run of a backtest. A market      *)
(* order waits for the next open tick of its instrument; an alert then     *)
(* sends it, made smaller when the cash pays for a part only. The engine   *)
(* (external) handles the alerts of one time first, then fills the orders  *)
(* that they sent.                                                         *)
(*                                                                         *)
(* The clock counts steps: bar p starts at Length * p, its open tick comes *)
(* one step later, and alert n of that open n steps after the tick. The    *)
(* strategy is any strategy that orders on a bar.                          *)
(***************************************************************************)
EXTENDS Integers, Sequences, FiniteSets

CONSTANTS
    Instruments,
    Opens,          \* the bars of each instrument: the numbers of their periods
    StartCash,
    MaxOrders       \* bound: the orders of the strategy

\* Y has no bar in period 2.
GapOfY == [X |-> 1 .. 3, Y |-> {1, 3}]

Length == MaxOrders + 3
OpenTick(p) == Length * p + 1
Price(p) == 1 + (p % 2)          \* the open price of a bar; its close is the next open

VARIABLES
    clock,
    cash,
    shares,         \* the position of each instrument
    waiting,        \* _atrade_waiting_orders: held orders with the time of their alert
    closing,        \* _atrade_closing_instruments
    sent,           \* the orders at the engine, not filled yet
    orders          \* the orders of the strategy so far

engine == <<clock, cash, shares, waiting, closing, sent, orders>>

Last(i) == CHOOSE p \in Opens[i] : \A q \in Opens[i] : q <= p
Ends == 1 + (CHOOSE p \in UNION {Opens[i] : i \in Instruments} :
                \A q \in UNION {Opens[i] : i \in Instruments} : q <= p)
LastPrice(i) ==
    LET seen == {p \in Opens[i] : OpenTick(p) <= clock}
        p == CHOOSE q \in seen : \A r \in seen : r <= q
    IN  IF clock >= Length * (Last(i) + 1) - 1 THEN Price(Last(i) + 1) ELSE Price(p)

Init ==
    /\ clock = Length
    /\ cash = StartCash
    /\ shares = [i \in Instruments |-> 0]
    /\ waiting = {}
    /\ closing = {}
    /\ sent = <<>>
    /\ orders = 0

\* _atrade_fit_to_cash: the part of a buy that the cash pays for. The engine refuses what it cannot fill at all.
Fit(order) ==
    LET paid == cash \div LastPrice(order.instrument)
    IN  IF order.side = "BUY" /\ paid >= 1 /\ paid < order.quantity THEN [order EXCEPT !.quantity = paid] ELSE order

Accepted(order) ==
    IF order.side = "BUY" THEN order.quantity * LastPrice(order.instrument) <= cash
    ELSE order.quantity <= shares[order.instrument] /\ order.quantity > 0

\* A close sells the position that is there at its time.
Fitted(order) ==
    IF order.side = "CLOSE" THEN [order EXCEPT !.side = "SELL", !.quantity = shares[order.instrument]] ELSE Fit(order)

\* External: a fill at the last price.
Execute(order) ==
    LET signed == IF order.side = "BUY" THEN order.quantity ELSE -order.quantity
    IN  /\ cash' = cash - signed * LastPrice(order.instrument)
        /\ shares' = [shares EXCEPT ![order.instrument] = @ + signed]

\* An order without a later open fills at once, at the last close.
SendLate(order) ==
    /\ IF Accepted(Fitted(order)) THEN Execute(Fitted(order)) ELSE UNCHANGED <<cash, shares>>
    /\ UNCHANGED <<waiting, closing>>

\* Mutation: all alerts of one open come at one time.
SendAtOneTime(order, late) ==
    LET later == {p \in Opens[order.instrument] : OpenTick(p) > clock}
        next == CHOOSE p \in later : \A q \in later : p <= q
    IN  IF later = {}
        THEN SendLate(order)
        ELSE /\ waiting' = waiting \cup
                    {[order |-> order, since |-> <<clock, Cardinality(waiting)>>, at |-> OpenTick(next) + 1]}
             /\ closing' = late
             /\ UNCHANGED <<cash, shares>>

\* _atrade_send_at_next_open: the alert comes after the next open tick, one step later for each order that waits.
SendAtNextOpen(order, late) ==
    LET later == {p \in Opens[order.instrument] : OpenTick(p) > clock}
        next == CHOOSE p \in later : \A q \in later : p <= q
    IN  IF later = {}
        THEN SendLate(order)
        ELSE /\ waiting' = waiting \cup
                    {[order |-> order, since |-> <<clock, Cardinality(waiting)>>,
                      at |-> OpenTick(next) + Cardinality(waiting) + 1]}
             /\ closing' = late
             /\ UNCHANGED <<cash, shares>>

IsBarEnd == clock % Length = 0 /\ \E i \in Instruments : clock \div Length - 1 \in Opens[i]
StrategyActs == orders < MaxOrders /\ IsBarEnd

SubmitOrder(i, side, quantity) ==
    /\ StrategyActs
    /\ \E p \in Opens[i] : OpenTick(p) < clock      \* the strategy has seen a bar of it
    /\ SendAtNextOpen([instrument |-> i, side |-> side, quantity |-> quantity], closing)
    /\ orders' = orders + 1
    /\ UNCHANGED <<clock, sent>>

\* A second close while the first one waits does nothing.
ClosePosition(i) ==
    /\ StrategyActs
    /\ shares[i] > 0
    /\ orders' = orders + 1
    /\ IF i \in closing THEN UNCHANGED <<cash, shares, waiting, closing>>
       ELSE SendAtNextOpen([instrument |-> i, side |-> "CLOSE", quantity |-> 0], closing \cup {i})
    /\ UNCHANGED <<clock, sent>>

Due == {w \in waiting : w.at = clock}

\* _atrade_send_waiting_order. Alerts of one time come in the order in which they were set.
SendWaiting ==
    /\ Due # {}
    /\ LET first == CHOOSE w \in Due : \A v \in Due :
                        \/ w.since[1] < v.since[1]
                        \/ w.since[1] = v.since[1] /\ w.since[2] <= v.since[2]
       IN  /\ waiting' = waiting \ {first}
           /\ closing' = IF first.order.side = "CLOSE" THEN closing \ {first.order.instrument} ELSE closing
           /\ sent' = IF Accepted(Fitted(first.order)) THEN Append(sent, Fitted(first.order)) ELSE sent
    /\ UNCHANGED <<clock, cash, shares, orders>>

\* External: the engine fills after the alerts of this time.
Fill ==
    /\ Due = {}
    /\ sent # <<>>
    /\ Execute(Head(sent))
    /\ sent' = Tail(sent)
    /\ UNCHANGED <<clock, waiting, closing, orders>>

Tick ==
    /\ Due = {}
    /\ sent = <<>>
    /\ clock < Length * Ends
    /\ clock' = clock + 1
    /\ UNCHANGED <<cash, shares, waiting, closing, sent, orders>>

Next ==
    \/ Tick \/ SendWaiting \/ Fill
    \/ \E i \in Instruments :
        \/ ClosePosition(i)
        \/ \E side \in {"BUY", "SELL"}, quantity \in 1 .. 3 : SubmitOrder(i, side, quantity)

Spec == Init /\ [][Next]_engine /\ WF_engine(Tick \/ SendWaiting \/ Fill)

-----------------------------------------------------------------------------
\* The engine ends a run on a fill above the cash, and a cash account has no short position: the cash pays for every
\* fill, and no share is sold two times, by a close and a sell or by two closes.
FillsAreCovered == cash >= 0 /\ \A i \in Instruments : shares[i] >= 0

\* A held order leaves at the first open of its instrument: no open passes without it, and the run does not end with
\* an order that waits.
NoOrderMissesItsOpen ==
    /\ \A w \in waiting : w.at >= clock
    /\ \A w \in waiting : \A p \in Opens[w.order.instrument] :
            ~(OpenTick(p) > w.since[1] /\ OpenTick(p) + MaxOrders < clock)
    /\ clock = Length * Ends => waiting = {}
=============================================================================
