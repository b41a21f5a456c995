--------------------------- MODULE RulesStrategy ----------------------------
(***************************************************************************)
(* The strategy that the rule builder makes for one instrument: it buys    *)
(* when the entry group is true, sells when an exit item is true, and      *)
(* sends a lost order again, at most once in a period.                     *)
(*                                                                         *)
(* The values of a bar are the number of the bar, or NoValues while an     *)
(* indicator has no value; the bar at the start is the last look-back bar. *)
(* What the rules say of a bar is chosen: RulesCode models it.             *)
(***************************************************************************)
EXTENDS Integers, FiniteSets

CONSTANT MaxBars        \* bound: the bars of a behaviour

EntryRetryPeriod == 3   \* ENTRY_RETRY_PERIOD_NS, in bars
ExitRetryPeriod == 2    \* EXIT_RETRY_PERIOD_NS
NoValues == -1

VARIABLES
    previous_values,    \* the values of the bar before
    bars_in_position,
    order_is_lost,
    last_retry,         \* last_retry_ns, as a bar; -1 for none
    position,           \* the bars since the fill of the open position; -1 for none
    order,              \* the open order: "none", "buy" or "sell"
    bar,                \* the last bar
    started,            \* the last bar before the start of this strategy object
    is_warm,            \* the look-back bars came
    valued,             \* history: the bars whose values the strategy read
    sent                \* history: <<side, bar, order_is_lost>> of each order

rules == <<previous_values, bars_in_position, order_is_lost, last_retry, position, order, bar, started, is_warm, valued,
           sent>>

Init ==
    /\ previous_values = NoValues /\ bars_in_position = 0
    /\ order_is_lost = FALSE /\ last_retry = -1
    /\ position = -1 /\ order = "none"
    /\ bar = 0 /\ started = 0 /\ is_warm = FALSE /\ valued = {} /\ sent = {}

NoPosition == position = -1

\* can_send_order
CanSendAgain(period) == TRUE        \* mutation: a lost order is sent again at each bar
CanSendOrder(period) == order_is_lost => last_retry < 0 \/ bar' \div period # last_retry \div period
SendOrder(side) ==
    /\ order' = side
    /\ order_is_lost' = FALSE
    /\ last_retry' = IF order_is_lost THEN bar' ELSE last_retry
    /\ sent' = sent \cup {[side |-> side, bar |-> bar', is_retry |-> order_is_lost]}
SendNothing == UNCHANGED <<order, order_is_lost, last_retry, sent>>

\* An indicator has a value after the look-back bars, or after enough bars. `is_true` is what the entry group says of
\* a bar without a position, and the exit items of a bar with one.
OnBar(now, is_true) ==
    LET period == IF NoPosition THEN EntryRetryPeriod ELSE ExitRetryPeriod
        side == IF NoPosition THEN "buy" ELSE "sell"
    IN  /\ bar < MaxBars /\ bar' = bar + 1
        /\ now \in {bar', NoValues} /\ (is_warm \/ valued # {} => now = bar')
        /\ position' = IF NoPosition THEN -1 ELSE position + 1
        /\ bars_in_position' = IF NoPosition THEN 0 ELSE bars_in_position + 1
        /\ previous_values' = now
        /\ valued' = valued \cup ({now} \ {NoValues})
        /\ IF now # NoValues /\ order = "none" /\ is_true /\ CanSendOrder(period)
           THEN SendOrder(side) ELSE SendNothing
        /\ UNCHANGED <<started, is_warm>>

\* on_historical_bars; the answer can come after live bars.
ReplacePrevious == started    \* mutation: a late answer replaces the values of a live bar
PreviousAfterLookBack == IF previous_values = NoValues THEN started ELSE previous_values
OnHistoricalBars ==
    /\ ~is_warm /\ is_warm' = TRUE
    /\ previous_values' = PreviousAfterLookBack
    /\ UNCHANGED <<bars_in_position, order_is_lost, last_retry, position, order, bar, started, valued, sent>>

OrderFills ==
    /\ order # "none" /\ order' = "none"
    /\ position' = IF order = "buy" THEN 0 ELSE -1
    /\ UNCHANGED <<previous_values, bars_in_position, order_is_lost, last_retry, bar, started, is_warm, valued, sent>>

\* on_order_denied, on_order_rejected, on_order_canceled
OrderIsLost ==
    /\ order # "none" /\ order' = "none"
    /\ order_is_lost' = TRUE
    /\ UNCHANGED <<previous_values, bars_in_position, last_retry, position, bar, started, is_warm, valued, sent>>

\* The stop of a forward test cancels its orders. The new strategy object finds the position.
Restart ==
    /\ order' = "none" /\ started' = bar
    /\ previous_values' = NoValues /\ bars_in_position' = 0
    /\ order_is_lost' = FALSE /\ last_retry' = -1
    /\ is_warm' = FALSE /\ valued' = {} /\ sent' = {}
    /\ UNCHANGED <<position, bar>>

Next ==
    \/ \E now \in {bar + 1, NoValues}, is_true \in BOOLEAN : OnBar(now, is_true)
    \/ OnHistoricalBars
    \/ OrderFills
    \/ OrderIsLost
    \/ Restart

Spec == Init /\ [][Next]_rules

-----------------------------------------------------------------------------
\* A lost order does not repeat on each bar: two retries of one side are never in one retry period.
RetryPeriod(side) == IF side = "buy" THEN EntryRetryPeriod ELSE ExitRetryPeriod
OneRetryInAPeriod ==
    \A r1, r2 \in {s \in sent : s.is_retry} :
        r1.side = r2.side /\ r1.bar \div RetryPeriod(r1.side) = r2.bar \div RetryPeriod(r1.side) => r1 = r2

\* A cross compares a bar with the live bar before it; with a look-back bar only when no live bar had values.
CrossesSeeTheBarBefore == valued # {} => previous_values = bar

\* "Exit after N bars counts the bars that close while the position is open": of a restored position, those since the
\* start.
BarsInPositionAreCounted ==
    position >= 0 => bars_in_position = IF position < bar - started THEN position ELSE bar - started

RulesAreTraded == OneRetryInAPeriod /\ CrossesSeeTheBarBefore /\ BarsInPositionAreCounted
=============================================================================
