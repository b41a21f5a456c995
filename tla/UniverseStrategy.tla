-------------------------- MODULE UniverseStrategy --------------------------
(***************************************************************************)
(* The strategy that the rule builder makes in the universe mode: at each  *)
(* rebalance it ranks the members that pass the entry group, sells what is *)
(* not a target, and buys the targets after all its orders are filled. A   *)
(* lost order is sent again, at most once in a period.                     *)
(*                                                                         *)
(* A member is a number, in the order of the names. Its values at its last *)
(* bar are 0 for no value, -1 when the entry group is false, else its rank *)
(* value; a member with values has a last close. The time counts bar       *)
(* times. A buy is of at least one share, and the account is known.        *)
(***************************************************************************)
EXTENDS Integers, Sequences, FiniteSets

CONSTANTS
    Members,            \* the instruments that can be in a list
    HoldCount,          \* hold_count
    MaxBarTime          \* bound: the last bar time of a behaviour

RebalancePeriod == 2    \* bar times of a week, a month or a quarter
EntryRetryPeriod == 2   \* ENTRY_RETRY_PERIOD_NS, in bar times
ExitRetryPeriod == 1    \* EXIT_RETRY_PERIOD_NS
MaxRebalanceWait == 1   \* MAX_REBALANCE_WAIT, 5 in the code

VARIABLES
    memory,     \* the attributes of the strategy object
    positions,  \* the instruments with an open position
    orders,     \* instrument -> the open orders: "buy" or "sell", in the order that they were sent
    time,       \* the current bar time
    had_bar,    \* the instruments that had their bar of this time, and TheList after a new list
    retries,    \* history: <<instrument, side, period>> of each retry, with its number
    old_sells   \* history: the targets that had an open sell when they were ranked

strategy == <<memory, positions, orders, time, had_bar, retries, old_sells>>

TheList == 0            \* bound: one new list at a bar time; IBKR data gives one in a day

Period(at) == at \div RebalancePeriod
NoPeriod == -1
NewMemory(period) ==
    [members |-> {}, values |-> <<>>, period |-> period, is_due |-> FALSE, wait |-> 0, last_bar_time |-> 0,
     buys |-> {}, targets |-> {}, lost |-> {}, retry_times |-> [m \in Members |-> -1], has_ranked |-> FALSE]

Init ==
    /\ memory = NewMemory(NoPeriod)
    /\ positions = {} /\ orders = [m \in Members |-> <<>>]
    /\ time = 1 /\ had_bar = {}
    /\ retries = {} /\ old_sells = {}

-----------------------------------------------------------------------------
(* The parts of a handler work on `s`: the memory, the orders, the history.*)

State == [memory |-> memory, orders |-> orders, retries |-> retries, old_sells |-> old_sells]
HasOrders(s, m) == s.orders[m] # <<>>
HasAnyOrder(s) == \E m \in Members : HasOrders(s, m)
HasPositionsToSell(s) == ~(positions \subseteq s.memory.targets)
SendAll(s, ms, side) == [s EXCEPT !.orders = [m \in Members |-> IF m \in ms THEN Append(@[m], side) ELSE @[m]]]

\* Mutation: the buys do not wait for the sells.
SendBuysAtOnce(s) ==
    LET buys == {m \in s.memory.buys : m \in s.memory.members /\ m \in DOMAIN s.memory.values}
    IN  SendAll([s EXCEPT !.memory.buys = {}], buys, "buy")
\* send_buys: after all orders of the strategy, and all sells.
SendBuys(s) ==
    LET buys == {m \in s.memory.buys : m \in s.memory.members /\ m \in DOMAIN s.memory.values}
    IN  IF s.memory.buys = {} \/ HasAnyOrder(s) \/ HasPositionsToSell(s) THEN s
        ELSE SendAll([s EXCEPT !.memory.buys = {}], buys, "buy")

\* send_target_orders; of a rebalance, all instruments are in `ms`.
SendTargetOrders(s, ms) ==
    LET sells == {m \in positions \cap ms : m \notin s.memory.targets /\ ~HasOrders(s, m)}
        sold == SendAll(s, sells, "sell")
        buys == {m \in s.memory.targets : m \in ms \cup s.memory.buys /\ m \notin positions /\ ~HasOrders(sold, m)}
    IN  SendBuys([sold EXCEPT !.memory.buys = buys])

\* rebalance: the first of the members with a value, by value and then by name.
Rebalance(s) ==
    LET ranked == {m \in s.memory.members \cap DOMAIN s.memory.values : s.memory.values[m] > 0}
        value == s.memory.values
        precedes(a, b) == value[a] > value[b] \/ (value[a] = value[b] /\ a < b)
        targets == {m \in ranked : Cardinality({n \in ranked : precedes(n, m)}) < HoldCount}
        old == {m \in targets : \E k \in DOMAIN s.orders[m] : s.orders[m][k] = "sell"}
    IN  SendTargetOrders([s EXCEPT !.memory.targets = targets, !.memory.has_ranked = TRUE, !.old_sells = old], Members)

\* can_retry: only a sell has an open position.
RetryPeriod(m) == IF m \in positions THEN ExitRetryPeriod ELSE EntryRetryPeriod
Side(m) == IF m \in positions THEN "sell" ELSE "buy"
CanAlwaysRetry(s, m) == TRUE   \* mutation: a retry at each bar time
CanRetry(s, m) ==
    LET last == s.memory.retry_times[m]
    IN  m \notin s.memory.lost \/ last < 0 \/ last \div RetryPeriod(m) # time \div RetryPeriod(m)
CountedRetry(s, m) ==
    LET key == [member |-> m, side |-> Side(m), period |-> time \div RetryPeriod(m)]
    IN  [key |-> key, number |-> Cardinality({r \in s.retries : r.key = key}) + 1]
Retry(s, ms) ==
    [s EXCEPT !.memory.lost = @ \ ms,
              !.memory.retry_times = [m \in Members |-> IF m \in ms THEN time ELSE @[m]],
              !.retries = @ \cup {CountedRetry(s, m) : m \in ms}]

-----------------------------------------------------------------------------
(* The first bar of a new bar time.                                        *)

RebalanceWhenDue(s) ==
    LET waited == [s EXCEPT !.memory.wait = @ + 1]
        is_ready == waited.memory.wait > MaxRebalanceWait \/ s.memory.members \subseteq DOMAIN s.memory.values
    IN  IF ~s.memory.is_due THEN s
        ELSE IF is_ready THEN Rebalance([waited EXCEPT !.memory.is_due = FALSE])
        ELSE waited

SendRetries(s) ==
    LET again == {m \in s.memory.lost : CanRetry(s, m)}
    IN  IF ~s.memory.has_ranked \/ again = {} THEN s ELSE SendTargetOrders(Retry(s, again), again)

MarkPeriod(s) ==
    IF Period(time) = s.memory.period THEN s
    ELSE [s EXCEPT !.memory.period = Period(time), !.memory.is_due = TRUE, !.memory.wait = 0]

StartBarTime(s) ==
    IF time <= s.memory.last_bar_time THEN s
    ELSE MarkPeriod(SendRetries(RebalanceWhenDue([s EXCEPT !.memory.last_bar_time = time])))

-----------------------------------------------------------------------------
Keep(s) ==
    /\ memory' = s.memory /\ orders' = s.orders
    /\ retries' = s.retries /\ old_sells' = s.old_sells

\* The bar of a member. An exit item sells, but not while an order of the member waits.
UpdateMember(s, m, value, exit_is_true) ==
    LET seen == [s EXCEPT !.memory.values = [n \in DOMAIN @ \cup {m} |-> IF n = m THEN value ELSE @[n]]]
        sells == m \in positions /\ value # 0 /\ ~HasOrders(seen, m) /\ exit_is_true /\ CanRetry(seen, m)
        retried == Retry(seen, {m} \cap seen.memory.lost)
    IN  IF sells THEN SendAll([retried EXCEPT !.memory.targets = @ \ {m}], {m}, "sell") ELSE seen

\* on_bar: the members have bars, and also a restored position outside the list.
OnBar(m, value, exit_is_true) ==
    LET s == StartBarTime(State)
    IN  /\ m \notin had_bar /\ had_bar' = had_bar \cup {m}
        /\ m \in memory.members \cup positions
        /\ exit_is_true => m \in positions
        /\ IF m \in memory.members THEN Keep(SendBuys(UpdateMember(s, m, value, exit_is_true))) ELSE Keep(s)
        /\ UNCHANGED <<positions, time>>

\* on_data: a new list. The position of a member that leaves is closed.
OnData(list) ==
    LET removed == memory.members \ list
        kept == [memory EXCEPT !.members = list, !.targets = @ \ removed,
                               !.values = [m \in DOMAIN @ \ removed |-> @[m]]]
        marked == IF memory.members = {} /\ ~(positions \subseteq list) THEN [kept EXCEPT !.is_due = TRUE] ELSE kept
    IN  /\ TheList \notin had_bar /\ had_bar' = had_bar \cup {TheList}
        /\ list # memory.members
        /\ Keep(SendAll([State EXCEPT !.memory = marked], removed \cap positions, "sell"))
        /\ UNCHANGED <<positions, time>>

OrderFills(m) ==
    /\ orders[m] # <<>>
    /\ Head(orders[m]) = "sell" <=> m \in positions
    /\ positions' = IF Head(orders[m]) = "buy" THEN positions \cup {m} ELSE positions \ {m}
    /\ orders' = [orders EXCEPT ![m] = Tail(@)]
    /\ UNCHANGED <<memory, time, had_bar, retries, old_sells>>

\* on_order_denied, on_order_rejected, on_order_canceled. A sell reduces a position only: without one, it is rejected.
OrderIsLost(m) ==
    /\ orders[m] # <<>>
    /\ orders' = [orders EXCEPT ![m] = Tail(@)]
    /\ memory' = [memory EXCEPT !.lost = @ \cup {m}]
    /\ UNCHANGED <<positions, time, had_bar, retries, old_sells>>

\* The stop of a forward test cancels its orders; on_start of the new strategy object finds the positions.
Restart ==
    /\ memory' = NewMemory(IF positions = {} THEN NoPeriod ELSE Period(time))
    /\ orders' = [m \in Members |-> <<>>]
    /\ retries' = {} /\ old_sells' = {}
    /\ UNCHANGED <<positions, time, had_bar>>

NextBarTime ==
    /\ time < MaxBarTime /\ time' = time + 1
    /\ had_bar' = {}
    /\ UNCHANGED <<memory, positions, orders, retries, old_sells>>

Next ==
    \/ \E m \in Members, value \in -1 .. 2, exit_is_true \in BOOLEAN : OnBar(m, value, exit_is_true)
    \/ \E list \in SUBSET Members : OnData(list)
    \/ \E m \in Members : OrderFills(m) \/ OrderIsLost(m)
    \/ Restart
    \/ NextBarTime

Spec == Init /\ [][Next]_strategy

-----------------------------------------------------------------------------
\* "It buys only when no order of the strategy is open and no position outside the targets is open": what it holds and
\* what it buys is never more than hold_count, also when a list changes, an order is lost or the strategy restarts.
HoldsAtMostHoldCount ==
    Cardinality(positions \cup {m \in Members : \E k \in DOMAIN orders[m] : orders[m][k] = "buy"}) <= HoldCount

\* "A lost order does not wait for the next rebalance": a target without a position has an order, or is bought after the
\* other orders, or is sent again. A sell from before the ranking can leave a target without its position.
NoTargetIsForgotten ==
    \A m \in memory.targets \ positions : orders[m] # <<>> \/ m \in memory.buys \cup memory.lost \cup old_sells

\* At most one retry of a side in its period.
OneRetryInAPeriod == \A r \in retries : r.number = 1

\* The strategy holds at most its targets, forgets none, and does not repeat a refusal on each bar.
UniverseIsHeld == HoldsAtMostHoldCount /\ NoTargetIsForgotten /\ OneRetryInAPeriod
=============================================================================
