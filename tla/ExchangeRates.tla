---------------------------- MODULE ExchangeRates ----------------------------
(***************************************************************************)
(* The daily exchange rates of a backtest that is not in USD: the start    *)
(* route saves the IBKR rates of the days that are not saved yet           *)
(* (exchange_rate_reading.py, exchange_rate_store.py), and the child       *)
(* converts the paper capital, the equity curve and the trades with the    *)
(* saved rates (backtest_exchange_rates.py).                               *)
(*                                                                         *)
(* A day is named by its start, and so is its rate. IBKR publishes the     *)
(* rate of a trading day at any time up to Late after the day ends.        *)
(***************************************************************************)
EXTENDS Integers, Sequences, FiniteSets, SequencesExt, FiniteSetsExt

CONSTANTS
    WebStarts,          \* backtest starts of the user, in one currency
    AssistantStarts,    \* and of the AI assistant: port 8001 has a reader of its own, with its own locks
    Late                \* the longest time from the end of a day to its rate at IBKR

BacktestStarts == WebStarts \cup AssistantStarts
SameReader(s) == IF s \in WebStarts THEN WebStarts ELSE AssistantStarts

Saved == INSTANCE BarSources

Day == 4                \* 24 hours: a unit of time is 6 hours
PublicationDelay == Day
LookBack == 2 * Day     \* 7 days in the code
TradingDays == {0, 4, 12, 16}   \* day 8 has no forex market
Requests == {[start |-> 12, end |-> 20], [start |-> 13, end |-> 20]}
StartTime == 17
EndTime == 18

VARIABLES
    now,
    published,  \* trading days whose rate IBKR can give
    connected,  \* the connection to IB Gateway
    rates,      \* days of the rates in the table exchange_rate
    ranges,     \* the table exchange_rate_saved_range
    fillLock,   \* the starts that hold the lock of the currency in their reader
    at,         \* how far each start is
    request,    \* the time range of its backtest
    asked,      \* the times that the reader of each start asked IBKR for
    missing     \* before the lock the range that it needs, then the ranges that it still has to read from IBKR

vars == <<now, published, connected, rates, ranges, fillLock, at, request, asked, missing>>

Init ==
    /\ now = StartTime /\ published = {d \in TradingDays : d + Day + Late <= now}
    /\ connected \in BOOLEAN
    /\ rates = {} /\ ranges = {} /\ fillLock = {}
    /\ at = [s \in BacktestStarts |-> "idle"]
    /\ request = [s \in BacktestStarts |-> CHOOSE r \in Requests : TRUE]
    /\ missing = [s \in BacktestStarts |-> <<>>] /\ asked = [s \in BacktestStarts |-> {}]

FindExchangeRateRange(range) == [start |-> range.start - LookBack, end |-> range.end]
\* The days that the reader may save at this moment: none, or one range of whole days.
CompleteRange(range) ==
    Saved!LimitToCompleteBars([range EXCEPT !.end = Min({range.end, now - PublicationDelay})], Day, now)

SelectExchangeRates(range) == rates \cap Saved!Times(range)
\* Mutation: the rate of the last day that started, also when it did not end.
FindUsdPerUnitOfOpenDay(known, time) ==
    LET begun == {d \in known : d <= time}
    IN IF begun = {} THEN {} ELSE {Max(begun)}

\* The rate of the last day that ended at or before the time, or none.
FindUsdPerUnit(known, time) ==
    LET ended == {d \in known : d + Day <= time}
    IN IF ended = {} THEN {} ELSE {Max(ended)}

-----------------------------------------------------------------------------
(* The start route.                                                        *)

Begin(s) ==
    /\ at[s] = "idle"
    /\ \E range \in Requests :
        /\ request' = [request EXCEPT ![s] = range]
        /\ missing' = [missing EXCEPT ![s] = SetToSeq(CompleteRange(FindExchangeRateRange(range)))]
        /\ at' = [at EXCEPT ![s] = IF missing'[s] = <<>> THEN "read" ELSE "lock"]
    /\ UNCHANGED <<now, published, connected, rates, ranges, fillLock, asked>>

\* With the lock of the currency: the complete range, which is from before the lock, without its saved parts.
SelectMissing(s) ==
    LET complete == Head(missing[s])
        found == Saved!FindMissingRanges(complete, Saved!SelectSavedRanges(ranges, complete))
    IN /\ at[s] = "lock" /\ fillLock \cap SameReader(s) = {}
       /\ at' = [at EXCEPT ![s] = IF found = <<>> THEN "read" ELSE IF connected THEN "ask" ELSE "refused"]
       /\ fillLock' = fillLock \cup {t \in {s} : at'[t] = "ask"}
       /\ missing' = [missing EXCEPT ![s] = IF at'[s] = "ask" THEN found ELSE <<>>]
       /\ UNCHANGED <<now, published, connected, rates, ranges, request, asked>>

SaveExchangeRatesOfRange(range, days) ==
    /\ rates' = rates \cup days
    /\ ranges' = Saved!JoinSavedRange(ranges, range)

\* IBKR answers for the first missing range with the rates that it has; the range becomes saved.
ReadDailyExchangeRates(s) ==
    /\ at[s] = "ask" /\ connected
    /\ SaveExchangeRatesOfRange(Head(missing[s]), published \cap Saved!Times(Head(missing[s])))
    /\ asked' = [t \in BacktestStarts |->
                    asked[t] \cup IF t \in SameReader(s) THEN Saved!Times(Head(missing[s])) ELSE {}]
    /\ missing' = [missing EXCEPT ![s] = Tail(@)]
    /\ IF Tail(missing[s]) = <<>> THEN at' = [at EXCEPT ![s] = "read"] /\ fillLock' = fillLock \ {s}
       ELSE UNCHANGED <<at, fillLock>>
    /\ UNCHANGED <<now, published, connected, request>>

\* No answer in time, no connection, or no pair in either direction: the ranges read so far stay saved.
RatesNotRead(s) ==
    /\ at[s] = "ask"
    /\ at' = [at EXCEPT ![s] = "refused"] /\ fillLock' = fillLock \ {s}
    /\ missing' = [missing EXCEPT ![s] = <<>>]
    /\ UNCHANGED <<now, published, connected, rates, ranges, request, asked>>

CheckStartRate(s) ==
    /\ at[s] = "read"
    /\ at' = [at EXCEPT ![s] =
                IF FindUsdPerUnit(SelectExchangeRates(FindExchangeRateRange(request[s])), request[s].start) = {}
                THEN "refused" ELSE "accepted"]
    /\ UNCHANGED <<now, published, connected, rates, ranges, fillLock, request, missing, asked>>

-----------------------------------------------------------------------------
(* The child: each amount goes with the day of the rate that converts it.  *)

KnownRates(s) == SelectExchangeRates(FindExchangeRateRange(request[s]))
StartingCash(s) == {<<"paper_capital", d>> : d \in FindUsdPerUnit(KnownRates(s), request[s].start)}
ConvertToUsd(s, times) ==
    {pair \in times \X KnownRates(s) : pair[2] \in FindUsdPerUnit(KnownRates(s), pair[1])}
EquityCurve(s) == ConvertToUsd(s, {t \in Saved!Times(request[s]) : t % 2 = 0} \cup {request[s].start})
Trades(s) == ConvertToUsd(s, Saved!Times(request[s]))

-----------------------------------------------------------------------------
(* Around the route.                                                       *)

Publish ==
    /\ \E d \in TradingDays \ published : d + Day <= now /\ published' = published \cup {d}
    /\ UNCHANGED <<now, connected, rates, ranges, fillLock, at, request, missing, asked>>
TimePasses ==
    /\ now < EndTime /\ \A d \in TradingDays \ published : now < d + Day + Late
    /\ now' = now + 1
    /\ UNCHANGED <<published, connected, rates, ranges, fillLock, at, request, missing, asked>>
ConnectionChanges ==
    /\ connected' = ~connected
    /\ UNCHANGED <<now, published, rates, ranges, fillLock, at, request, missing, asked>>
\* The web process restarts: the locks and the requests in it are gone.
WebRestarts ==
    /\ \E s \in BacktestStarts : at[s] \in {"lock", "ask", "read"}
    /\ at' = [s \in BacktestStarts |-> IF at[s] \in {"lock", "ask", "read"} THEN "refused" ELSE at[s]]
    /\ fillLock' = {} /\ missing' = [s \in BacktestStarts |-> <<>>]
    /\ UNCHANGED <<now, published, connected, rates, ranges, request, asked>>

Next ==
    \/ \E s \in BacktestStarts :
        Begin(s) \/ SelectMissing(s) \/ ReadDailyExchangeRates(s) \/ RatesNotRead(s) \/ CheckStartRate(s)
    \/ Publish \/ TimePasses \/ ConnectionChanges \/ WebRestarts

Spec == Init /\ [][Next]_vars

-----------------------------------------------------------------------------
IsSaved(d) == \E r \in ranges : d \in Saved!Times(r)

\* An accepted backtest converts its capital, each point and each trade, with the rate of a day that ended before and
\* that is at most the look-back old at its start, also when more rates come after the start was accepted.
AcceptedIsConverted ==
    \A s \in BacktestStarts : at[s] = "accepted" =>
        /\ StartingCash(s) # {} /\ \A cash \in StartingCash(s) : cash[2] >= request[s].start - LookBack
        /\ \A t \in Saved!Times(request[s]) : Cardinality({p \in Trades(s) : p[1] = t}) = 1
        /\ \A p \in EquityCurve(s) \cup Trades(s) : p[2] + Day <= p[1]
        /\ \A p \in EquityCurve(s), trade \in Trades(s) : p[1] = trade[1] => p = trade

\* A reader asks IBKR only 1 time for a day that it saved, and a rate is saved only with its range.
RatesAreReadOnce ==
    /\ \A s \in BacktestStarts : at[s] = "ask" =>
        \A i \in DOMAIN missing[s] : Saved!Times(missing[s][i]) \cap asked[s] = {}
    /\ \A d \in rates : IsSaved(d)
    /\ \A r \in ranges : r.end <= now

\* The comment at PUBLICATION_DELAY: "A day that ended less than 1 day ago is not read, so a missing rate is not
\* recorded as "saved" for ever."
NoRateIsLost == \A d \in published : IsSaved(d) => d \in rates
=============================================================================
