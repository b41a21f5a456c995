------------------------ MODULE BacktestCalculations ------------------------
(***************************************************************************)
(* What a backtest request becomes: its universe and the checks of the     *)
(* routes, the universe periods of each kind, the time ranges in which an  *)
(* instrument is a member, the listings that make one member, the grid of  *)
(* a parameter sweep, the start of a forward test, and the data of one     *)
(* engine run. Here a time is a number of days, a month has two days, an   *)
(* instrument is a record [symbol, exchange, currency], a period a record  *)
(* [start, members]. A check that can refuse gives the set of its one      *)
(* result, or {}.                                                          *)
(*                                                                         *)
(* Then the metrics of a backtest from its bars and its fills: the equity  *)
(* curve of one or many instruments, the round trips, the drawdown, the    *)
(* daily returns, the in-sample and the out-of-sample part, which metrics  *)
(* have no value and why, and the comparison of a forward test with its    *)
(* backtest. Here times are bar ends 1, 2, ... and a trade has a time of   *)
(* its own; amounts are integers. A quotient is a pair <<numerator,        *)
(* denominator>>. Rounding and roots are left out: only whether such a     *)
(* metric has a value counts.                                              *)
(***************************************************************************)
EXTENDS Integers, Sequences, FiniteSets, SequencesExt

CONSTANTS
    MaxUniverseSize,    \* MAX_UNIVERSE_SIZE
    MaxSweepRuns,       \* MAX_SWEEP_RUNS
    MaxSweepParameters  \* MAX_SWEEP_PARAMETERS

Distinct(s) == FoldLeft(LAMBDA kept, x : IF Contains(kept, x) THEN kept ELSE Append(kept, x), <<>>, s)
LaterOf(a, b) == IF a > b THEN a ELSE b

-----------------------------------------------------------------------------
(* The request. Its fields are those of StartBacktestRequest; a field that *)
(* is not in the request is not in the domain of the record.               *)

UniverseFields ==
    [single |-> {"symbol"}, rule |-> {"top_n"}, list |-> {"instruments", "screen_result", "symbols"},
     screen |-> {"screen", "rebalance_period"}]

\* A fixed universe field that the kind does not use refuses the request.
ExtraFields(request) == (DOMAIN request \ {"kind"}) \ UniverseFields[request.kind]

\* The members of a list: the instruments, or the rows of a screen result, of which `symbols` selects some. A symbol can
\* have rows on two exchanges.
ListMembers(request) ==
    LET Rows(symbol) == SelectSeq(request.screen_result, LAMBDA row : row.symbol = symbol)
    IN  IF "screen_result" \notin DOMAIN request THEN
            IF "symbols" \in DOMAIN request THEN {}
            ELSE {IF "instruments" \in DOMAIN request THEN request.instruments ELSE <<>>}
        ELSE IF "instruments" \in DOMAIN request THEN {}
        ELSE IF "symbols" \notin DOMAIN request THEN {request.screen_result}
        ELSE IF \E symbol \in ToSet(request.symbols) : Rows(symbol) = <<>> THEN {}
        ELSE {FlattenSeq([i \in DOMAIN Distinct(request.symbols) |-> Rows(Distinct(request.symbols)[i])])}

\* The simulated venue has one instrument for each symbol, and the list has one currency.
ListIsRefused(members) ==
    \/ members = <<>>
    \/ Len(members) > MaxUniverseSize
    \/ \E i, j \in DOMAIN members :
        \/ members[i].symbol = members[j].symbol /\ members[i].exchange # members[j].exchange
        \/ members[i].currency # members[j].currency

ListPeriods(range, members) == <<[start |-> range.start, members |-> Distinct(members)]>>

-----------------------------------------------------------------------------
(* The universe periods.                                                   *)

\* The quarters of the US universe: the one that covers the range start, and those that start in the range.
RulePeriods(quarters, top_n, range) ==
    LET covered == SelectSeq(quarters, LAMBDA q : q.start <= range.start)
        later == SelectSeq(quarters, LAMBDA q : q.start > range.start /\ q.start < range.end)
        used == IF covered = <<>> THEN <<>> ELSE <<Last(covered)>> \o later
    IN  [i \in DOMAIN used |->
            [start |-> LaterOf(used[i].start, range.start),
             members |-> SubSeq(used[i].members, 1, IF top_n < Len(used[i].members) THEN top_n
                                                    ELSE Len(used[i].members))]]

\* make_backtest_request: the periods that the route saves with the row. The child finds those of a screen.
RequestPeriods(request, range, quarters) ==
    IF ExtraFields(request) # {} THEN {}
    ELSE CASE request.kind = "single" -> IF "symbol" \in DOMAIN request THEN {<<>>} ELSE {}
           [] request.kind = "screen" -> IF "screen" \in DOMAIN request THEN {<<>>} ELSE {}
           [] request.kind = "rule" ->
                IF "top_n" \in DOMAIN request THEN {RulePeriods(quarters, request.top_n, range)} \ {<<>>} ELSE {}
           [] request.kind = "list" ->
                {ListPeriods(range, ms) : ms \in {m \in ListMembers(request) : ~ListIsRefused(m)}}

MonthLength == 2
\* The range start, then each start of a period of `step` months in the range.
ScreenPeriodStarts(range, step) ==
    LET length == step * MonthLength
        first == (range.start \div length + 1) * length
        count == IF first < range.end THEN (range.end - 1 - first) \div length + 1 ELSE 0
    IN  <<range.start>> \o [k \in 1 .. count |-> first + (k - 1) * length]

\* The same-period backtest of a forward test has the quarters that the forward test recorded. The quarter of its start
\* begins at the backtest start.
RecordedPeriods(quarters, range) ==
    LET Step(periods, q) ==
            LET start == LaterOf(q.start, range.start)
                kept == IF periods # <<>> /\ Last(periods).start = start THEN Front(periods) ELSE periods
            IN  IF start >= range.end THEN periods ELSE Append(kept, [start |-> start, members |-> q.members])
    IN  FoldLeft(Step, <<>>, quarters)

\* The time ranges in which each instrument is a member. Periods that follow each other make one range.
MemberRanges(periods, end, member) ==
    LET Step(ranges, i) ==
            LET period_end == IF i < Len(periods) THEN periods[i + 1].start ELSE end
            IN  IF ~Contains(periods[i].members, member) THEN ranges
                ELSE IF ranges # <<>> /\ Last(ranges).end = periods[i].start
                THEN [ranges EXCEPT ![Len(ranges)].end = period_end]
                ELSE Append(ranges, [start |-> periods[i].start, end |-> period_end])
    IN  FoldLeft(Step, <<>>, [i \in DOMAIN periods |-> i])

-----------------------------------------------------------------------------
(* The start of a forward test and the backtest of its period. `world` is  *)
(* what the routes read. A universe is a record [kind, fields, top_n]: the *)
(* fields of an instrument that it gives, and 0 for no top_n. A row is a   *)
(* forward test with the quarters of members that it recorded.             *)

InstrumentFields == {"symbol", "exchange", "currency"}

\* The universe is in the request, or its flat fields are those of a single instrument.
UniverseBody(request) ==
    IF request.universe = <<>> THEN {[kind |-> "single", fields |-> request.flat, top_n |-> 0]}
    ELSE IF DOMAIN request.flat # {} THEN {} ELSE {request.universe[1]}

AreUsd(instruments) == \A i \in DOMAIN instruments : instruments[i].currency = "USD"

\* The quarter of a universe of many instruments with its members: the top of the US universe or the watchlist.
FirstQuarter(universe, world) ==
    CASE universe.kind = "rule" ->
            IF universe.top_n = 0 THEN {}
            ELSE {[start |-> quarter.start,
                   members |-> SelectSeq(quarter.members, LAMBDA m : m.rank <= universe.top_n)] :
                    quarter \in world.us_quarter}
      [] universe.kind = "list" ->
            IF universe.top_n # 0 \/ world.watchlist = <<>> THEN {}
            ELSE {[start |-> world.quarter_start, members |-> world.watchlist]}

MakeForwardTestRequest(request, world) ==
    UNION {LET made(instrument, quarters) ==
                    [universe_kind |-> universe.kind, top_n |-> universe.top_n, instrument |-> instrument,
                     quarters |-> quarters, bar_period |-> request.bar_period, version |-> request.version]
           IN  IF universe.kind = "single" THEN
                    IF DOMAIN universe.fields = InstrumentFields /\ universe.top_n = 0 /\ AreUsd(<<universe.fields>>)
                    THEN {made({universe.fields}, <<>>)} ELSE {}
               ELSE IF DOMAIN universe.fields # {} \/ request.bar_period # "1-DAY" THEN {}
               ELSE {made({}, <<quarter>>) : quarter \in {q \in FirstQuarter(universe, world) : AreUsd(q.members)}}
           : universe \in UniverseBody(request)}

\* The row that the start saves, or {}. The capital and the client ID are checked by the store (OwnerLedger,
\* ForwardTestWorker).
StartForwardTest(request, world) ==
    IF \/ request.version \notin world.versions
       \/ request.end_time # 0 /\ request.end_time <= world.now
       \/ request.version \in world.backtest_only
       \/ world.net_liquidation = {}
       \/ ~world.has_ledger_start
    THEN {}
    ELSE {made @@ [created |-> world.now, stopped |-> {}, start_capital |-> {}] :
            made \in MakeForwardTestRequest(request, world)}

\* check_backtest_request, with the currency that the comparison needs.
BacktestIsRefused(request) ==
    \/ request.range.end <= request.range.start
    \/ request.universe_kind # "single" /\ request.bar_period \notin {"1-DAY", "1-HOUR"}
    \/ request.currency # {"USD"}

\* The backtest of the period of a forward test: of its single instrument, or of the quarters that it recorded.
SamePeriodBacktest(row, now) ==
    LET range == [start |-> row.created, end |-> IF row.stopped = {} THEN now ELSE CHOOSE t \in row.stopped : TRUE]
        has_periods == row.universe_kind # "single" /\ range.end > range.start
        periods == IF has_periods THEN RecordedPeriods(row.quarters, range) ELSE <<>>
        request ==
            [version |-> row.version, instrument |-> row.instrument, bar_period |-> row.bar_period, range |-> range,
             universe_kind |-> IF ~has_periods THEN "single" ELSE IF row.universe_kind = "rule" THEN "rule" ELSE "list",
             currency |-> IF periods # <<>> THEN {periods[1].members[1].currency}
                          ELSE {instrument.currency : instrument \in row.instrument},
             periods |-> periods]
    IN  IF row.start_capital = {} \/ (has_periods /\ periods = <<>>) \/ BacktestIsRefused(request) THEN {}
        ELSE {request}

\* What the comparison of a forward test with a backtest asks for.
IsSameSetup(row, request) ==
    /\ request.universe_kind = row.universe_kind
    /\ request.version = row.version
    /\ request.instrument = row.instrument
    /\ request.bar_period = row.bar_period

-----------------------------------------------------------------------------
(* The bars of the members: sets of [start, exchange]. A listing is an     *)
(* instrument [symbol, exchange] with its saved bars.                      *)

BarsIn(bars, from, to) == {b \in bars : from <= b.start /\ b.start < to}

\* The bars of a listing in the ranges in which it is a member, those before each range, and those of the whole range: a
\* member that leaves still sells at its next open.
ReadMemberBars(listing, ranges, range, look_back) ==
    LET spans == ToSet(ranges)
    IN  [exchange |-> listing.exchange,
         bars |-> UNION {BarsIn(listing.saved, r.start, r.end) : r \in spans},
         look_back |-> UNION {BarsIn(listing.saved, r.start - look_back, r.start) : r \in spans},
         open_bars |-> BarsIn(listing.saved, range.start, range.end)]

\* Mutation: the bars of all listings, with two bars for one time.
MergeAllBars(lists) == FoldLeft(LAMBDA merged, bars : merged \cup bars, {}, lists)

\* One bar per start is kept, the last listing's.
MergeBars(lists) ==
    FoldLeft(LAMBDA merged, bars : {b \in merged : \A c \in bars : c.start # b.start} \cup bars, {}, lists)

LatestStart(bars) == (CHOOSE b \in bars : \A c \in bars : c.start <= b.start).start

\* One member with the bars of all listings of its symbol, on the exchange of the last bar.
MergeListings(listings) ==
    LET traded == {i \in DOMAIN listings : listings[i].open_bars # {}}
        last == CHOOSE i \in traded : \A j \in traded :
                    \/ LatestStart(listings[j].open_bars) < LatestStart(listings[i].open_bars)
                    \/ LatestStart(listings[j].open_bars) = LatestStart(listings[i].open_bars) /\ i <= j
    IN  [exchange |-> IF traded = {} THEN listings[1].exchange ELSE listings[last].exchange,
         bars |-> MergeBars([i \in DOMAIN listings |-> listings[i].bars]),
         look_back |-> MergeBars([i \in DOMAIN listings |-> listings[i].look_back]),
         open_bars |-> MergeBars([i \in DOMAIN listings |-> listings[i].open_bars])]

\* The listings that are members in some period, in the order in which they become members: a member of a period is
\* named here by its exchange.
MemberListings(listings, periods) ==
    LET members == Distinct(FlattenSeq([i \in DOMAIN periods |-> periods[i].members]))
        Listing(member) == listings[CHOOSE i \in DOMAIN listings : listings[i].exchange = member]
    IN  [m \in DOMAIN members |-> Listing(members[m])]

\* The one member of the listings of a symbol.
ReadUniverseBars(listings, periods, range, look_back) ==
    LET Read(listing) ==
            ReadMemberBars(listing, MemberRanges(periods, range.end, listing.exchange), range, look_back)
        members == MemberListings(listings, periods)
    IN  MergeListings([i \in DOMAIN members |-> Read(members[i])])

\* The check of the start: a listing has a saved bar in a period in which it is a member.
HasUniverseBars(listings, periods, range) ==
    \E i \in DOMAIN listings :
        \E r \in ToSet(MemberRanges(periods, range.end, listings[i].exchange)) :
            BarsIn(listings[i].saved, r.start, r.end) # {}

-----------------------------------------------------------------------------
(* The grid of a sweep: entries [name, start, end, step] and the           *)
(* parameters, a function of names to "bool" or "int".                     *)

GridValues(entry, kind) ==
    LET count == (entry.end - entry.start) \div entry.step + 1
    IN  IF kind = "bool" THEN {<<0, 1>>}
        ELSE IF entry.step <= 0 \/ entry.end < entry.start THEN {}
        ELSE IF count > MaxSweepRuns THEN {}
        ELSE {[i \in 1 .. count |-> entry.start + entry.step * (i - 1)]}

\* Each row with each value after it, in grid order.
Extend(rows, values) ==
    FlattenSeq([r \in DOMAIN rows |-> [x \in DOMAIN values |-> Append(rows[r], values[x])]])

Grid(entries, parameters) ==
    LET Step(grids, entry) ==
            {Extend(rows, values) : rows \in grids, values \in GridValues(entry, parameters[entry.name])}
    IN  IF \/ entries = <<>> \/ Len(entries) > MaxSweepParameters
           \/ \E i, j \in DOMAIN entries : i # j /\ entries[i].name = entries[j].name
           \/ \E i \in DOMAIN entries : entries[i].name \notin DOMAIN parameters
        THEN {}
        ELSE {rows \in FoldLeft(Step, {<<<<>>>>}, entries) : Len(rows) <= MaxSweepRuns}

-----------------------------------------------------------------------------
\* The bars of a member are read for the times in which it is a member, and for no other: a time is in a range exactly
\* when the last period that started has the member, and two ranges never touch, so a member that stays sees one
\* history without a break.
RangesAreTheMembership(periods, end, member) ==
    LET ranges == MemberRanges(periods, end, member)
        Current(t) == CHOOSE i \in DOMAIN periods :
                        periods[i].start <= t /\ (i = Len(periods) \/ t < periods[i + 1].start)
    IN  /\ \A t \in periods[1].start .. end - 1 :
            (\E i \in DOMAIN ranges : ranges[i].start <= t /\ t < ranges[i].end)
                <=> Contains(periods[Current(t)].members, member)
        /\ \A i \in 1 .. Len(ranges) - 1 : ranges[i].end < ranges[i + 1].start

\* Both ways to make periods of quarters agree: the backtest of the same period has, at each time, the members of the
\* quarter that a rule backtest has, when the forward test recorded the quarters from its start on.
SamePeriodHasTheRuleMembers(quarters, range) ==
    LET rule == RulePeriods(quarters, 9, range)
    IN  rule # <<>> => RecordedPeriods(quarters, range) = rule

\* A list that the routes accept fits the simulated venue: each member once, each symbol once, one currency.
AcceptedListFitsVenue(request, range) ==
    \A periods \in RequestPeriods(request, range, <<>>) :
        /\ periods # <<>>
        /\ \A i \in DOMAIN periods : \A a, b \in DOMAIN periods[i].members :
            /\ a # b => periods[i].members[a].symbol # periods[i].members[b].symbol
            /\ periods[i].members[a].currency = periods[i].members[b].currency

\* A symbol that moved to another exchange is one member: no bar of a membership is lost, none is there two times, each
\* range has its look-back, the opens of the whole range are there, and the member trades on the exchange of its last
\* bar. The start refuses exactly the universe without a bar.
MergedListingsKeepHistory(listings, periods, range, look_back) ==
    LET members == ToSet(MemberListings(listings, periods))
        member == ReadUniverseBars(listings, periods, range, look_back)
        Ranges(listing) == ToSet(MemberRanges(periods, range.end, listing.exchange))
        Times(bars) == {b.start : b \in bars}
        Wanted(from(_), to(_)) ==
            UNION {UNION {Times(BarsIn(listing.saved, from(r), to(r))) : r \in Ranges(listing)} : listing \in members}
        all == UNION {BarsIn(listing.saved, range.start, range.end) : listing \in members}
    IN  /\ Times(member.bars) = Wanted(LAMBDA r : r.start, LAMBDA r : r.end)
        /\ Times(member.look_back) = Wanted(LAMBDA r : r.start - look_back, LAMBDA r : r.start)
        /\ Times(member.open_bars) = Times(all)
        /\ \A bars \in {member.bars, member.look_back, member.open_bars} : Cardinality(bars) = Cardinality(Times(bars))
        /\ all # {} => \E b \in all : b.start = LatestStart(all) /\ b.exchange = member.exchange
        /\ HasUniverseBars(listings, periods, range) <=> member.bars # {}

\* Each forward test that the routes start can be compared with the backtest of its own period: with its start capital,
\* at each later time and with the quarters that it records until then, that backtest is accepted, it has the setup of
\* the forward test, and it starts with the members of the forward test.
StartedForwardTestCompares(request, world, later_quarters) ==
    \A started \in StartForwardTest(request, world), last \in world.now + 1 .. world.now + 4 :
        LET quarters == IF started.universe_kind = "rule" THEN started.quarters \o later_quarters ELSE started.quarters
            row == [started EXCEPT !.start_capital = {1}, !.quarters = quarters]
        IN  /\ SamePeriodBacktest(row, last) # {}
            /\ \A backtest \in SamePeriodBacktest(row, last) :
                /\ IsSameSetup(row, backtest)
                /\ backtest.universe_kind # "single" =>
                    /\ backtest.periods[1] = [start |-> row.created, members |-> row.quarters[1].members]
                    /\ \A i \in DOMAIN backtest.periods : AreUsd(backtest.periods[i].members)
            /\ SamePeriodBacktest(started, last) = {}
            /\ SamePeriodBacktest(row, row.created) = {}

\* A grid that is accepted has each combination of its values one time, at most the limit, none above an end.
GridIsEachCombinationOnce(entries, parameters) ==
    \A grid \in Grid(entries, parameters) :
        LET rows == ToSet(grid)
        IN  /\ Len(grid) <= MaxSweepRuns
            /\ Cardinality(rows) = Len(grid)
            /\ rows = {row \in [DOMAIN entries -> UNION {ToSet(row) : row \in rows}] :
                        \A i \in DOMAIN entries :
                            IF parameters[entries[i].name] = "bool" THEN row[i] \in {0, 1}
                            ELSE /\ row[i] \in entries[i].start .. entries[i].end
                                 /\ (row[i] - entries[i].start) % entries[i].step = 0}

-----------------------------------------------------------------------------
(* The metrics. A trade is a record [time, side, shares, price, commission, *)
(* instrument, kind]. A function that is sorted by time in the code keeps  *)
(* the order of equal times.                                               *)

Sorted(seq, Time(_)) ==
    LET Step(done, x) == SelectSeq(done, LAMBDA y : Time(y) <= Time(x)) \o <<x>>
                         \o SelectSeq(done, LAMBDA y : Time(y) > Time(x))
    IN  FoldLeft(Step, <<>>, seq)
ByTime(trades) == Sorted(trades, LAMBDA trade : trade.time)
SumOver(f(_), seq) == FoldLeft(LAMBDA sum, x : sum + f(x), 0, seq)

Signed(trade) == IF trade.side = "BUY" THEN trade.shares ELSE -trade.shares
Amount(trade) == trade.shares * trade.price
CashChange(trade) == -(Signed(trade) * trade.price) - trade.commission
UpTo(trades, time) == SelectSeq(trades, LAMBDA trade : trade.time <= time)
After(trades, time) == SelectSeq(trades, LAMBDA trade : trade.time > time)
Of(trades, key) == SelectSeq(trades, LAMBDA trade : trade.instrument = key)
Keys(trades) == Distinct([i \in DOMAIN trades |-> trades[i].instrument])

-----------------------------------------------------------------------------
\* The curve of one instrument: bars [end, close]. A trade counts in the first point at or after its time.
SingleEquityCurve(start_cash, bars, trades) ==
    LET Step(walk, bar) ==
            LET counted == UpTo(walk.left, bar.end)
                cash == walk.cash + SumOver(CashChange, counted)
                shares == walk.shares + SumOver(Signed, counted)
            IN  [cash |-> cash, shares |-> shares, left |-> After(walk.left, bar.end),
                 curve |-> Append(walk.curve, [time |-> bar.end, equity |-> cash + shares * bar.close])]
    IN  FoldLeft(Step, [cash |-> start_cash, shares |-> 0, left |-> ByTime(trades), curve |-> <<>>], bars).curve

\* `closes[key][time]` is the close of the bar that ends at `time`. A point is the end of a bar of any instrument.
Points(closes) == SetToSortSeq(UNION {DOMAIN closes[key] : key \in DOMAIN closes}, LAMBDA a, b : a < b)

BookTrade(book, trade) ==
    LET key == trade.instrument
        before == IF key \in DOMAIN book.shares THEN book.shares[key] ELSE 0
    IN  [cash |-> book.cash + CashChange(trade),
         shares |-> (key :> before + Signed(trade)) @@ book.shares,
         prices |-> (key :> trade.price) @@ book.prices]

\* The curve of many instruments. The last price of an instrument is that of its last close or fill; at one point, the
\* close comes after the fills.
EquityCurve(start_cash, closes, trades) ==
    LET Step(walk, time) ==
            LET traded == FoldLeft(BookTrade, walk.book, UpTo(walk.left, time))
                closed == [key \in {k \in DOMAIN closes : time \in DOMAIN closes[k]} |-> closes[key][time]]
                book == [traded EXCEPT !.prices = closed @@ @]
                value == SumOver(LAMBDA key : book.shares[key] * book.prices[key], SetToSeq(DOMAIN book.shares))
            IN  [book |-> book, left |-> After(walk.left, time),
                 curve |-> Append(walk.curve, [time |-> time, equity |-> book.cash + value])]
        nothing == [x \in {} |-> 0]
    IN  FoldLeft(Step, [book |-> [cash |-> start_cash, shares |-> nothing, prices |-> nothing],
                        left |-> ByTime(trades), curve |-> <<>>], Points(closes)).curve

-----------------------------------------------------------------------------
\* The trades of one instrument by time, each with the set of the round trip that it ends, or {}: the fills from a
\* position of 0 back to 0. The entry amount counts the fills on the side of the first fill.
WalkRoundTrips(trades) ==
    LET Step(walk, trade) ==
            LET fills == Append(walk.open, trade)
                entries == SelectSeq(fills, LAMBDA fill : fill.side = fills[1].side)
                trip == [start |-> fills[1].time, end |-> trade.time, profit |-> SumOver(CashChange, fills),
                         entry |-> SumOver(Amount, entries)]
            IN  IF SumOver(Signed, fills) # 0
                THEN [open |-> fills, walked |-> Append(walk.walked, [trade |-> trade, trips |-> <<>>])]
                ELSE [open |-> <<>>, walked |-> Append(walk.walked, [trade |-> trade, trips |-> <<trip>>])]
    IN  FoldLeft(Step, [open |-> <<>>, walked |-> <<>>], ByTime(trades)).walked

InstrumentRoundTrips(trades) == FoldLeft(LAMBDA trips, w : trips \o w.trips, <<>>, WalkRoundTrips(trades))

\* The round trips that ended, of each instrument, by end time.
RoundTrips(trades) ==
    LET keys == Keys(trades)
        found == FoldLeft(LAMBDA trips, key : trips \o InstrumentRoundTrips(Of(trades, key)), <<>>, keys)
    IN  Sorted(found, LAMBDA trip : trip.end)

\* For each point of the curve: whether any instrument has a position. A trade counts as in the curve.
Positions(curve, trades) ==
    LET IsHeld(key, time) == SumOver(Signed, UpTo(Of(trades, key), time)) # 0
    IN  [i \in DOMAIN curve |-> \E key \in ToSet(Keys(trades)) : IsHeld(key, curve[i].time)]

-----------------------------------------------------------------------------
Quotient(a, b) == IF b < 0 THEN <<-a, -b>> ELSE <<a, b>>
IsLess(p, q) == p[1] * q[2] < q[1] * p[2]

\* The peak at each point. The start capital is the first peak.
Peaks(start, curve) ==
    FoldLeft(LAMBDA peaks, point : Append(peaks, LaterOf(Last(peaks), point.equity)), <<start>>, curve)

\* The largest fall from a peak, as a part of the peak. The code divides by the peak, so there is none for a peak of 0.
MaxDrawdown(start, curve) ==
    LET peaks == Peaks(start, curve)
        Fall(i) == Quotient(peaks[i + 1] - curve[i].equity, peaks[i + 1])
        Step(worst, i) == IF IsLess(worst, Fall(i)) THEN Fall(i) ELSE worst
    IN  FoldLeft(Step, <<0, 1>>, [i \in DOMAIN curve |-> i])

\* The change of the last point of each day; two bars make a day. A day after an equity of 0 has no return.
Day(time) == (time + 1) \div 2
DailyReturns(start, curve) ==
    LET lasts == SelectSeq([i \in DOMAIN curve |-> i],
                           LAMBDA i : i = Len(curve) \/ Day(curve[i].time) # Day(curve[i + 1].time))
        Step(walk, i) ==
            LET change == Quotient(curve[i].equity - walk.before, walk.before)
            IN  [before |-> curve[i].equity,
                 returns |-> IF walk.before = 0 THEN walk.returns ELSE Append(walk.returns, change)]
    IN  FoldLeft(Step, [before |-> start, returns |-> <<>>], lasts).returns

ClipToBars(range, first_start, last_end) ==
    [start |-> LaterOf(range.start, first_start), end |-> IF range.end < last_end THEN range.end ELSE last_end]

\* The curve has one point at the end of each bar. A bar is 1 long.
ClipToCurve(range, curve) ==
    IF curve = <<>> THEN range ELSE ClipToBars(range, curve[1].time - 1, Last(curve).time)

\* The range of the saved bars at the start of a backtest, for its split time.
BarRange(range, closes) ==
    LET ends == UNION {DOMAIN closes[key] : key \in DOMAIN closes}
        first == CHOOSE end \in ends : \A other \in ends : end <= other
        last == CHOOSE end \in ends : \A other \in ends : other <= end
    IN  IF ends = {} THEN range ELSE ClipToBars(range, first - 1, last)

-----------------------------------------------------------------------------
(* The metrics of a part of a test: a record of its final equity and of    *)
(* the metrics that have no value.                                         *)

RatioNames == {"annual_volatility_percent", "sharpe_ratio", "sortino_ratio"}
WinNames == {"average_win_usd", "average_win_percent"}
LossNames == {"profit_factor", "average_loss_usd"}
TripNames == {"win_rate_percent"} \cup WinNames \cup LossNames
CagrNames == {"cagr_percent", "calmar_ratio"}
MinLength == 2      \* MIN_CAGR_DAYS

\* The ratios need 2 returns, a deviation, and a return with a loss.
MissingRatios(returns) ==
    IF Len(returns) < 2 THEN RatioNames
    ELSE IF \A i, j \in DOMAIN returns : ~IsLess(returns[i], returns[j]) THEN RatioNames \ {"annual_volatility_percent"}
    ELSE IF \A i \in DOMAIN returns : returns[i][1] >= 0 THEN {"sortino_ratio"}
    ELSE {}

HasNoCagr(final_equity, length) == length < MinLength \/ final_equity <= 0

MissingTrips(trips) ==
    IF trips = <<>> THEN TripNames
    ELSE (IF \A i \in DOMAIN trips : trips[i].profit <= 0 THEN WinNames ELSE {})
         \cup (IF \A i \in DOMAIN trips : trips[i].profit >= 0 THEN LossNames ELSE {})

HasNoTurnover(curve, length) ==
    curve = <<>> \/ length <= 0 \/ SumOver(LAMBDA point : point.equity, curve) <= 0

\* The metrics of a part, or {} where the calculation raises: it divides by the start capital and by each peak, and
\* a change from below 0 to above 0 has no root (the ranges of exactly 1, 1/2, ... years are left out).
PartMetrics(part) ==
    LET final_equity == IF part.curve = <<>> THEN part.start ELSE Last(part.curve).equity
        length == part.range.end - part.range.start
        has_no_cagr == HasNoCagr(final_equity, length)
        has_no_fall == MaxDrawdown(part.start, part.curve)[1] = 0
    IN  IF 0 \in ToSet(Peaks(part.start, part.curve)) \/ (~has_no_cagr /\ part.start < 0) THEN {}
        ELSE {[final_equity |-> final_equity,
               missing |->
                 MissingRatios(DailyReturns(part.start, part.curve))
                 \cup (IF has_no_cagr THEN CagrNames ELSE IF has_no_fall THEN {"calmar_ratio"} ELSE {})
                 \cup MissingTrips(part.trips)
                 \cup (IF part.positions = <<>> THEN {"exposure_percent"} ELSE {})
                 \cup (IF HasNoTurnover(part.curve, length) THEN {"turnover_per_year"} ELSE {})]}

-----------------------------------------------------------------------------
(* The reasons of the response: functions of metric names. They are found  *)
(* from the metrics alone, as for a saved backtest.                        *)

Because(names, reason) == [name \in names |-> reason]

RatioReasons(metrics) ==
    IF "annual_volatility_percent" \in metrics.missing THEN Because(RatioNames, "fewer than 2 daily returns")
    ELSE IF "sharpe_ratio" \in metrics.missing THEN Because({"sharpe_ratio", "sortino_ratio"}, "no deviation")
    ELSE Because(metrics.missing \cap {"sortino_ratio"}, "no daily return with a loss")

CagrReasons(metrics) ==
    IF "cagr_percent" \in metrics.missing
    THEN Because(CagrNames, IF metrics.final_equity <= 0 THEN "final equity not above 0" ELSE "range too short")
    ELSE Because(metrics.missing \cap {"calmar_ratio"}, "no drawdown")

RoundTripReasons(metrics) ==
    IF "win_rate_percent" \in metrics.missing THEN Because(TripNames, "no round trips")
    ELSE Because(IF "average_win_usd" \in metrics.missing THEN WinNames ELSE {}, "no round trip with a profit")
         @@ Because(IF "profit_factor" \in metrics.missing THEN LossNames ELSE {}, "no round trip with a loss")

MissingReasons(metrics) ==
    IF "exposure_percent" \in metrics.missing THEN Because(metrics.missing, "not calculated")
    ELSE RatioReasons(metrics) @@ CagrReasons(metrics) @@ RoundTripReasons(metrics)
         @@ Because(metrics.missing \cap {"turnover_per_year"}, "mean equity not above 0 or no length")

-----------------------------------------------------------------------------
FullTest(start, range, curve, trades) ==
    [start |-> start, range |-> range, curve |-> curve, trades |-> trades,
     trips |-> RoundTrips(trades), positions |-> Positions(curve, trades)]

\* The start of the last `share` percent of a range. A share of 0 makes no parts.
SplitTime(range, share) ==
    IF share = 0 THEN {} ELSE {range.start + ((range.end - range.start) * (100 - share)) \div 100}

\* Mutation: a round trip is in the part where it starts.
InSampleByStart(test, split) ==
    LET count == Len(SelectSeq(test.curve, LAMBDA point : point.time <= split))
    IN  [start |-> test.start,
         range |-> [start |-> test.range.start, end |-> split],
         curve |-> SubSeq(test.curve, 1, count),
         trades |-> UpTo(test.trades, split),
         trips |-> SelectSeq(test.trips, LAMBDA trip : trip.start <= split),
         positions |-> SubSeq(test.positions, 1, count)]

\* A point or a fill at the split time is in sample; a round trip is in the part where it ends. The out-of-sample part
\* starts with the equity of the last in-sample point and with the open position.
InSample(test, split) ==
    LET count == Len(SelectSeq(test.curve, LAMBDA point : point.time <= split))
    IN  [start |-> test.start,
         range |-> [start |-> test.range.start, end |-> split],
         curve |-> SubSeq(test.curve, 1, count),
         trades |-> UpTo(test.trades, split),
         trips |-> SelectSeq(test.trips, LAMBDA trip : trip.end <= split),
         positions |-> SubSeq(test.positions, 1, count)]

OutOfSample(test, split) ==
    LET count == Len(SelectSeq(test.curve, LAMBDA point : point.time <= split))
    IN  [start |-> IF count = 0 THEN test.start ELSE test.curve[count].equity,
         range |-> [start |-> split, end |-> test.range.end],
         curve |-> SubSeq(test.curve, count + 1, Len(test.curve)),
         trades |-> After(test.trades, split),
         trips |-> SelectSeq(test.trips, LAMBDA trip : trip.end > split),
         positions |-> SubSeq(test.positions, count + 1, Len(test.positions))]

-----------------------------------------------------------------------------
(* The comparison of a forward test with a backtest of its period. The     *)
(* ledger rows of a forward test are its trades: a stock split is one of   *)
(* the kind "split_adjustment", with the price 0 and with the cash in lieu *)
(* as a negative commission.                                               *)

LedgerTrade(fill) ==
    LET is_split == fill.kind = "split_adjustment"
    IN  [time |-> fill.time, instrument |-> fill.instrument, kind |-> fill.kind,
         side |-> IF fill.change > 0 THEN "BUY" ELSE "SELL",
         shares |-> IF fill.change > 0 THEN fill.change ELSE -fill.change,
         price |-> IF is_split THEN 0 ELSE fill.price,
         commission |-> IF is_split THEN -fill.cash_change ELSE fill.commission,
         cash_in_lieu |-> IF is_split THEN fill.cash_change ELSE 0]

\* The trade count has the fills only. Without a start capital there are no metrics.
ForwardTestMetrics(start_capitals, range, curve, trades) ==
    {[trade_count |-> Len(SelectSeq(trades, LAMBDA trade : trade.kind = "fill"))] @@ metrics :
        metrics \in UNION {PartMetrics(FullTest(capital, range, curve, trades)) : capital \in start_capitals}}

\* For each trade, the profit of the round trip that it ends, as a set: the walk finds each trade again by identity.
NetProfits(trades) ==
    LET Numbered == [i \in DOMAIN trades |-> [number |-> i] @@ trades[i]]
        Step(walked, key) == walked \cup ToSet(WalkRoundTrips(Of(Numbered, key)))
        ended == {w \in FoldLeft(Step, {}, Keys(trades)) : w.trips # <<>>}
    IN  [i \in DOMAIN trades |-> {w.trips[1].profit : w \in {v \in ended : v.trade.number = i}}]

\* A row of the fill list: the amount of a stock split is its cash in lieu.
FillRow(trade) ==
    IF trade.kind = "split_adjustment" THEN [amount |-> trade.cash_in_lieu, commission |-> 0]
    ELSE [amount |-> Amount(trade), commission |-> trade.commission]

\* The Instruments tab: a row for each member, from the number of its periods. The trade count of a forward test has
\* the fills only.
InstrumentRow(trades, period_counts, key) ==
    [trade_count |-> Len(SelectSeq(Of(trades, key), LAMBDA trade : trade.kind = "fill")),
     net_profit |-> SumOver(LAMBDA trip : trip.profit, RoundTrips(Of(trades, key))),
     period_count |-> period_counts[key]]

\* The metrics of the comparison: the win rate is that of the round trips whose fills are all in the backtest period.
TripsInPeriod(trades, period) ==
    SelectSeq(RoundTrips(trades), LAMBDA trip : period.start <= trip.start /\ trip.end <= period.end)

LimitWinRate(metrics, trades, period) ==
    LET win_rate == {"win_rate_percent"}
        is_missing == "win_rate_percent" \in MissingTrips(TripsInPeriod(trades, period))
    IN  [metrics |-> [metrics EXCEPT !.missing = IF is_missing THEN @ \cup win_rate ELSE @ \ win_rate],
         extra_reasons |-> Because(IF is_missing THEN win_rate ELSE {}, "no round trips in the period")]

\* Only a metric without a value has a reason in the response.
ResponseReasons(metrics, extra_reasons) ==
    LET reasons == extra_reasons @@ MissingReasons(metrics)
    IN  [name \in DOMAIN reasons \cap metrics.missing |-> reasons[name]]

\* The fill table. The bar end of a fill is the last one at or before it, and the first one for an earlier fill.
BarEndOf(ends, time) ==
    LET before == SelectSeq(ends, LAMBDA end : end <= time)
    IN  IF before # <<>> THEN Last(before) ELSE IF ends # <<>> THEN ends[1] ELSE time

\* The shares and the amount of the fills of each bar, side and instrument.
GroupFills(trades, ends) ==
    LET Key(trade) == <<BarEndOf(ends, trade.time), trade.side, trade.instrument>>
        Group(key) == SelectSeq(trades, LAMBDA trade : Key(trade) = key)
    IN  [key \in {Key(trades[i]) : i \in DOMAIN trades} |->
            [shares |-> SumOver(LAMBDA trade : trade.shares, Group(key)), amount |-> SumOver(Amount, Group(key))]]

\* A row for each bar, side and instrument with a fill of the forward test or of the backtest.
CompareFills(forward_test_fills, backtest_fills, curves) ==
    LET times == UNION {{point.time : point \in ToSet(curve)} : curve \in curves}
        ends == SetToSortSeq(times, LAMBDA a, b : a < b)
        forward_test == GroupFills(forward_test_fills, ends)
        backtest == GroupFills(backtest_fills, ends)
        In(groups, key) == IF key \in DOMAIN groups THEN {groups[key]} ELSE {}
    IN  [key \in DOMAIN forward_test \cup DOMAIN backtest |->
            [forward_test |-> In(forward_test, key), backtest |-> In(backtest, key)]]

-----------------------------------------------------------------------------
\* What the parts of a test promise together. The round trips explain the equity: where no instrument has a position,
\* the equity is the capital plus the profits of the round trips that ended until then.
RoundTripsExplainEquity(test) ==
    \A i \in DOMAIN test.curve :
        ~test.positions[i] =>
            test.curve[i].equity =
                test.start + SumOver(LAMBDA trip : trip.profit,
                                     SelectSeq(test.trips, LAMBDA trip : trip.end <= test.curve[i].time))

\* A test of one instrument has the same curve with the function for many instruments.
OneInstrumentHasOneCurve(test, closes) ==
    LET ends == Points(closes)
        bars(key) == [i \in DOMAIN ends |-> [end |-> ends[i], close |-> closes[key][ends[i]]]]
    IN  \A key \in DOMAIN closes :
            DOMAIN closes[key] = ToSet(ends) /\ ToSet(Keys(test.trades)) \subseteq {key} =>
                SingleEquityCurve(test.start, bars(key), test.trades) = test.curve

\* The two parts have every point, fill and round trip once, and the second starts where the first ends.
PartsMakeTheTest(test, split) ==
    LET in == InSample(test, split)
        out == OutOfSample(test, split)
        FinalEquity(part) == IF part.curve = <<>> THEN part.start ELSE Last(part.curve).equity
    IN  /\ in.curve \o out.curve = test.curve
        /\ in.positions \o out.positions = test.positions
        /\ in.trips \o out.trips = test.trips
        /\ SumOver(Amount, in.trades) + SumOver(Amount, out.trades) = SumOver(Amount, test.trades)
        /\ out.start = FinalEquity(in)
        /\ FinalEquity(out) = FinalEquity(test)

\* A reason that the response gives is true of the part.
IsTrueOf(reason, part) ==
    CASE reason = "final equity not above 0" -> part.curve # <<>> /\ Last(part.curve).equity <= 0
      [] reason = "range too short" -> part.range.end - part.range.start < MinLength
      [] reason = "no drawdown" -> \A i \in DOMAIN part.curve : part.curve[i].equity >= part.start
      [] reason = "no round trip with a profit" -> part.trips # <<>>
      [] reason = "no round trips" -> part.trips = <<>>
      [] OTHER -> TRUE

\* Each metric without a value has a reason, no other metric has one, and the reason is true.
EachMissingHasReason(part) ==
    \A metrics \in PartMetrics(part) :
        /\ DOMAIN MissingReasons(metrics) = metrics.missing
        /\ \A name \in metrics.missing : IsTrueOf(MissingReasons(metrics)[name], part)

\* The comparison and the tables of a forward test agree with its metrics: each reason of the comparison is of a metric
\* without a value, the fills of the rows of the instruments are those of the metrics, a round trip has its profit at
\* the fill that ends it and in the row of its instrument, the amounts of the fill list are the changes of the cash, and
\* each fill is in one row of the fill table, at a bar.
ComparisonIsWhole(test, backtest_fills, period) ==
    LET profits == NetProfits(test.trades)
        keys == Keys(test.trades)
        fills == SelectSeq(test.trades, LAMBDA trade : trade.kind = "fill")
        rows == CompareFills(fills, backtest_fills, {test.curve})
        Shares(sums) == SumOver(LAMBDA key : SumOver(LAMBDA t : t.shares, SetToSeq(sums[key])), SetToSeq(DOMAIN rows))
        Row(key) == InstrumentRow(test.trades, [k \in {key} |-> 1], key)
    IN  /\ \A metrics \in ForwardTestMetrics({test.start}, test.range, test.curve, test.trades) :
            LET limited == LimitWinRate(metrics, test.trades, period)
            IN  /\ DOMAIN ResponseReasons(limited.metrics, limited.extra_reasons) = limited.metrics.missing
                /\ metrics.trade_count = SumOver(LAMBDA key : Row(key).trade_count, keys)
        /\ \A key \in ToSet(keys) :
            Row(key).net_profit =
                SumOver(LAMBDA i : SumOver(LAMBDA p : p, SetToSeq(profits[i])),
                        SelectSeq([i \in DOMAIN profits |-> i], LAMBDA i : test.trades[i].instrument = key))
        /\ \A i \in DOMAIN test.trades :
            LET trade == test.trades[i]
                row == FillRow(trade)
            IN  CashChange(trade) = (IF trade.kind = "fill" /\ trade.side = "BUY" THEN -row.amount ELSE row.amount)
                                    - row.commission
        /\ SumOver(LAMBDA t : t.shares, fills) = Shares([k \in DOMAIN rows |-> rows[k].forward_test])
        /\ SumOver(LAMBDA t : t.shares, backtest_fills) = Shares([k \in DOMAIN rows |-> rows[k].backtest])
        /\ \A key \in DOMAIN rows : test.curve # <<>> => \E i \in DOMAIN test.curve : test.curve[i].time = key[1]
-----------------------------------------------------------------------------
(* The data of one engine run, and what is read after it. An event is a    *)
(* record [kind, time, of]; a day has ten units of time. `of` is the       *)
(* exchange of a member, or the set of the members of an update.           *)

DayUnits == 10
BarSequence(bars) == SetToSortSeq(bars, LAMBDA a, b : a.start < b.start)

\* A member without a bar and without a look-back bar is not in the run.
EngineMembers(members) == SelectSeq(members, LAMBDA m : m.bars \cup m.look_back # {})

BarEvents(member) ==
    LET bars == BarSequence(member.bars)
    IN  [i \in DOMAIN bars |-> [kind |-> "bar", time |-> DayUnits * (bars[i].start + 1), of |-> member.exchange]]

\* An update for each period, with each member once.
UniverseUpdates(periods) ==
    [i \in DOMAIN periods |->
        [kind |-> "update", time |-> DayUnits * periods[i].start, of |-> ToSet(periods[i].members)]]

\* A tick a little after each open.
OpenTicks(member) ==
    LET bars == BarSequence(member.open_bars)
    IN  [i \in DOMAIN bars |-> [kind |-> "open", time |-> DayUnits * bars[i].start + 1, of |-> member.exchange]]

\* A tick just before the end of the last bar.
LastCloseTick(member) ==
    IF member.open_bars = {} THEN <<>>
    ELSE <<[kind |-> "close", time |-> DayUnits * (LatestStart(member.open_bars) + 1) - 1, of |-> member.exchange]>>

EachOf(Events(_), members) == FlattenSeq([i \in DOMAIN members |-> Events(members[i])])

\* The engine takes its data in the order of the times, and data of one time in the order in which it was added: the
\* ticks come last.
RunEngine(data, members) ==
    Sorted(data \o EachOf(OpenTicks, members) \o EachOf(LastCloseTick, members), LAMBDA event : event.time)

EngineEvents(members, periods) ==
    LET run == EngineMembers(members)
    IN  RunEngine(EachOf(BarEvents, run) \o UniverseUpdates(periods), run)

\* A run of one instrument has no update, and its opens are those of its bars.
SingleEngineEvents(member) ==
    RunEngine(BarEvents(member), <<[member EXCEPT !.open_bars = member.bars]>>)

\* The fills of all orders [of, fills], oldest first, each at the exchange of its symbol.
ReadTrades(orders, exchanges) ==
    Sorted(FlattenSeq([i \in DOMAIN orders |->
                [f \in DOMAIN orders[i].fills |-> [time |-> orders[i].fills[f], exchange |-> exchanges[orders[i].of]]]]),
           LAMBDA trade : trade.time)

\* The warning of a run: the number of the changed orders, and the time of the first of them.
FillWarning(changed) ==
    IF changed = <<>> THEN {}
    ELSE {[count |-> Len(changed),
           earliest |-> CHOOSE t \in ToSet(changed) : \A u \in ToSet(changed) : t <= u]}

\* A strategy trades the members of a period from its start on: the bar that closes at the start is before the list of
\* the period, and no open of the period is before it. An order that waits for an open has left before the next bar of
\* its instrument, because each bar follows its own open; the last price that an order without an open can have is the
\* last close. No bar of a member is left out, and the trades are in the order of the ticks that filled them.
EngineSeesThePeriodFirst(members, events) ==
    LET Is(i, kind, exchange) == events[i].kind = kind /\ events[i].of = exchange
        orders == [m \in DOMAIN members |->
                    [of |-> members[m].exchange,
                     fills |-> LET ticks == SelectSeq(events, LAMBDA e : e.kind = "open" /\ e.of = members[m].exchange)
                               IN  [t \in DOMAIN ticks |-> ticks[t].time]]]
        trades == ReadTrades(orders, [e \in {members[m].exchange : m \in DOMAIN members} |-> e])
        filled == SelectSeq(events, LAMBDA e : e.kind = "open")
    IN  /\ \A i, j \in DOMAIN events :
            events[i].kind = "update" =>
                /\ events[j].kind = "bar" => (j < i <=> events[j].time <= events[i].time)
                /\ events[j].kind = "open" => (j < i <=> events[j].time < events[i].time)
        /\ \A m \in DOMAIN members : \A b \in members[m].bars :
            \E i \in DOMAIN events :
                Is(i, "bar", members[m].exchange) /\ events[i].time = DayUnits * (b.start + 1)
        /\ \A i \in DOMAIN events :
            /\ events[i].kind = "bar" =>
                \E j \in DOMAIN events :
                    j < i /\ Is(j, "open", events[i].of) /\ events[i].time - events[j].time = DayUnits - 1
            /\ events[i].kind = "close" =>
                \A j \in DOMAIN events :
                    /\ Is(j, "open", events[i].of) => j < i
                    /\ Is(j, "bar", events[i].of) => (i < j <=> events[j].time >= events[i].time)
        /\ [t \in DOMAIN trades |-> <<trades[t].time, {trades[t].exchange}>>]
            = [t \in DOMAIN filled |-> <<filled[t].time, {filled[t].of}>>]
        /\ \A warning \in FillWarning([t \in DOMAIN filled |-> filled[Len(filled) + 1 - t].time]) :
            warning = [count |-> Len(trades), earliest |-> trades[1].time]
=============================================================================
