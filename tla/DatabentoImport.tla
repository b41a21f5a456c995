---------------------------- MODULE DatabentoImport ----------------------------
(***************************************************************************)
(* The calculations of the Databento import: the exchange and the symbol   *)
(* of each bar (databento_import_sql.py, databento_import_adjustment.py),  *)
(* the hourly bars that a user buys for the members of a quarter           *)
(* (databento_hourly.py), the stock splits in the prices                   *)
(* (stock_split_detection.py, ibkr_split_report.py), and the trading days  *)
(* of a quarter (us_trading_days.py, us_universe.py).                      *)
(*                                                                         *)
(* A day is a number. A bar record has the ticker of its day; its open is  *)
(* the close of the day before, when nothing else is said. `company` is    *)
(* only for the properties: no code reads it.                              *)
(***************************************************************************)
EXTENDS Integers, Sequences, FiniteSets, SequencesExt, FiniteSetsExt

SummaryStart == 6       \* 2024-07-01: Databento then sells bars without an exchange, and a link moves no bar
QuarterDays == 2
StepWindowDays == 5     \* 10 in the code
WindowTradingDays == 3  \* 63 in the code
WindowCalendarDays == 5 \* 100 in the code

Near(a, b, percent) == b > 0 /\ 100 * (a - b) <= percent * b /\ 100 * (b - a) <= percent * b

-----------------------------------------------------------------------------
(* The symbols and the exchanges of one import. `db` is what is stored:    *)
(* its daily bars, and its symbol links <<old, new, exchange, day>>.       *)

FirstOf(bars, symbol) == CHOOSE b \in bars : b.symbol = symbol /\ \A c \in bars : c.symbol = symbol => b.day <= c.day
LastOf(bars, symbol) == CHOOSE b \in bars : b.symbol = symbol /\ \A c \in bars : c.symbol = symbol => c.day <= b.day
SymbolsOf(bars) == {b.symbol : b \in bars}

\* Pairs of the last bar of an old symbol and the first bar of a new one on the next trading day of the import, with
\* about the same price.
Candidates(bars) ==
    LET days == {b.day : b \in bars}
        IsNextDay(d, e) == d < e /\ ~\E f \in days : d < f /\ f < e
    IN {<<last, first>> \in {<<LastOf(bars, old), FirstOf(bars, new)>> : old, new \in SymbolsOf(bars)} :
            last.symbol # first.symbol /\ IsNextDay(last.day, first.day) /\ Near(first.price, last.price, 1)}
\* A symbol with more than one candidate has none.
Unique(candidates) ==
    {c \in candidates : ~\E d \in candidates \ {c} : c[1].symbol = d[1].symbol \/ c[2].symbol = d[2].symbol}

\* The bars of the history files have the exchange of their official close.
HistoryBars(records) == {r \in records : r.day < SummaryStart}

\* A summary bar has the exchange of the last earlier bar of its symbol, or of the symbol that it follows.
SummaryListing(summary, earlier) ==
    LET renames == {c \in Candidates(summary) :
                        c[1].symbol \in SymbolsOf(earlier) /\ c[2].symbol \notin SymbolsOf(earlier)}
    IN [symbol \in SymbolsOf(earlier) \cup {c[2].symbol : c \in Unique(renames)} |->
            IF symbol \in SymbolsOf(earlier) THEN LastOf(earlier, symbol).exchange
            ELSE LastOf(earlier, (CHOOSE c \in Unique(renames) : c[2].symbol = symbol)[1].symbol).exchange]

SummaryBars(records, db) ==
    LET summary == {r \in records : r.day >= SummaryStart}
        start == Min({r.day : r \in summary})
        listing == SummaryListing(summary, {b \in db.bars \cup HistoryBars(records) : b.day < start})
    IN IF summary = {} THEN {}
       ELSE {[r EXCEPT !.exchange = listing[r.symbol]] : r \in {r \in summary : r.symbol \in DOMAIN listing}}

\* The days of the import are those of all its bars; the two bars of a link have the same exchange.
SymbolLinks(bars, db) ==
    LET links == {c \in Candidates(bars) : c[1].exchange = c[2].exchange}
        IsMoved(c) == c[2].day < SummaryStart
        IsProved(c) == ~(c[2].price \in 9 .. 11) /\ c[1].volume <= 3 * c[2].volume /\ c[2].volume <= 3 * c[1].volume
        LinkOf(c) == <<c[1].symbol, c[2].symbol, c[2].exchange, c[2].day>>
    IN {LinkOf(c) : c \in {c \in Unique(links) :
            \/ LinkOf(c) \in db.links
            \/ /\ IsProved(c) \/ ~IsMoved(c)
               /\ ~\E older \in db.bars :
                    older.symbol = c[2].symbol /\ older.exchange = c[2].exchange /\ older.day < c[2].day}}

ByDay(links) == SetToSortSeq(links, LAMBDA k, l : k[4] < l[4])
MoveToNewSymbol(bars, link) ==
    IF link[4] < SummaryStart
    THEN {IF b.symbol = link[1] /\ b.exchange = link[3] /\ b.day < link[4] THEN [b EXCEPT !.symbol = link[2]] ELSE b :
            b \in bars}
    ELSE bars
LinkSymbols(bars, links) == FoldLeft(MoveToNewSymbol, bars, ByDay(links))

SaveBars(bars, stored) ==
    bars \cup {b \in stored : ~\E c \in bars : c.symbol = b.symbol /\ c.exchange = b.exchange /\ c.day = b.day}

SaveLinked(bars, links, db) ==
    [bars |-> SaveBars(LinkSymbols(bars, links), db.bars), links |-> db.links \cup links]
Import(records, db) ==
    LET bars == HistoryBars(records) \cup SummaryBars(records, db) IN SaveLinked(bars, SymbolLinks(bars, db), db)

-----------------------------------------------------------------------------
(* The hourly bars of the members of each quarter.                         *)

QuarterOf(day) == day - ((day - 1) % QuarterDays)
AddQuarter(day) == QuarterOf(day) + QuarterDays
\* The members rank by the bars before the quarter.
MembersOf(db, start) == {b.symbol : b \in {b \in db.bars : b.day = start - 1}}

\* The old symbols of a member, each with its change day: the recursive query follows the links back in time.
OldSymbols(db, symbol) ==
    LET moved == {l \in db.links : l[4] < SummaryStart}
        Back(found) == found \cup {l \in moved : l[2] = symbol \/ \E f \in found : f[1] = l[2]}
    IN FoldLeft(LAMBDA found, n : Back(found), {}, [n \in 1 .. Cardinality(moved) |-> n])

PurchaseSymbols(db, start) ==
    LET members == MembersOf(db, start)
    IN members \cup {l[1] : l \in {l \in UNION {OldSymbols(db, m) : m \in members} : l[4] > start}}
HourlyPurchase(db, start, end_day) ==
    [start |-> start, end |-> Min({AddQuarter(start), end_day}), symbols |-> PurchaseSymbols(db, start)]

\* The symbol of an hourly record after each link that moved bars, in the order of the days.
MoveHourly(db, symbol, day) ==
    FoldLeft(LAMBDA s, l : IF s = l[1] /\ day < l[4] THEN l[2] ELSE s, symbol,
             ByDay({l \in db.links : l[4] < SummaryStart}))

\* The bars to save: in the regular hours of a member of the quarter, on a day with a daily bar.
HourlyBars(db, records) ==
    {[symbol |-> MoveHourly(db, r.symbol, r.day), day |-> r.day] :
        r \in {r \in records : LET symbol == MoveHourly(db, r.symbol, r.day)
                               IN symbol \in MembersOf(db, QuarterOf(r.day))
                                  /\ \E b \in db.bars : b.symbol = symbol /\ b.day = r.day}}
HourlySavedRanges(bars, range) ==
    {[symbol |-> b.symbol, start |-> Max({QuarterOf(b.day), range.start}),
      end |-> Min({AddQuarter(b.day), range.end})] : b \in bars}

-----------------------------------------------------------------------------
(* The stock splits in the prices. A ratio is <<numerator, denominator>>;  *)
(* the close ratio of a day is in thousandths.                             *)

Times(ratio, n) == (n * ratio[1]) \div ratio[2]
Reciprocal(ratio) == <<ratio[2], ratio[1]>>
CommonSplitRatios ==
    {<<3, 2>>} \cup {<<n, 1>> : n \in {2, 3, 4, 5, 10}} \cup {<<1, n>> : n \in {2, 3, 4, 5, 10, 20}}
StepSplitFractions == <<<<3, 2>>, <<4, 3>>, <<5, 4>>, <<5, 2>>, <<5, 3>>>>

\* a / b is near the ratio.
IsNear(a, b, ratio, percent) == Near(a * ratio[2], b * ratio[1], percent)

\* `adjacent`: the pairs of days of which the second one follows the first one.
FindSplitsByDetectionRule(prices, adjacent) ==
    {[day |-> prices[i + 1].day, ratio |-> ratio] : <<i, ratio>> \in
        {<<i, ratio>> \in (1 .. Len(prices) - 1) \X CommonSplitRatios :
            /\ prices[i + 1].open > 0
            /\ <<prices[i].day, prices[i + 1].day>> \in adjacent
            /\ IsNear(prices[i].close, prices[i + 1].open, ratio, 3)
            /\ prices[i + 1].volume > prices[i].volume <=> ratio[1] > ratio[2]}}

FindStepSplitRatio(before, after) ==
    LET high == Max({before, after})
        low == Min({before, after})
        candidates == <<<<(2 * high + low) \div (2 * low), 1>>>> \o StepSplitFractions
        near == {i \in DOMAIN candidates : candidates[i][1] > candidates[i][2] /\ IsNear(high, low, candidates[i], 4)}
    IN IF near = {} THEN {}
       ELSE {IF before >= after THEN candidates[Min(near)] ELSE Reciprocal(candidates[Min(near)])}

Median(values) ==
    LET sorted == SortSeq(values, <)
        half == Len(values) \div 2
    IN IF Len(values) % 2 = 1 THEN sorted[half + 1] ELSE (sorted[half] + sorted[half + 1]) \div 2
IsFlat(ratios) ==
    5 * Cardinality({i \in DOMAIN ratios : Near(ratios[i], Median(ratios), 3)}) >= 4 * Len(ratios)

\* The change of the ratio at i is larger than at j.
ChangesMore(ratios, i, j) ==
    LET High(k) == Max({ratios[k - 1], ratios[k]})
        Low(k) == Min({ratios[k - 1], ratios[k]})
    IN High(i) * Low(j) > High(j) * Low(i)

\* The split at the step of day i, or none: the largest change of the days around it, between two flat windows.
StepAt(ratios, i) ==
    LET nearby == Max({2, i - StepWindowDays + 1}) .. Min({i + StepWindowDays - 1, Len(ratios)})
        before == SubSeq(ratios, Max({1, i - StepWindowDays}), i - 1)
        after == SubSeq(ratios, i, Min({i + StepWindowDays - 1, Len(ratios)}))
    IN IF /\ ~Near(ratios[i], ratios[i - 1], 3)
          /\ \A j \in nearby : ~ChangesMore(ratios, j, i) /\ (j < i => ChangesMore(ratios, i, j))
          /\ IsFlat(before) /\ IsFlat(after)
       THEN FindStepSplitRatio(Median(before), Median(after))
       ELSE {}

\* `ibkr` has the closes by day. The days after a step hold the new ratio: they are not a second step.
AddStep(found, overlap, steps, i) ==
    IF steps = {} THEN found
    ELSE [splits |-> found.splits \cup {[day |-> overlap[i].day, ratio |-> r] : r \in steps},
          next |-> i + StepWindowDays]
FindSplitsFromIbkrCloses(prices, ibkr) ==
    LET overlap == SelectSeq(prices, LAMBDA p : p.day \in DOMAIN ibkr /\ p.close > 0)
        ratios == [i \in DOMAIN overlap |-> (overlap[i].close * 1000) \div ibkr[overlap[i].day]]
        Step(found, i) ==
            IF i < found.next THEN found ELSE AddStep(found, overlap, StepAt(ratios, i), i)
    IN FoldLeft(Step, [splits |-> {}, next |-> 2], [i \in 1 .. Len(overlap) - 1 |-> i + 1]).splits

\* close / open is within 20% of the ratio, and nearer to it than to 1.
HasPriceGap(prices, split) ==
    \E i \in 2 .. Len(prices) :
        /\ prices[i].day = split.day
        /\ LET a == prices[i - 1].close * split.ratio[2]
               b == prices[i].open * split.ratio[1]
               high == Max({a, b})
               low == Min({a, b})
               wide == Max({split.ratio[1], split.ratio[2]})
               narrow == Min({split.ratio[1], split.ratio[2]})
           IN low > 0 /\ high * 10 <= low * 12 /\ high * high * narrow <= low * low * wide

Divide(prices, splits) ==
    [i \in DOMAIN prices |->
        LET later == SetToSeq({s \in splits : prices[i].day < s.day})
            Price(p) == FoldLeft(LAMBDA x, s : Times(Reciprocal(s.ratio), x), p, later)
        IN [prices[i] EXCEPT !.open = Price(@), !.close = Price(@),
                             !.volume = FoldLeft(LAMBDA x, s : Times(s.ratio, x), @, later)]]
RemoveAppliedSplits(prices, splits) == Divide(prices, {[s EXCEPT !.ratio = Reciprocal(@)] : s \in splits})

IsSameSplit(s, t) == s.day - t.day \in -5 .. 5 /\ IsNear(s.ratio[1] * t.ratio[2], s.ratio[2] * t.ratio[1], <<1, 1>>, 4)

\* The report step: the known splits with closes on each side that the rule finds, and misses.
CompareSplits(found, known, days) ==
    LET counted == {k \in known : days # {} /\ Min(days) < k.day /\ k.day <= Max(days)}
        Match(report, k) ==
            LET same == {f \in report.other : IsSameSplit(f, k)}
            IN IF same = {} THEN [report EXCEPT !.missed = @ \cup {k}]
               ELSE [report EXCEPT !.other = @ \ {CHOOSE f \in same : \A g \in same : f.day <= g.day}]
    IN FoldSet(LAMBDA k, report : Match(report, k), [other |-> found, missed |-> {}], counted)
ReportInstrument(prices, applied, known, ibkr) ==
    LET raw == RemoveAppliedSplits(prices, applied)
    IN CompareSplits(FindSplitsFromIbkrCloses(raw, ibkr), known,
                     {raw[i].day : i \in {i \in DOMAIN raw : raw[i].day \in DOMAIN ibkr}})

-----------------------------------------------------------------------------
(* The trading days at the edges of a quarter. Day 0 is 1 March of the     *)
(* year 0, a Wednesday.                                                    *)

Date(year, month, day) ==
    LET y == IF month <= 2 THEN year - 1 ELSE year
        m == (month + 9) % 12
    IN 365 * y + y \div 4 - y \div 100 + y \div 400 + (306 * m + 5) \div 10 + day - 1
Weekday(day) == (day + 2) % 7       \* 0 is Monday

FindEasterSunday(year) ==
    LET golden == year % 19
        century == year \div 100
        correction == (century + 8) \div 25
        moon_correction == (century - correction + 1) \div 3
        epact == (19 * golden + century - century \div 4 - moon_correction + 15) % 30
        weekday_offset == (32 + 2 * (century % 4) + 2 * ((year % 100) \div 4) - epact - ((year % 100) % 4)) % 7
        month_offset == (golden + 11 * epact + 22 * weekday_offset) \div 451
        sum == epact + weekday_offset - 7 * month_offset + 114
    IN Date(year, sum \div 31, (sum % 31) + 1)

IsQuarterEdgeHoliday(year, day) ==
    LET new_years_day == Date(year, 1, 1)
    IN day \in {IF Weekday(new_years_day) = 6 THEN new_years_day + 1 ELSE new_years_day, FindEasterSunday(year) - 2}
IsTradingDay(year, day) == Weekday(day) < 5 /\ ~IsQuarterEdgeHoliday(year, day)

FindFirstTradingDayOfQuarter(year, month) ==
    LET first == Date(year, month, 1) IN Min({d \in first .. first + 6 : IsTradingDay(year, d)})
FindPreviousTradingDay(year, month, day) ==
    LET YearOf(d) == IF d < Date(year, 1, 1) THEN year - 1 ELSE year
    IN Max({d \in day - 6 .. day - 1 : IsTradingDay(YearOf(d), d)})

\* The ranking window: the last days with bars, not later than the last ranking day.
ReadWindowDays(days, last) ==
    LET earlier == {d \in days : d <= last}
    IN [i \in 1 .. Min({Cardinality(earlier), WindowTradingDays}) |->
            CHOOSE d \in earlier : Cardinality({e \in earlier : e > d}) = i - 1]
HasRankingWindow(days, last) ==
    LET window == ReadWindowDays(days, last)
    IN Len(window) = WindowTradingDays /\ window[1] = last /\ window[WindowTradingDays] >= last - WindowCalendarDays
\* The ranked days, or nothing: an error.
InsertMembers(days, last) ==
    LET window == ReadWindowDays(days, last)
    IN IF Len(window) < WindowTradingDays THEN {}
       ELSE IF window[WindowTradingDays] < last - WindowCalendarDays THEN {}
       ELSE {window}

-----------------------------------------------------------------------------
NoBars == [bars |-> {}, links |-> {}]
DaysOf(records, company) == {r.day : r \in {r \in records : r.company = company}}
TickersOf(records, company) == {r.symbol : r \in {r \in records : r.company = company}}
LastTicker(records, company) ==
    (CHOOSE r \in records : r.company = company /\ r.day = Max(DaysOf(records, company))).symbol
\* No import ended between two tickers of a company.
HasAllTickers(records, company, last_day) ==
    LET first == {r \in records : r.company = company /\ r.day <= last_day}
    IN first = {} \/ TickersOf(first, company) = TickersOf(records, company)

\* Two imports of the same files, the first perhaps of fewer days: a symbol never gets the bars of two companies, each
\* bar has the exchange of its company, a further import changes nothing, and a company that changed its ticker before
\* the summary files, with a price that no other company has and that is no first price of a new company, has its whole
\* history under its last ticker.
TwoImports(records, last_day) == Import(records, Import({r \in records : r.day <= last_day}, NoBars))
IsWholeHistory(db, records, last_day) ==
    LET companies == {r.company : r \in records}
    IN /\ Import(records, db) = db
       /\ \A b, c \in db.bars : b.symbol = c.symbol => b.company = c.company
       /\ \A b \in db.bars, r \in records : b.company = r.company => b.exchange = r.home
       /\ \A company \in companies :
            LET own == {r \in records : r.company = company}
            IN  /\ HasAllTickers(records, company, last_day)
                /\ \A r \in own : ~(r.price \in 9 .. 11) /\ \A q \in records \ own : r.price # q.price
                /\ TickersOf({r \in own : r.day >= SummaryStart - 1}, company) \subseteq {LastTicker(records, company)}
                => \A b \in db.bars : b.company = company => b.symbol = LastTicker(records, company)
HistoriesAreWhole(records, last_day) == IsWholeHistory(TwoImports(records, last_day), records, last_day)

\* Each daily bar of a member in its quarter has its hourly bars: they are bought under the ticker of that day, they
\* land on the member, and the saved range of the hourly bars has the day.
Bought(records, purchase) ==
    {r \in records : r.symbol \in purchase.symbols /\ purchase.start <= r.day /\ r.day < purchase.end}
HaveHours(db, records, last_day, starts, range, hours) ==
    \A start \in starts : \A b \in db.bars :
        /\ b.symbol \in MembersOf(db, start) /\ QuarterOf(b.day) = start
        /\ HasAllTickers(records, b.company, last_day)
        => /\ [symbol |-> b.symbol, day |-> b.day] \in hours
           /\ \E saved \in HourlySavedRanges(hours, range) :
                saved.symbol = b.symbol /\ saved.start <= b.day /\ b.day < saved.end
BuyHours(db, records, last_day) ==
    LET range == [start |-> 1, end |-> Max({r.day : r \in records}) + 1]
        starts == {d \in 2 .. range.end : QuarterOf(d) = d}
        bought == UNION {Bought(records, HourlyPurchase(db, start, range.end)) : start \in starts}
    IN HaveHours(db, records, last_day, starts, range, HourlyBars(db, bought))
MembersHaveTheirHours(records, last_day) == BuyHours(TwoImports(records, last_day), records, last_day)

\* A proven stock split is one of the company. With days enough on each side, the close rule finds each split with its
\* ratio, and no other one, also when a close is some percent wrong. After the apply step, no rule proves a split again,
\* and the report misses none.
AreFoundOnce(prices, ibkr, splits, is_far_off, has_full_windows, found, proven, adjusted, report) ==
    LET adjacent == {<<prices[i].day, prices[i].day + 1>> : i \in DOMAIN prices}
    IN  /\ \A s \in proven : \E t \in splits : s.day = t.day
        /\ ~is_far_off /\ has_full_windows => found = splits
        /\ has_full_windows =>
            /\ proven \subseteq splits
            /\ \A s \in FindSplitsFromIbkrCloses(adjusted, ibkr) : ~HasPriceGap(adjusted, s)
            /\ report.missed = {} /\ RemoveAppliedSplits(adjusted, proven) = prices
        /\ FindSplitsByDetectionRule(prices, adjacent) = splits
        /\ FindSplitsByDetectionRule(Divide(prices, splits), adjacent) = {}
Reported(prices, ibkr, splits, is_far_off, has_full_windows, found, proven, adjusted) ==
    AreFoundOnce(prices, ibkr, splits, is_far_off, has_full_windows, found, proven, adjusted,
                 ReportInstrument(adjusted, proven, proven, ibkr))
Applied(prices, ibkr, splits, is_far_off, has_full_windows, found, proven) ==
    Reported(prices, ibkr, splits, is_far_off, has_full_windows, found, proven, Divide(prices, proven))
SplitsAreFoundOnce(prices, ibkr, splits, is_far_off, has_full_windows) ==
    LET found == FindSplitsFromIbkrCloses(prices, ibkr)
    IN  Applied(prices, ibkr, splits, is_far_off, has_full_windows, found, {s \in found : HasPriceGap(prices, s)})

\* Easter by the rule of Gauss, for comparison.
GaussEaster(year) ==
    LET k == year \div 100
        m == (15 - (13 + 8 * k) \div 25 + k - k \div 4) % 30
        d == (19 * (year % 19) + m) % 30
        e == (2 * (year % 4) + 4 * (year % 7) + 6 * d + ((4 + k - k \div 4) % 7)) % 7
        shift == IF e = 6 /\ (d = 29 \/ (d = 28 /\ (11 * m + 11) % 30 < 19)) THEN 7 ELSE 0
    IN Date(year, 3, 22) + d + e - shift
\* All holidays of the exchanges near the edges of a quarter, with Independence Day and Christmas.
Holidays(year) ==
    LET Observed(day) == IF Weekday(day) = 6 THEN day + 1 ELSE IF Weekday(day) = 5 THEN day - 1 ELSE day
        new_years_day == Date(year, 1, 1)
    IN {IF Weekday(new_years_day) = 5 THEN new_years_day ELSE Observed(new_years_day), GaussEaster(year) - 2,
        Observed(Date(year, 7, 4)), Observed(Date(year, 12, 25))}

\* The first day of a quarter is no holiday, no trading day of the quarter is before it, and the day that the ranking
\* ends on is the last trading day of the quarter before.
QuarterEdgesAreTradingDays(year) ==
    \A month \in {1, 4, 7, 10} :
        LET first == FindFirstTradingDayOfQuarter(year, month)
            previous == FindPreviousTradingDay(year, month, first)
            IsOpen(d) == Weekday(d) < 5 /\ d \notin Holidays(year) \cup Holidays(year - 1)
        IN /\ IsOpen(first) /\ IsOpen(previous)
           /\ previous < Date(year, month, 1) /\ Date(year, month, 1) <= first
           /\ \A d \in previous + 1 .. first - 1 : ~IsOpen(d)

\* A window that needs no download is enough to rank the quarter, to its last ranking day.
WindowIsEnough(days, last) ==
    HasRankingWindow(days, last) =>
        \E window \in InsertMembers(days, last) :
            /\ window[1] = last
            /\ {d \in days : window[Len(window)] <= d /\ d <= last} = {window[i] : i \in DOMAIN window}
=============================================================================
