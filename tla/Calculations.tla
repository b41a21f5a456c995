---------------------------- MODULE Calculations ----------------------------
(***************************************************************************)
(* The calculations of the system without a state of their own, over all   *)
(* inputs of a small set: each step picks one input of one calculation,    *)
(* and the invariants compare the result with what it must be.             *)
(***************************************************************************)
EXTENDS Integers, Sequences, FiniteSets, TLC

CONSTANTS
    MaxUniverseSize, MaxSweepRuns, MaxSweepParameters

VARIABLES
    topic,      \* the calculation that `input` belongs to
    input

calculation == <<topic, input>>

Tests == INSTANCE BacktestCalculations
Screens == INSTANCE ScreenRun
Indicators == INSTANCE Formulas
Code == INSTANCE RulesCode
Bought == INSTANCE DatabentoImport
Merge == INSTANCE BarSources

Topics ==
    {"metrics", "list", "quarters", "screen_periods", "listings", "start", "grid", "screen", "formula", "references",
     "defect", "chart", "chart_set", "class", "rules", "import", "splits", "year", "window", "merge", "summary", "complete"}

\* No input is chosen, only the calculation that it will be for.
Init ==
    /\ topic = "none"
    /\ input \in [next : Topics]

Pick(name, value) ==
    /\ topic' = name
    /\ input' = value

-----------------------------------------------------------------------------
(* A backtest of at most three bars and three fills, with its split time.  *)
(* The fills are in the order of the record, which is not that of time.    *)

Fills(keys) == [side : {"BUY", "SELL"}, shares : {1, 2}, price : {1, 3}, instrument : keys]
At(fill, time) == fill @@ [time |-> time, commission |-> 1, kind |-> "fill"]
SplitAdjustment(change, cash) ==
    Tests!LedgerTrade([time |-> 2, change |-> change, cash_change |-> cash, instrument |-> "A",
                       kind |-> "split_adjustment"])
FillLists ==
    {<<>>}
    \cup {<<At(f, times[1]), At(g, times[2])>> :
            f \in Fills({"A"}), g \in Fills({"A", "B"}), times \in {<<1, 2>>, <<1, 3>>, <<2, 1>>}}
    \cup {<<At(f, 1), At(g, times[1]), At(h, times[2])>> :
            f, h \in Fills({"A"}), g \in {fill \in Fills({"A"}) : fill.price = 3}, times \in {<<2, 2>>, <<3, 2>>}}
    \cup {<<At(f, 1), adjustment, At(h, 3)>> :
            f, h \in Fills({"A"}), adjustment \in {SplitAdjustment(1, 0), SplitAdjustment(-1, 1)}}
\* "A" has a bar each time, "B" in the middle or never; or no instrument has a bar.
NoBars == [t \in {} |-> 0]
Closes ==
    {[A |-> <<2, 1, 3>>, B |-> [t \in {2} |-> 4]], [A |-> <<2, 2, 2>>, B |-> NoBars], [A |-> NoBars, B |-> NoBars]}
BacktestFills ==
    <<At([side |-> "BUY", shares |-> 2, price |-> 1, instrument |-> "A"], 1),
      At([side |-> "SELL", shares |-> 1, price |-> 3, instrument |-> "A"], 3)>>
Range == [start |-> 0, end |-> 3]

PickTest ==
    \E trades \in FillLists, closes \in Closes :
        LET curve == Tests!EquityCurve(3, closes, trades)
        IN  Pick("metrics", [test |-> Tests!FullTest(3, Tests!ClipToCurve(Range, curve), curve, trades),
                             closes |-> closes])

\* The round trips of a backtest explain its equity, the parts before and after a split time make the test, each
\* metric without a value has a reason that is true, and the comparison of a forward test agrees with its metrics.
MetricsAreConsistent ==
    topic = "metrics" =>
        LET test == input.test
        IN  /\ Tests!RoundTripsExplainEquity(test)
            /\ Tests!OneInstrumentHasOneCurve(test, input.closes)
            /\ Tests!EachMissingHasReason(test)
            /\ Tests!ComparisonIsWhole(test, BacktestFills, [start |-> 1, end |-> 2])
            /\ Tests!BarRange(Range, input.closes) = test.range
            /\ \A split \in Tests!SplitTime(Tests!BarRange(Range, input.closes), 33) :
                /\ Tests!PartsMakeTheTest(test, split)
                /\ Tests!EachMissingHasReason(Tests!InSample(test, split))
                /\ Tests!EachMissingHasReason(Tests!OutOfSample(test, split))

-----------------------------------------------------------------------------
(* The inputs of a backtest: requests, quarters, listings, forward tests   *)
(* that start, and grids.                                                  *)

Listed == [symbol : {"A", "B"}, exchange : {"X", "Y"}, currency : {"USD", "HKD"}]
MemberLists == {<<>>} \cup [1 .. 1 -> Listed] \cup [1 .. 2 -> Listed]
ListRequests ==
    {[kind |-> "list"], [kind |-> "list", instruments |-> <<>>, symbols |-> <<"A">>]}
    \cup {[kind |-> "list", instruments |-> ms] : ms \in MemberLists}
    \cup {[kind |-> "list", screen_result |-> ms] : ms \in MemberLists}
    \cup {[kind |-> "list", screen_result |-> ms, symbols |-> symbols] :
            ms \in MemberLists, symbols \in {<<"A">>, <<"B", "A">>, <<"A", "A">>}}

PickListRequest == \E request \in ListRequests : Pick("list", request)

AcceptedListFitsVenue ==
    topic = "list" => Tests!AcceptedListFitsVenue(input, [start |-> 0, end |-> 3])

Quarters(starts) ==
    {[i \in DOMAIN starts |-> [start |-> starts[i], members |-> lists[i]]] :
        lists \in [DOMAIN starts -> {<<>>, <<"A">>, <<"B">>, <<"A", "B">>}]}

PickQuarters ==
    \E starts \in {<<0>>, <<1, 4>>, <<0, 2, 4>>}, from \in 0 .. 4 :
        \E quarters \in Quarters(starts) :
            Pick("quarters", [quarters |-> quarters, range |-> [start |-> from, end |-> 5]])

PeriodsKeepMembership ==
    topic = "quarters" =>
        LET periods == Tests!RulePeriods(input.quarters, 1, input.range)
            recorded == Tests!RecordedPeriods(input.quarters, input.range)
        IN  /\ Tests!SamePeriodHasTheRuleMembers(input.quarters, input.range)
            /\ periods # <<>> => Tests!RangesAreTheMembership(periods, 5, "A")
            /\ Tests!RangesAreTheMembership(recorded, 5, "B")

\* A screen backtest runs its screen at the range start and at each later start of a period, and at no other time.
ScreenPeriodsCoverRange ==
    topic = "screen_periods" =>
        LET starts == Tests!ScreenPeriodStarts(input.range, input.step)
            length == input.step * Tests!MonthLength
        IN  /\ starts[1] = input.range.start
            /\ {starts[i] : i \in 2 .. Len(starts)} =
                {t \in input.range.start + 1 .. input.range.end - 1 : t % length = 0}
            /\ \A i \in 1 .. Len(starts) - 1 : starts[i] < starts[i + 1]

PickScreenPeriods ==
    \E from \in 0 .. 13, to \in 1 .. 26, step \in {1, 3} :
        from < to /\ Pick("screen_periods", [range |-> [start |-> from, end |-> to], step |-> step])

Listings(exchange) ==
    {[exchange |-> exchange, saved |-> {[start |-> t, exchange |-> exchange] : t \in times}] :
        times \in SUBSET (1 .. 3)}
ListingPeriods ==
    {<<[start |-> 2, members |-> <<"X", "Y">>]>>,
     <<[start |-> 2, members |-> <<"X">>], [start |-> 3, members |-> <<"Y">>]>>,
     <<[start |-> 2, members |-> <<"Y", "X">>], [start |-> 3, members |-> <<"X">>]>>}
PickListings ==
    \E x \in Listings("X"), y \in Listings("Y"), periods \in ListingPeriods :
        Pick("listings", [listings |-> <<x, y>>, periods |-> periods])

\* As two members, and as the two listings of one member.
MergedListingsKeepHistory ==
    topic = "listings" =>
        LET range == [start |-> 2, end |-> 4]
            Read(listing) ==
                Tests!ReadMemberBars(
                    listing, Tests!MemberRanges(input.periods, range.end, listing.exchange), range, 1)
            two == [i \in DOMAIN input.listings |-> Read(input.listings[i])]
            one == Tests!ReadUniverseBars(input.listings, input.periods, range, 1)
        IN  /\ Tests!MergedListingsKeepHistory(input.listings, input.periods, range, 1)
            /\ Tests!EngineSeesThePeriodFirst(two, Tests!EngineEvents(two, input.periods))
            /\ Tests!EngineSeesThePeriodFirst(<<one>>, Tests!EngineEvents(<<one>>, input.periods))
            /\ Tests!EngineSeesThePeriodFirst(<<one>>, Tests!SingleEngineEvents(one))

\* Times of 10 and more are days of the quarters that start at 8 and 13; the forward test starts at 10.
Share(symbol, currency, rank) == [symbol |-> symbol, exchange |-> "X", currency |-> currency, rank |-> rank]
Worlds ==
    {[now |-> 10, versions |-> {1, 2}, backtest_only |-> {2}, net_liquidation |-> value, has_ledger_start |-> has_start,
      watchlist |-> watchlist, quarter_start |-> 8, us_quarter |-> quarter] :
        value \in {{}, {5}}, has_start \in BOOLEAN,
        watchlist \in {<<>>, <<Share("A", "USD", 1)>>, <<Share("A", "USD", 1), Share("C", "HKD", 2)>>},
        quarter \in {{}, {[start |-> 8, members |-> <<Share("A", "USD", 1), Share("B", "USD", 2)>>]}}}
FlatFields ==
    {[f \in {} |-> ""], [symbol |-> "A", exchange |-> "X"], [symbol |-> "A", exchange |-> "X", currency |-> "USD"],
     [symbol |-> "C", exchange |-> "X", currency |-> "HKD"]}
UniverseBodies == [kind : {"single", "rule", "list"}, fields : FlatFields, top_n : {0, 1}]
StartRequests ==
    [version : 1 .. 3, flat : FlatFields, universe : {<<>>} \cup {<<body>> : body \in UniverseBodies},
     bar_period : {"1-DAY", "5-MINUTE"}, end_time : {0, 10, 12}]
\* A wrong version or end time is asked with one world only.
PickStart ==
    \E request \in StartRequests, world \in Worlds :
        /\ \/ request.version = 1 /\ request.end_time = 0 /\ (world.net_liquidation # {} <=> world.has_ledger_start)
           \/ /\ DOMAIN request.flat = {} /\ request.bar_period = "1-DAY"
              /\ world.net_liquidation # {} /\ world.has_ledger_start /\ Len(world.watchlist) = 1
        /\ Pick("start", [request |-> request, world |-> world])

StartedForwardTestCompares ==
    topic = "start" =>
        Tests!StartedForwardTestCompares(
            input.request, input.world, <<[start |-> 13, members |-> <<Share("B", "USD", 1)>>]>>)

GridEntries == [name : {"a", "b", "c"}, start : {0, 1}, end : {0, 2, 4}, step : {0, 1, 2}]
GridParameters == [a |-> "int", b |-> "bool"]
PickGrid ==
    \E entries \in {<<>>} \cup [1 .. 1 -> GridEntries] \cup [1 .. 2 -> GridEntries] :
        Pick("grid", [entries |-> entries])

GridIsEachCombinationOnce == topic = "grid" => Tests!GridIsEachCombinationOnce(input.entries, GridParameters)

\* What a request says is what runs: an accepted list fits its venue, each bar of a period trades the members of the
\* period, merged listings keep each bar of a time once, the engine gets its data in the order of the periods, a started
\* forward test has a backtest of its own period, and a grid has each combination once.
InputsAreWhole ==
    /\ AcceptedListFitsVenue /\ PeriodsKeepMembership /\ ScreenPeriodsCoverRange
    /\ MergedListingsKeepHistory /\ StartedForwardTestCompares /\ GridIsEachCombinationOnce

-----------------------------------------------------------------------------
(* Screens: the run of the page, and the run of a screen backtest.         *)

Bar(day, close) == [day |-> day, close |-> close]
Histories ==
    {<<>>, <<Bar(1, 1), Bar(2, 2), Bar(3, 3)>>, <<Bar(1, 3), Bar(2, 2)>>, <<Bar(1, 2), Bar(3, 2), Bar(4, 1)>>}
Sum(period) == [key |-> "average_trading_value", period |-> period]
Average(period) == [key |-> "sma", period |-> period]
Filters ==
    {<<[field |-> "still_trading"], [field |-> "last_price", operator |-> ">=", value |-> 2]>>,
     <<[field |-> "average_trading_value", operator |-> ">", value |-> 3]>>}
SummaryCondition == [kind |-> "compare", indicator |-> Sum(2), operator |-> ">=", value |-> 4]
Conditions ==
    {SummaryCondition,
     [kind |-> "line", indicator |-> Average(2), side |-> "above"],
     [kind |-> "rank", indicator |-> Average(1), end |-> "top", percent |-> 50],
     [kind |-> "rank", indicator |-> Average(2), end |-> "bottom", percent |-> 34]}
ConditionLists ==
    {<<>>} \cup {<<c>> : c \in Conditions}
    \cup {<<SummaryCondition, c>> : c \in Conditions \ {SummaryCondition}}
ScreenOrders ==
    {[indicator |-> Average(1), direction |-> "descending", keep_first |-> 1],
     [indicator |-> Sum(2), direction |-> "ascending", keep_first |-> 3]}
ScreenDefinitions == [filters : Filters, conditions : ConditionLists, order : ScreenOrders]

PickScreen ==
    \E definition \in ScreenDefinitions, bars \in [1 .. 3 -> Histories] :
        /\ \E i \in 1 .. 3 : bars[i] # <<>>
        /\ Pick("screen", [definition |-> definition, bars |-> bars, as_of |-> 4])

-----------------------------------------------------------------------------
(* Indicators: formulas, references in a screen definition, and charts.    *)

Constant(value) == [form |-> "constant", value |-> value]
Name(name) == [form |-> "name", name |-> name]
Binary(left, op, right) == [form |-> "binary", op |-> op, left |-> left, right |-> right]
Call(name, args) == [form |-> "call", name |-> name, args |-> args, keywords |-> <<>>]
Number(n) == Constant(Indicators!JsonInt(n))

Leaves == {Name("close"), Name("volume"), Number(2)}
WrongLeaves == {Constant(Indicators!JsonText("close")), Name("tick"), [form |-> "attribute"], Number(1000)}
Windows(children) ==
    {Call(name, <<child, Number(n)>>) :
        name \in Indicators!RollingFunctions \cup {"lag", "unknown"}, child \in children, n \in 1 .. 3}
Operations(lefts, rights) == {Binary(l, op, r) : l \in lefts, op \in {"+", "-", "*", "/", "**", "%"}, r \in rights}
CatalogCalls ==
    {Call("sma", <<Number(n)>>) : n \in {0, 2, 5}}
    \cup {[Call("macd", <<Number(2)>>) EXCEPT !.keywords = keywords] :
            keywords \in {<<>>, [output |-> Constant(Indicators!JsonText("signal"))], [fast_period |-> Number(1)],
                          [slow_period |-> Number(3), output |-> Constant(Indicators!JsonText("signal"))]}}
SmallTrees ==
    Leaves \cup WrongLeaves \cup CatalogCalls \cup Windows({Name("close")}) \cup Operations(Leaves, Leaves)
    \cup {Call(name, <<leaf>>) : name \in {"abs", "log"}, leaf \in Leaves \cup {Number(0)}}
    \cup {[form |-> "unary", op |-> op, operand |-> leaf] : op \in {"-", "+", "~"}, leaf \in Leaves}
Divisors == {Binary(Name("close"), "-", Number(2)), Call("sma", <<Number(2)>>)}
Ratios == {Binary(Name("close"), "/", divisor) : divisor \in Divisors}
Trees ==
    SmallTrees \cup Windows(SmallTrees) \cup Windows(Windows(Ratios))
    \cup Operations(Windows({Name("close")}), {Call("sma", <<Number(3)>>), Number(-3), Number(1)})

Series(closes) == [i \in DOMAIN closes |-> [close |-> closes[i], volume |-> i % 3]]
BarSeries == {Series(<<2, 3, 1, 2, 2, 4, 3>>), Series(<<1, 1, 5, 4, 4, 2, 6>>)}

PickFormula == \E tree \in Trees, bars \in BarSeries : Pick("formula", [tree |-> tree, bars |-> bars])

\* A formula does what its text says, with no more than its look-back bars.
FormulasAreExact ==
    topic = "formula" =>
        LET node == Indicators!ParseExpression(input.tree)
        IN  /\ Indicators!ParserIsExact(input.tree)
            /\ ~Indicators!IsRefused(node) =>
                    Indicators!WindowsAreExact(node, input.bars) /\ Indicators!LookBackIsEnough(node, input.bars)

BuiltIn(key, parameters) ==
    Indicators!JsonObject([indicator |-> Indicators!JsonText(key), parameters |-> Indicators!JsonObject(parameters)])
WithOutput(reference, output) == Indicators!JsonObject(reference.fields @@ [output |-> Indicators!JsonText(output)])
Custom(name, tree) ==
    Indicators!JsonObject(
        [indicator |-> Indicators!JsonText("custom_1"),
         formula |-> Indicators!JsonObject(
            [name |-> Indicators!JsonText(name), chart_placement |-> Indicators!JsonText("price"),
             expression |-> [type |-> "expression", tree |-> tree]])])
References ==
    {BuiltIn("sma", <<>>), BuiltIn("sma", [period |-> Indicators!JsonInt(2)]),
     Custom("sma", Call("sma", <<Number(2)>>)),
     Custom("sma", Call("lag", <<Name("close"), Number(2)>>)),
     WithOutput(BuiltIn("bollinger_bands", <<>>), "upper"),
     WithOutput(BuiltIn("bollinger_bands", [k |-> Indicators!JsonFloat(3)]), "upper"),
     WithOutput(BuiltIn("bollinger_bands", [k |-> Indicators!JsonInt(2)]), "middle"),
     WithOutput(BuiltIn("macd", [slow_period |-> Indicators!JsonInt(3)]), "signal"),
     BuiltIn("realized_volatility", [bars_per_year |-> Indicators!JsonInt(4)]), BuiltIn("realized_volatility", <<>>)}
Condition(kind, reference) ==
    LET json == [kind |-> Indicators!JsonText(kind), indicator |-> reference]
    IN  Indicators!JsonObject(json @@
            CASE kind = "compare" -> [operator |-> Indicators!JsonText(">="), value |-> Indicators!JsonText("2")]
              [] kind = "close_versus_line" -> [side |-> Indicators!JsonText("above")]
              [] OTHER -> [end |-> Indicators!JsonText("top"), percent |-> Indicators!JsonInt(20)])
Screen(conditions, order_reference) ==
    Indicators!JsonObject(
        [start |-> Indicators!JsonText("watchlist"),
         filters |-> Indicators!JsonList(
            <<Indicators!JsonObject([field |-> Indicators!JsonText("exchange"),
                                     values |-> Indicators!JsonList(<<Indicators!JsonText("NYSE")>>)])>>),
         indicator_conditions |-> Indicators!JsonList(conditions),
         order |-> Indicators!JsonObject(
            [indicator |-> order_reference, direction |-> Indicators!JsonText("ascending"),
             keep_first |-> Indicators!JsonInt(2)])])

PickReferences ==
    \E kind \in {"compare", "close_versus_line", "rank"}, first, second, last \in References :
        Pick("references", [definition |-> Screen(<<Condition("rank", first), Condition(kind, second)>>, last)])

Places ==
    {<<>>, <<"start">>, <<"order">>, <<"order", "keep_first">>, <<"order", "indicator">>, <<"filters", "0">>,
     <<"filters", "0", "field">>, <<"filters", "0", "values">>}
    \cup {<<"indicator_conditions">> \o path : path \in
            {<<>>, <<"0">>, <<"0", "kind">>, <<"0", "indicator">>, <<"0", "percent">>,
             <<"1", "side">>, <<"1", "indicator", "parameters">>, <<"1", "indicator", "parameters", "period">>,
             <<"2", "indicator", "formula">>, <<"2", "indicator", "formula", "expression">>,
             <<"2", "operator">>, <<"2", "value">>}}
WithDefect ==
    Screen(<<Condition("rank", WithOutput(BuiltIn("macd", <<>>), "signal")),
             Condition("close_versus_line", BuiltIn("sma", [period |-> Indicators!JsonInt(2)])),
             Condition("compare", Custom("mine", Name("close")))>>, BuiltIn("sma", <<>>))
LastKey(path) == path[Len(path)]
Items == {"0", "1", "2"}
NoObject ==
    {"start", "keep_first", "field", "values", "indicator_conditions", "kind", "percent", "side", "period",
     "expression", "operator", "value"}
\* A value of a list cannot be missing; only an object can have a key more.
PickDefect ==
    \E path \in Places, change \in {"missing", "extra", "wrong type"} :
        /\ change = "missing" => path # <<>> /\ LastKey(path) \notin Items
        /\ change = "extra" /\ path # <<>> => LastKey(path) \notin NoObject
        /\ Pick("defect", [path |-> path, change |-> change])

PickChart ==
    \E first, second \in References, start \in 2 .. 7, bars \in BarSeries :
        /\ \A r \in {first, second} :
            Indicators!IsCustomKey(r.fields["indicator"]) \/ r.fields["indicator"].text = "sma"
        /\ Pick("chart", [references |-> <<first, second>>, saved |-> bars, first |-> start])

Lines == {[output |-> output, style |-> style] : output \in {"value", "signal", "upper"}, style \in {"solid", "other"}}
OwnLine == [output |-> "value", style |-> "solid"]
ChartPane == <<[reference |-> BuiltIn("realized_volatility", <<>>), lines |-> <<OwnLine>>]>>
Drawn(reference, lines) == [reference |-> reference, lines |-> lines]
ChartIndicators ==
    {Drawn(BuiltIn(key, <<>>), lines) : key \in {"sma", "macd", "unknown"}, lines \in {<<>>} \cup [1 .. 2 -> Lines]}
    \cup {Drawn(Custom("mine", Name(name)), <<OwnLine>>) : name \in {"close", "tick"}}
PickChartSet ==
    \E indicator \in ChartIndicators, more \in {<<>>, <<ChartPane>>, <<<<>>>>, <<ChartPane, ChartPane>>},
       favorites \in {<<>>, <<"sma", "custom_2">>, <<"sma", "sma">>, <<"unknown">>} :
        \E panes \in {<<<<indicator>>>> \o more, <<<<>>, <<indicator>>>> \o more} :
            Pick("chart_set", [panes |-> panes, favorites |-> favorites])

\* A chart shows at each bar the value that a screen has at that bar.
ChartHasTheScreenValues ==
    topic = "chart" =>
        LET series == Indicators!ReadIndicatorSeries(input.references, input.saved, input.first)
        IN  \A k \in 1 .. 2 : \A i \in input.first .. Len(input.saved) :
                series[k][i - input.first + 1] =
                    Indicators!ScreenValue(input.references[k], SubSeq(input.saved, 1, i))

\* An accepted chart draws each output of each indicator with one line, and no favorite twice.
AcceptedChartIsDrawn ==
    topic = "chart_set" /\ Indicators!CheckChartIndicatorSet(input) = {} =>
        /\ Len(input.panes) \in 1 .. Indicators!MaxPanes
        /\ Cardinality({input.favorites[k] : k \in DOMAIN input.favorites}) = Len(input.favorites)
        /\ \A p \in DOMAIN input.panes : \A k \in DOMAIN input.panes[p] :
            LET indicator == input.panes[p][k]
                definition == Indicators!FindIndicatorDefinition(indicator.reference)
            IN  /\ definition.outputs = {indicator.lines[i].output : i \in DOMAIN indicator.lines}
                /\ Cardinality(definition.outputs) = Len(indicator.lines)
                /\ p = 1 <=> definition.chart_placement = "price"

ReferencesAreChecked ==
    /\ topic = "references" => Indicators!ColumnsAreApart("US", input.definition)
    /\ topic = "defect" => Indicators!DefectIsFound("US", WithDefect, input.path, input.change)

\* The values of the parameters that are counts, in and out of their ranges.
Counts(key) ==
    CASE key = "momentum_12_1" -> [look_back : 0 .. 4, skip : -1 .. 4]
      [] key = "macd" -> [fast_period : 1 .. 2, slow_period : 2 .. 4, signal_period : {1, 3}]
      [] key = "realized_volatility" -> [period : 1 .. 4, bars_per_year : {0, 3}]
      [] OTHER -> [period : 0 .. 5]
DayBar(low, close, volume) == [low |-> low, high |-> close + 1, close |-> close, volume |-> volume]
DayBars == <<DayBar(1, 2, 1), DayBar(2, 5, 2), DayBar(0, 1, 3), DayBar(3, 3, 1), DayBar(2, 4, 2), DayBar(1, 2, 2),
             DayBar(4, 7, 1), DayBar(5, 6, 3)>>
PickClass ==
    \E key \in DOMAIN Indicators!ClassDefinitions, count \in 0 .. 8, before \in {0, 1, 4} :
        \E counts \in Counts(key) :
            Pick("class", [key |-> key,
                           parameters |-> Indicators!JsonObject([n \in DOMAIN counts |-> Indicators!JsonInt(counts[n])]),
                           earlier |-> SubSeq(DayBars, 3, 2 + before), bars |-> SubSeq(DayBars, 1, count)])

ClassesAreExact ==
    topic = "class" => Indicators!ClassIsExact(input.key, input.parameters, input.earlier, input.bars)

-----------------------------------------------------------------------------
(* Strategies: the code from the rules.                                    *)

Close == Code!Price("close")
Average2 == Code!IndicatorOperand("sma", <<>>, "")
SameAverage == Code!IndicatorOperand("sma", [period |-> Indicators!JsonInt(2)], "value")
Average3 == Code!IndicatorOperand("sma", [period |-> Indicators!JsonInt(3)], "")
Macd(output) == Code!IndicatorOperand("macd", <<>>, output)
Operands == {Code!Price("open"), SameAverage, Average3, Macd("value"), Macd("")}
FirstConditions ==
    {Code!Condition(left, comparison, right) :
        left \in {Close, Average2, Macd("signal")}, comparison \in {"at_or_below", "crosses_above"},
        right \in Operands \cup {Code!NumberOperand(2)}}
Below == Code!Condition(Average3, "crosses_below", Code!NumberOperand(3))
MoreItems ==
    {<<>>, <<Below>>, <<Code!Group("any_of", <<>>)>>,
     <<Code!Group("any_of", <<Below, Code!Condition(Macd("value"), "below", SameAverage)>>)>>}
Exits ==
    {[stop_loss_percent |-> loss, take_profit_percent |-> profit, exit_after_bars |-> n, exit_when_entry_is_false |-> e,
      exit_group |-> group] :
        loss \in {0, 50}, profit \in {0, 50}, n \in {0, 2}, e \in BOOLEAN,
        group \in {<<>>, <<Code!Group("all_of", <<Code!Condition(Average3, "at_or_above", Macd("signal"))>>)>>}}
SomeExits ==
    {exits \in Exits :
        exits.stop_loss_percent = exits.take_profit_percent /\ (exits.exit_after_bars = 0 <=> exits.exit_group # <<>>)}
StrategyUniverses == {<<>>, <<[rank_indicator |-> Macd("value"), hold_count |-> 1]>>}

PickRules ==
    \E first \in {<<>>} \cup {<<c>> : c \in FirstConditions}, more \in MoreItems, match \in {"all_of", "any_of"},
       exits \in SomeExits, universe \in StrategyUniverses :
        LET rules == [entry |-> Code!Group(match, first \o more), exits |-> exits, universe |-> universe,
                      position_shares |-> 1]
        IN  Code!AreRules(rules) /\ Pick("rules", rules)

Market(close, open, average2, average3, macd, signal) ==
    [price |-> [close |-> close, open |-> open],
     indicator |->
        (<<"sma", [period |-> 2], "value">> :> average2) @@ (<<"sma", [period |-> 3], "value">> :> average3)
        @@ (<<"macd", [fast_period |-> 1, slow_period |-> 2, signal_period |-> 1], "value">> :> macd)
        @@ (<<"macd", [fast_period |-> 1, slow_period |-> 2, signal_period |-> 1], "signal">> :> signal)]
Markets == {<<Market(2, 3, 1, 3, 2, 1)>>, <<Market(3, 1, 2, 2, 1, 3), Market(1, 2, 3, 3, 2, 2)>>}

\* The code of the rule builder trades at the bars that its rules say, and its warm-up is enough in each sweep run.
CodeIsExact ==
    topic = "rules" =>
        /\ \A bars \in Markets :
            Code!CodeMeansTheRules(input, bars[1], Tail(bars), [avg_px_open |-> 2, bars |-> 2])
        /\ \A run \in {Code!NoRun} \cup {name :> 4 : name \in Code!IndicatorFields(Code!MakeCode(input).parts)} :
            Code!WarmUpIsEnough(input, run)

-----------------------------------------------------------------------------
(* The Databento import: symbols, hourly bars, stock splits and quarters.  *)

\* The records of a company: one ticker after the other, each from its first day, to the last day.
CompanyRecords(company, tickers, first_days, last, price, volume) ==
    {[symbol |-> tickers[i], day |-> day, price |-> price, volume |-> volume, exchange |-> IF day < 6 THEN "X" ELSE "-",
      home |-> "X", company |-> company] :
        <<i, day>> \in {<<i, day>> \in (DOMAIN first_days) \X (1 .. last) :
            first_days[i] <= day /\ \A j \in DOMAIN first_days : j > i => day < first_days[j]}}
TickerChanges == {<<1>>} \cup {<<1, c>> : c \in 2 .. 6} \cup {<<1, c, d>> : c, d \in 2 .. 6}
Ascending(days) == \A i \in 1 .. Len(days) - 1 : days[i] < days[i + 1]

PickImport ==
    \E changes \in {days \in TickerChanges : Ascending(days)}, last \in {4, 7}, price \in {10, 50},
       days \in {<<1, 7>>, <<1, 2>>, <<4, 7>>, <<5, 5>>, <<7, 7>>}, other \in {<<50, 9>>, <<90, 1>>}, first \in {0, 4, 7} :
        /\ changes[Len(changes)] <= last
        /\ Pick("import",
                [records |-> CompanyRecords("one", <<"A", "B", "C">>, changes, last, price, 1)
                             \cup CompanyRecords("two", <<"Z">>, <<days[1]>>, days[2], other[1], other[2]),
                 first |-> first])

SplitRatios == {<<2, 1>>, <<3, 2>>, <<1, 3>>}
SplitSets ==
    {{}} \cup {{[day |-> day, ratio |-> ratio]} : day \in 2 .. 14, ratio \in SplitRatios}
    \cup {{[day |-> day, ratio |-> ratio], [day |-> day + gap, ratio |-> <<2, 1>>]} :
            day \in {2, 4, 6}, gap \in {5, 6, 8}, ratio \in SplitRatios}
\* Raw prices of 14 days; the volume grows a little each day, and changes with a split.
RawPrices(splits) ==
    Bought!RemoveAppliedSplits(
        [d \in 1 .. 14 |-> [day |-> d, open |-> 600, close |-> 600, volume |-> 3000 + 6 * d]], splits)

PickSplits ==
    \E splits \in SplitSets, day \in {1, 4, 7, 8, 13}, percent \in {100, 90, 104, 200} :
        /\ \A s \in splits : s.day <= 14
        /\ percent = 100 => day = 1
        /\ Pick("splits",
                [splits |-> splits, prices |-> RawPrices(splits), percent |-> percent,
                 ibkr |-> [d \in 1 .. 14 |-> IF d = day THEN 6 * percent ELSE 600]])

PickYear == \E year \in 1990 .. 2100 : Pick("year", [year |-> year])
PickWindow == \E days \in SUBSET (1 .. 8), last \in 3 .. 8 : Pick("window", [days |-> days, last |-> last])

\* What a file holds is what the bars say: each history under its symbol and exchange, the hours of each member, each
\* stock split on its day, and a quarter between its trading days.
ImportIsExact ==
    /\ topic = "import" =>
        /\ Bought!HistoriesAreWhole(input.records, input.first)
        /\ Bought!MembersHaveTheirHours(input.records, input.first)
    /\ topic = "splits" =>
        Bought!SplitsAreFoundOnce(
            input.prices, input.ibkr, input.splits, input.percent = 200,
            input.percent = 100 \/ \A s \in input.splits : s.day \in 6 .. 10)
    /\ topic = "year" => Bought!QuarterEdgesAreTradingDays(input.year)
    /\ topic = "window" => Bought!WindowIsEnough(input.days, input.last)

-----------------------------------------------------------------------------
(* The bars of two bar sources.                                            *)

Orders == {order \in [1 .. 2 -> Merge!BarSource] : Merge!IsSourceOrder(order)}
TimeRanges == {[start |-> s, end |-> e] : <<s, e>> \in {<<s, e>> \in (0 .. 3) \X (1 .. 4) : s < e}}
RangeSets(count) == {ranges \in SUBSET TimeRanges : Cardinality(ranges) <= count}
BarTimes == {<<0 .. 3, {1, 3}>>, <<{0, 2}, {1, 3}>>, <<{1, 3}, 0 .. 3>>}
Source(ranges, bars) == [ranges |-> ranges, bars |-> bars]
DataBases == [ibkr : {Source({}, {}), Source({[start |-> 0, end |-> 2]}, {0, 1})},
              databento : {Source({}, {}), Source({[start |-> 1, end |-> 4]}, {1, 3})}]
StockSplits == [ex_day : {1, 3}, source : {"databento_import", "ibkr_evidence"},
                confirmation : {"none", "bar_evidence", "both_evidences", "user_apply", "import_check", "import_rejected"}]

PickMerge ==
    \E order \in Orders, first \in RangeSets(2), second \in RangeSets(1), bars \in BarTimes :
        Pick("merge", [order |-> order,
                       db |-> [ibkr |-> Source(first, bars[1]), databento |-> Source(second, bars[2])]])
PickSummary ==
    \E order, old_order \in Orders, db, old_db, other \in DataBases :
        Pick("summary", [order |-> order, old_order |-> old_order, dbs |-> <<db, other>>, old_dbs |-> <<old_db, other>>])
PickComplete ==
    \E range \in TimeRanges, length \in 1 .. 3, now \in 0 .. 7 :
        Pick("complete", [range |-> range, length |-> length, now |-> now])

\* Every reader of the saved bars sees the same merge of the two sources.
MergeIsExact ==
    /\ topic = "merge" =>
        \A range \in TimeRanges :
            /\ Merge!MergeIsTheSame(input.order, input.db, range)
            /\ Merge!JoinsKeepTheRanges(input.db["ibkr"].ranges, range)
    /\ topic = "summary" =>
        /\ Merge!SummariesAreFresh(input.order, input.old_order, input.dbs, input.old_dbs)
        /\ input.order = input.old_order => \A split, other \in StockSplits, before \in 0 .. 4 :
            Merge!EarlierSummaryHasRealClose(input.order, input.dbs[1], before, {split, other})
    /\ topic = "complete" => Merge!OnlyCompleteBarsAreSaved(input.range, input.length, input.now)

-----------------------------------------------------------------------------
\* A definition does what its text says: a screen backtest sees what the screen page showed at that time, a rank
\* condition is a share of the candidates, a chart and a screen calculate the same value, an accepted reference means
\* one thing, and the code of the rule builder trades its rules.
DefinitionsAreExact ==
    /\ topic = "screen" =>
        /\ Screens!ScreenKnowsNoLaterBar(input.definition, input.bars, input.as_of)
        /\ Screens!RankIsAShare(input.definition, input.bars)
    /\ FormulasAreExact /\ ReferencesAreChecked /\ ChartHasTheScreenValues /\ AcceptedChartIsDrawn
    /\ ClassesAreExact /\ CodeIsExact /\ ImportIsExact /\ MergeIsExact

-----------------------------------------------------------------------------
Next ==
    /\ topic = "none"
    /\ \/ input.next = "metrics" /\ PickTest
       \/ input.next = "list" /\ PickListRequest
       \/ input.next = "quarters" /\ PickQuarters
       \/ input.next = "screen_periods" /\ PickScreenPeriods
       \/ input.next = "listings" /\ PickListings
       \/ input.next = "start" /\ PickStart
       \/ input.next = "grid" /\ PickGrid
       \/ input.next = "screen" /\ PickScreen
       \/ input.next = "formula" /\ PickFormula
       \/ input.next = "references" /\ PickReferences
       \/ input.next = "defect" /\ PickDefect
       \/ input.next = "chart" /\ PickChart
       \/ input.next = "chart_set" /\ PickChartSet
       \/ input.next = "class" /\ PickClass
       \/ input.next = "rules" /\ PickRules
       \/ input.next = "import" /\ PickImport
       \/ input.next = "splits" /\ PickSplits
       \/ input.next = "year" /\ PickYear
       \/ input.next = "window" /\ PickWindow
       \/ input.next = "merge" /\ PickMerge
       \/ input.next = "summary" /\ PickSummary
       \/ input.next = "complete" /\ PickComplete

Spec == Init /\ [][Next]_calculation
=============================================================================
