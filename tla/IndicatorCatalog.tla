-------------------------- MODULE IndicatorCatalog --------------------------
(***************************************************************************)
(* The catalog of the indicators, the check of the parameters and the      *)
(* output of a reference, and the classes of the indicators.               *)
(*                                                                         *)
(* `Catalog` has one indicator of each shape: one parameter (sma), a       *)
(* parameter that the name does not show (realized_volatility), a          *)
(* recursive average with an order of its periods and many outputs (macd), *)
(* and a float parameter (bollinger_bands). A JSON value is a record with  *)
(* its type. A problem is its location in the request, a sequence of keys; *)
(* the message is left out.                                                *)
(*                                                                         *)
(* The classes are used by a screen, a chart and a strategy: handle_bar    *)
(* for each bar, reset, initialized, and an attribute for each output.     *)
(* Five are written by ATrade over a window of the last bars; seven wrap   *)
(* an indicator of NautilusTrader, whose outputs are 0.0 until it is       *)
(* initialized. A value is a sequence of one item, None the empty one. A   *)
(* quotient is the pair of its terms; what NautilusTrader calculates is    *)
(* the bars that it calculates from.                                       *)
(***************************************************************************)
EXTENDS Integers, Sequences, FiniteSets, FiniteSetsExt, SequencesExt

MaximumPeriod == 4              \* MAXIMUM_PERIOD, 1000 in the code
RecursiveLookBackFactor == 2    \* RECURSIVE_LOOK_BACK_FACTOR, 8 in the code

JsonText(text) == [type |-> "text", text |-> text]
JsonInt(number) == [type |-> "int", number |-> number]
JsonFloat(number) == [type |-> "float", number |-> number]
JsonBool == [type |-> "bool"]
JsonNull == [type |-> "null"]
JsonObject(fields) == [type |-> "object", fields |-> fields]
JsonList(items) == [type |-> "list", items |-> items]

IsText(value, texts) == value.type = "text" /\ value.text \in texts
Get(fields, key, default) == IF key \in DOMAIN fields THEN fields[key] ELSE default

PeriodParameter(name, default, minimum) ==
    [name |-> name, type |-> "int", default |-> JsonInt(default), minimum |-> minimum, maximum |-> MaximumPeriod,
     is_in_name |-> TRUE]
LookBack(names, factor, extra_bars) == [names |-> names, factor |-> factor, extra_bars |-> extra_bars]

Catalog ==
    [sma |->
        [key |-> "sma", chart_placement |-> "price", parameters |-> <<PeriodParameter("period", 2, 1)>>,
         outputs |-> {"value"}, look_back |-> LookBack({"period"}, 1, 0), orders |-> {}],
     realized_volatility |->
        [key |-> "realized_volatility", chart_placement |-> "own",
         parameters |->
            <<PeriodParameter("period", 3, 2),
              [PeriodParameter("bars_per_year", 3, 1) EXCEPT !.is_in_name = FALSE]>>,
         outputs |-> {"value"}, look_back |-> LookBack({"period"}, 1, 1), orders |-> {}],
     macd |->
        [key |-> "macd", chart_placement |-> "own",
         parameters |->
            <<PeriodParameter("fast_period", 1, 1), PeriodParameter("slow_period", 2, 2),
              PeriodParameter("signal_period", 1, 1)>>,
         outputs |-> {"value", "signal"},
         look_back |-> LookBack({"slow_period", "signal_period"}, RecursiveLookBackFactor, 0),
         orders |-> {[smaller |-> "fast_period", larger |-> "slow_period"]}],
     bollinger_bands |->
        [key |-> "bollinger_bands", chart_placement |-> "price",
         parameters |->
            <<PeriodParameter("period", 2, 1),
              [PeriodParameter("k", 2, 1) EXCEPT !.type = "float", !.default = JsonFloat(2)]>>,
         outputs |-> {"upper", "middle"}, look_back |-> LookBack({"period"}, 1, 0), orders |-> {}]]

-----------------------------------------------------------------------------
ParameterNames(definition) == {definition.parameters[k].name : k \in DOMAIN definition.parameters}
Parameter(definition, name) == CHOOSE p \in Range(definition.parameters) : p.name = name

WithDefaults(definition, parameters) ==
    [name \in ParameterNames(definition) |-> Get(parameters, name, Parameter(definition, name).default).number]

\* format_parameter: six digits of a float. Here the name does not show the last bit of a float.
Shown(value) == IF value.type = "int" THEN value.number ELSE (value.number \div 2) * 2
DisplayName(definition, parameters) ==
    LET shown == SelectSeq(definition.parameters, LAMBDA p : p.is_in_name)
    IN  [name |-> definition.key,
         values |-> [k \in DOMAIN shown |-> Shown(Get(parameters, shown[k].name, shown[k].default))]]

ScreenLookBackBars(definition, parameters) ==
    LET values == WithDefaults(definition, parameters)
        look_back == definition.look_back
    IN  look_back.factor * MapThenSumSet(LAMBDA name : values[name], look_back.names) + look_back.extra_bars

-----------------------------------------------------------------------------
\* check_parameter_value; a JSON boolean is not a number.
IsParameterValue(parameter, value) ==
    /\ value.type \in (IF parameter.type = "int" THEN {"int"} ELSE {"int", "float"})
    /\ value.number \in parameter.minimum .. parameter.maximum

CheckOrders(definition, parameters) ==
    LET values == WithDefaults(definition, parameters)
    IN  {<<"parameters", order.smaller>> :
            order \in {o \in definition.orders : values[o.smaller] >= values[o.larger]}}

CheckParameters(definition, parameters) ==
    IF parameters.type # "object" THEN {<<"parameters">>}
    ELSE LET wrong == {name \in DOMAIN parameters.fields :
                        name \in ParameterNames(definition)
                            => ~IsParameterValue(Parameter(definition, name), parameters.fields[name])}
         IN  IF wrong # {} THEN {<<"parameters", name>> : name \in wrong}
             ELSE CheckOrders(definition, parameters.fields)

\* An output that is not given, or null, is the only one.
CheckOutput(definition, output) ==
    IF \/ output.type = "null" /\ Cardinality(definition.outputs) = 1
       \/ IsText(output, definition.outputs)
    THEN {} ELSE {<<"output">>}

-----------------------------------------------------------------------------
(* The classes.                                                            *)

None == <<>>
Default == <<"0.0">>

Definition(key, parameters, outputs, look_back) ==
    [key |-> key, parameters |-> parameters, outputs |-> outputs, look_back |-> look_back, orders |-> {}]
Period == PeriodParameter("period", 2, 1)
PeriodBars == LookBack({"period"}, 1, 0)
RecursivePeriodBars == LookBack({"period"}, RecursiveLookBackFactor, 0)
ThreeLines == {"upper", "middle", "lower"}

\* The rest of the catalog: `Catalog` has the ones that the checks of a reference tell apart.
ClassDefinitions ==
    Catalog @@
    [ema |-> Definition("ema", <<Period>>, {"value"}, RecursivePeriodBars),
     momentum_12_1 |->
        [Definition("momentum_12_1", <<PeriodParameter("look_back", 3, 1), PeriodParameter("skip", 1, 0)>>,
                    {"value"}, LookBack({"look_back"}, 1, 1))
         EXCEPT !.orders = {[smaller |-> "skip", larger |-> "look_back"]}],
     distance_to_52_week_high |-> Definition("distance_to_52_week_high", <<Period>>, {"value"}, PeriodBars),
     atr |-> Definition("atr", <<Period>>, {"value"}, RecursivePeriodBars),
     average_trading_value |-> Definition("average_trading_value", <<Period>>, {"value"}, PeriodBars),
     rsi |-> Definition("rsi", <<Period>>, {"value"}, RecursivePeriodBars),
     donchian_channel |-> Definition("donchian_channel", <<Period>>, ThreeLines, PeriodBars),
     adr_percent |-> Definition("adr_percent", <<Period>>, {"value"}, PeriodBars)]

-----------------------------------------------------------------------------
(* The window of an ATrade class: bars is None until it is full.           *)

BarWindow(bar_count) == [bar_count |-> bar_count, kept |-> <<>>]
Full(window) == Len(window.kept) = window.bar_count
Bars(window) == IF Full(window) THEN window.kept ELSE None
Add(window, bar) ==
    [window EXCEPT !.kept = IF Full(window) THEN Append(Tail(@), bar) ELSE Append(@, bar)]
Clear(window) == [window EXCEPT !.kept = <<>>]

Momentum12_1(p, bars) == <<<<bars[Len(bars) - p.skip].close, bars[1].close>>>>
DistanceTo52WeekHigh(p, bars) == <<<<Last(bars).close, Max({bars[i].high : i \in DOMAIN bars})>>>>
\* The log returns are of the pairs of neighbours.
RealizedVolatility(p, bars) ==
    <<[returns |-> [i \in 1 .. Len(bars) - 1 |-> <<bars[i + 1].close, bars[i].close>>], years |-> p.bars_per_year]>>
AverageTradingValue(p, bars) == <<FoldLeft(LAMBDA sum, bar : sum + bar.close * bar.volume, 0, bars)>>
ADRPercent(p, bars) ==
    IF \E i \in DOMAIN bars : bars[i].low <= 0 THEN None
    ELSE <<[i \in DOMAIN bars |-> <<bars[i].high, bars[i].low>>]>>

WindowClasses ==
    {"momentum_12_1", "distance_to_52_week_high", "realized_volatility", "average_trading_value", "adr_percent"}
BarCount(key, p) ==
    CASE key = "momentum_12_1" -> p.look_back + 1
      [] key = "realized_volatility" -> p.period + 1
      [] OTHER -> p.period
WindowValue(key, p, bars) ==
    CASE bars = None -> None
      [] key = "momentum_12_1" -> Momentum12_1(p, bars)
      [] key = "distance_to_52_week_high" -> DistanceTo52WeekHigh(p, bars)
      [] key = "realized_volatility" -> RealizedVolatility(p, bars)
      [] key = "average_trading_value" -> AverageTradingValue(p, bars)
      [] OTHER -> ADRPercent(p, bars)

\* A constructor of ATrade that raises no ValueError.
IsConstructed(key, p) ==
    CASE key = "momentum_12_1" -> p.look_back >= 1 /\ 0 <= p.skip /\ p.skip < p.look_back
      [] key = "realized_volatility" -> p.period >= 2 /\ p.bars_per_year >= 1
      [] OTHER -> key \in WindowClasses => BarCount(key, p) >= 1

-----------------------------------------------------------------------------
(* The wrapped classes. The indicator of NautilusTrader: initialized from  *)
(* `first` bars on, and calculated from the last `last` bars or from all.  *)

Nautilus(first, last) == [first |-> first, last |-> last, received |-> <<>>]
AllBars == 1000
NautilusInitialized(nautilus) == Len(nautilus.received) >= nautilus.first
NautilusOutput(nautilus, line) ==
    LET count == Min({nautilus.last, Len(nautilus.received)})
    IN  IF NautilusInitialized(nautilus)
        THEN <<line, SubSeq(nautilus.received, Len(nautilus.received) - count + 1, Len(nautilus.received))>>
        ELSE Default

ReadOutput(nautilus, line) == IF NautilusInitialized(nautilus) THEN <<NautilusOutput(nautilus, line)>> ELSE None

SMA(p) == Nautilus(p.period, p.period)
EMA(p) == Nautilus(p.period, AllBars)
\* The slow average, and then the average of its values.
MACD(p) == Nautilus(p.slow_period + p.signal_period - 1, AllBars)
BollingerBands(p) == Nautilus(p.period, p.period)
DonchianChannel(p) == Nautilus(p.period, p.period)
ATR(p) == Nautilus(p.period, AllBars)
\* The changes of the close are one less than the bars.
RSI(p) == Nautilus(p.period + 1, AllBars)
Wrapped(key, p) ==
    CASE key = "sma" -> SMA(p)
      [] key = "ema" -> EMA(p)
      [] key = "macd" -> MACD(p)
      [] key = "bollinger_bands" -> BollingerBands(p)
      [] key = "donchian_channel" -> DonchianChannel(p)
      [] key = "atr" -> ATR(p)
      [] key = "rsi" -> RSI(p)

-----------------------------------------------------------------------------
LastBars(bars, count) == SubSeq(bars, Max({1, Len(bars) - count + 1}), Len(bars))

New(key, p) ==
    [key |-> key, p |-> p, inner |-> IF key \in WindowClasses THEN BarWindow(BarCount(key, p)) ELSE Wrapped(key, p)]
HandleBar(indicator, bar) ==
    [indicator EXCEPT !.inner =
        IF indicator.key \in WindowClasses THEN Add(@, bar) ELSE [@ EXCEPT !.received = Append(@, bar)]]
Reset(indicator) ==
    [indicator EXCEPT !.inner = IF indicator.key \in WindowClasses THEN Clear(@) ELSE [@ EXCEPT !.received = <<>>]]
Output(indicator, line) ==
    IF indicator.key \in WindowClasses THEN WindowValue(indicator.key, indicator.p, Bars(indicator.inner))
    ELSE ReadOutput(indicator.inner, line)
Initialized(indicator) ==
    CASE indicator.key = "adr_percent" -> Output(indicator, "value") # None
      [] indicator.key \in WindowClasses -> Full(indicator.inner)
      [] OTHER -> NautilusInitialized(indicator.inner)

HandleBars(indicator, bars) == FoldLeft(HandleBar, indicator, bars)
\* The bars of an earlier use, a reset, and the bars.
AfterReset(key, p, earlier, bars) == HandleBars(Reset(HandleBars(New(key, p), earlier)), bars)

-----------------------------------------------------------------------------
\* The value of the formula in the docstring of a class at the last of the bars, when there are enough.
FormulaValue(key, p, bars) ==
    LET t == Len(bars)
        days(count) == t - count + 1 .. t
        day(i) == bars[t - p.period + i]
    IN  CASE key = "momentum_12_1" -> <<<<bars[t - p.skip].close, bars[t - p.look_back].close>>>>
          [] key = "distance_to_52_week_high" -> <<<<bars[t].close, Max({bars[i].high : i \in days(p.period)})>>>>
          [] key = "realized_volatility" ->
                <<[returns |-> [i \in 1 .. p.period |-> <<day(i).close, day(i - 1).close>>],
                   years |-> p.bars_per_year]>>
          [] key = "average_trading_value" ->
                <<MapThenSumSet(LAMBDA i : bars[i].close * bars[i].volume, days(p.period))>>
          [] key = "adr_percent" ->
                IF \A i \in days(p.period) : bars[i].low > 0
                THEN <<[i \in 1 .. p.period |-> <<day(i).high, day(i).low>>]>>
                ELSE None

\* Parameters that the catalog accepts make an indicator. It has no value before its first bars, never the 0.0 of
\* NautilusTrader, and exactly then is not initialized; the value is the one of its formula whatever bars came before
\* the reset; and the look-back bars of a screen are enough for it, and for the same value where it has a window.
ClassIsExact(key, parameters, earlier, bars) ==
    LET definition == ClassDefinitions[key]
        p == WithDefaults(definition, parameters.fields)
        look_back == ScreenLookBackBars(definition, parameters.fields)
        first == IF key \in WindowClasses THEN BarCount(key, p) ELSE Wrapped(key, p).first
        has_window == key \in WindowClasses \/ Wrapped(key, p).last = first
        indicator == AfterReset(key, p, earlier, bars)
        screen == HandleBars(New(key, p), LastBars(bars, look_back))
    IN  CheckParameters(definition, parameters) = {} =>
            /\ IsConstructed(key, p) /\ first <= look_back
            /\ \A line \in definition.outputs :
                LET value == Output(indicator, line)
                IN  /\ Initialized(indicator) <=> value # None
                    /\ Len(bars) < first => value = None
                    /\ Len(bars) >= first =>
                        IF key \in WindowClasses THEN value = FormulaValue(key, p, bars) ELSE value # None
                    /\ has_window => Output(screen, line) = value
                    /\ Initialized(indicator) => Output(screen, line) # None
=============================================================================
