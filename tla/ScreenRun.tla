------------------------------ MODULE ScreenRun ------------------------------
(***************************************************************************)
(* The two steps of a screen run. Step 1 applies the filters to the daily  *)
(* bar summaries; step 2 gives each indicator its look-back bars, applies  *)
(* the conditions to the candidates, and sorts the rows. The run of a      *)
(* screen backtest uses the bars before a time only, and may exclude       *)
(* instruments before it reads their bars.                                 *)
(*                                                                         *)
(* An instrument is a number, in the order of the symbols. Its bars are a  *)
(* sequence of [day, close]. The value of an indicator is a sum over its   *)
(* period, so that all values are integers; a threshold is one of the sum. *)
(***************************************************************************)
EXTENDS Integers, Sequences, FiniteSets, FiniteSetsExt, SequencesExt

LOCAL NoValue == -1
SummaryBarCount == 2        \* SUMMARY_BAR_COUNT, 20 in the code
StillTradingDays == 1       \* STILL_TRADING_DAYS, 7 in the code
MaxResultRows == 2          \* MAX_RESULT_ROWS, 500 in the code

LastBars(bars, n) == SubSeq(bars, IF Len(bars) > n THEN Len(bars) - n + 1 ELSE 1, Len(bars))
\* Mutation: the bar of the day itself too.
UntilEnd(bars, day) == SelectSeq(bars, LAMBDA bar : bar.day <= day)
Before(bars, day) == SelectSeq(bars, LAMBDA bar : bar.day < day)

\* An indicator with fewer bars than its period has no value.
Value(column, bars) ==
    LET used == LastBars(bars, column.period)
    IN  IF Len(used) < column.period THEN NoValue ELSE FoldLeft(LAMBDA sum, bar : sum + bar.close, 0, used)

\* The daily bar summary of the bars: only an instrument with a bar has one.
Summary(bars) ==
    [day |-> Last(bars).day, close |-> Last(bars).close,
     average |-> Value([period |-> SummaryBarCount], bars)]

Compare(operator, a, b) ==
    \/ operator = "<" /\ a < b
    \/ operator = "<=" /\ a <= b
    \/ operator = ">" /\ a > b
    \/ operator = ">=" /\ a >= b

-----------------------------------------------------------------------------
(* Step 1.                                                                 *)

\* The newest last daily bar of the start instruments.
DailyBarsDate(summaries) == Max({summaries[i].day : i \in DOMAIN summaries})

FilterIsTrue(filter, summary, date) ==
    CASE filter.field = "still_trading" -> summary.day >= date - StillTradingDays
      [] filter.field = "last_price" -> Compare(filter.operator, summary.close, filter.value)
      [] OTHER -> summary.average # NoValue /\ Compare(filter.operator, summary.average, filter.value)

\* The first item that is not true, 0 for none.
FirstFailure(is_true) ==
    LET failed == {k \in DOMAIN is_true : ~is_true[k]} IN IF failed = {} THEN 0 ELSE Min(failed)

\* find_filter_reason: the first filter that is not true excludes.
FilterReason(filters, summary, date) ==
    LET k == FirstFailure([f \in DOMAIN filters |-> FilterIsTrue(filters[f], summary, date)])
    IN  CASE k = 0 -> <<>>
          [] filters[k].field = "average_trading_value" /\ summary.average = NoValue -> <<"no value">>
          [] OTHER -> <<"filter", k>>

\* apply_filters
FilterReasons(filters, summaries) ==
    LET date == DailyBarsDate(summaries) IN [i \in DOMAIN summaries |-> FilterReason(filters, summaries[i], date)]

-----------------------------------------------------------------------------
(* The prefilter: a condition that the summary answers.                    *)

IsSummaryCondition(condition) ==
    condition.kind = "compare" /\ condition.indicator.key = "average_trading_value"
    /\ condition.indicator.period = SummaryBarCount

PrefilterReason(conditions, summary) ==
    LET IsTrue(c) == IsSummaryCondition(c) => Compare(c.operator, summary.average, c.value)
        k == FirstFailure([c \in DOMAIN conditions |-> IsTrue(conditions[c])])
    IN  IF summary.average = NoValue \/ k = 0 THEN <<>> ELSE <<"condition", k>>

\* With a rank condition it excludes no instrument: the percentiles use all candidates.
Prefilter(conditions, summaries, kept) ==
    IF \E k \in DOMAIN conditions : conditions[k].kind = "rank" THEN kept
    ELSE {i \in kept : PrefilterReason(conditions, summaries[i]) = <<>>}

-----------------------------------------------------------------------------
(* Step 2.                                                                 *)

\* The indicators of the conditions and of the order.
Columns(definition) ==
    {definition.conditions[k].indicator : k \in DOMAIN definition.conditions} \cup {definition.order.indicator}
LookBack(definition) == Max({column.period : column \in Columns(definition)})

\* calculate_candidates: an instrument with a value for each indicator.
Candidates(definition, bars, to_read) ==
    {i \in to_read : \A column \in Columns(definition) : Value(column, bars[i]) # NoValue}

\* calculate_percentiles, as counts: the values at or below, and the values below.
AtOrBelow(values, value) == Cardinality({i \in DOMAIN values : values[i] <= value})
Below(values, value) == Cardinality({i \in DOMAIN values : values[i] < value})

IsInRank(condition, values, value) ==
    LET count == Cardinality(DOMAIN values)
    IN  IF condition.end = "top"
        THEN 100 * AtOrBelow(values, value) > (100 - condition.percent) * count
        ELSE 100 * Below(values, value) < condition.percent * count

IsConditionTrue(condition, bars, candidates, i) ==
    LET value == [j \in candidates |-> Value(condition.indicator, bars[j])]
        close == Last(bars[i]).close * condition.indicator.period
    IN  CASE condition.kind = "compare" -> Compare(condition.operator, value[i], condition.value)
          [] condition.kind = "line" -> IF condition.side = "above" THEN close > value[i] ELSE close < value[i]
          [] OTHER -> IsInRank(condition, value, value[i])

\* sort_rows: by the order indicator, then by symbol; the first keep_first.
Rows(order, bars, passing) ==
    LET value == [i \in passing |-> Value(order.indicator, bars[i])]
        precedes(i, j) ==
            \/ IF order.direction = "descending" THEN value[i] > value[j] ELSE value[i] < value[j]
            \/ value[i] = value[j] /\ i < j
        sorted == SetToSortSeq(passing, precedes)
        keep == Min({order.keep_first, MaxResultRows, Len(sorted)})
    IN  SubSeq(sorted, 1, keep)

\* The first condition that is not true for each candidate, 0 for none.
ConditionFailures(conditions, bars, candidates) ==
    [i \in candidates |->
        FirstFailure([k \in DOMAIN conditions |-> IsConditionTrue(conditions[k], bars, candidates, i)])]
Result(definition, start, summaries, filter_reason, to_read, bars, condition_failure) ==
    LET candidates == DOMAIN condition_failure
        passing == {i \in candidates : condition_failure[i] = 0}
        kept == {i \in DOMAIN summaries : filter_reason[i] = <<>>}
    IN  [kept |-> kept, to_read |-> to_read, passing |-> passing, rows |-> Rows(definition.order, bars, passing),
         excluded |-> [i \in start \ passing |->
                        CASE i \notin DOMAIN summaries -> <<"no daily bars">>
                          [] i \notin kept -> filter_reason[i]
                          [] i \notin to_read -> PrefilterReason(definition.conditions, summaries[i])
                          [] i \notin candidates -> <<"no value">>
                          [] OTHER -> <<"condition", condition_failure[i]>>]]

\* run_screen_steps. `read` gives the bars of an instrument before a day; `summaries` are those that exist.
RunSteps(definition, start, summaries, read, with_prefilter) ==
    LET date == DailyBarsDate(summaries)
        filter_reason == FilterReasons(definition.filters, summaries)
        kept == {i \in DOMAIN summaries : filter_reason[i] = <<>>}
        to_read == IF with_prefilter THEN Prefilter(definition.conditions, summaries, kept) ELSE kept
        bars == [i \in to_read |-> LastBars(Before(read[i], date + 1), LookBack(definition))]
    IN  Result(definition, start, summaries, filter_reason, to_read, bars,
               ConditionFailures(definition.conditions, bars, Candidates(definition, bars, to_read)))

Summaries(bars) == [i \in {j \in DOMAIN bars : bars[j] # <<>>} |-> Summary(bars[i])]

\* run_saved_screen: the saved bars of today.
RunScreen(definition, bars) == RunSteps(definition, DOMAIN bars, Summaries(bars), bars, FALSE)

\* run_screen_at: the summaries and the bars before `as_of`, with the prefilter.
RunScreenAt(definition, bars, as_of) ==
    LET then == [i \in DOMAIN bars |-> Before(bars[i], as_of)]
    IN  RunSteps(definition, DOMAIN bars, Summaries(then), then, TRUE)
-----------------------------------------------------------------------------
\* A screen backtest has the rows that the screen page had at that time: no later bar changes them, and the prefilter
\* takes no row away ("the rows stay the same", run_screen_steps). An instrument that does not pass has one reason.
SameRun(instruments, page, at) ==
    /\ page.rows = at.rows /\ page.passing = at.passing
    /\ at.passing \subseteq at.to_read /\ at.to_read \subseteq at.kept
    /\ \A i \in instruments : i \in page.passing <=> i \notin DOMAIN page.excluded
    /\ \A i \in DOMAIN page.excluded : page.excluded[i] # <<>>
ScreenKnowsNoLaterBar(definition, bars, as_of) ==
    LET then == [i \in DOMAIN bars |->
                    SubSeq(bars[i], 1, Cardinality({k \in DOMAIN bars[i] : bars[i][k].day < as_of}))]
    IN  SameRun(DOMAIN bars, RunScreen(definition, then), RunScreenAt(definition, bars, as_of))

\* "Top N%: fewer than N% of the values are higher. Bottom N%: fewer than N% of the values are lower." The order of the
\* conditions changes no row.
RanksInRun(definition, bars, run, swapped) ==
    LET candidates == run.passing \cup {i \in DOMAIN run.excluded : run.excluded[i][1] = "condition"}
        value(c, i) == Value(c.indicator, LastBars(bars[i], LookBack(definition)))
        beyond(c, i) == {j \in candidates : IF c.end = "top" THEN value(c, j) > value(c, i) ELSE value(c, j) < value(c, i)}
    IN  /\ run.rows = swapped.rows
        /\ \A i \in run.passing : \A k \in DOMAIN definition.conditions :
            LET c == definition.conditions[k]
            IN  c.kind = "rank" => 100 * Cardinality(beyond(c, i)) < c.percent * Cardinality(candidates)
RankIsAShare(definition, bars) ==
    RanksInRun(definition, bars, RunScreen(definition, bars),
               RunScreen([definition EXCEPT !.conditions = Reverse(@)], bars))
=============================================================================
