------------------------------ MODULE BarSources ------------------------------
(***************************************************************************)
(* The bars that two bar sources saved, read as one: the merge rule of the *)
(* source order as the chart and the backtests apply it to time ranges     *)
(* (bar_reading.py, bar_store.py), and as one SQL statement applies it to  *)
(* the last daily bars of many instruments, with the daily bar summary     *)
(* (daily_bar_summary.py).                                                 *)
(*                                                                         *)
(* A time is a number, and a bar is its start: <<start, source>>. A time   *)
(* range is from its start to its end, without the end. `db` holds, per    *)
(* source, the `bars` and the saved `ranges` of one instrument.            *)
(***************************************************************************)
EXTENDS Integers, Sequences, FiniteSets, SequencesExt, FiniteSetsExt

BarSource == {"ibkr", "databento"}
SummaryBarCount == 2    \* 20 in the code

IsSourceOrder(order) == IsInjective(order) /\ BarSource \subseteq Range(order)
Times(range) == range.start .. range.end - 1
SortByStart(ranges) == SetToSortSeq(ranges, LAMBDA r, s : r.start < s.start \/ (r.start = s.start /\ r.end <= s.end))
Reversed(days) == SetToSortSeq(days, >)

-----------------------------------------------------------------------------
(* Time ranges.                                                            *)

FloorToBarStart(time, length) == time - (time % length)
CeilToBarStart(time, length) ==
    IF FloorToBarStart(time, length) = time THEN time ELSE FloorToBarStart(time, length) + length

\* The whole bar periods of the range that are complete now, or none.
LimitToCompleteBars(range, length, now) ==
    LET start == FloorToBarStart(range.start, length)
        end == Min({CeilToBarStart(range.end, length), FloorToBarStart(now, length)})
    IN IF start >= end THEN {} ELSE {[start |-> start, end |-> end]}

\* The parts of the range that no saved range covers; the saved ranges go up by their start.
FindMissingRanges(range, saved) ==
    LET Step(found, s) ==
            IF found.cursor >= range.end THEN found
            ELSE [missing |-> IF s.start > found.cursor
                              THEN Append(found.missing, [start |-> found.cursor, end |-> Min({s.start, range.end})])
                              ELSE found.missing,
                  cursor |-> Max({found.cursor, s.end})]
        all == FoldLeft(Step, [missing |-> <<>>, cursor |-> range.start], saved)
    IN IF all.cursor >= range.end THEN all.missing
       ELSE Append(all.missing, [start |-> all.cursor, end |-> range.end])

SelectSavedRanges(ranges, range) == SortByStart({r \in ranges : r.start < range.end /\ r.end > range.start})

\* A saved range joins each one that overlaps or touches it.
JoinSavedRange(ranges, new) ==
    LET joined == {r \in ranges : r.start <= new.end /\ r.end >= new.start}
    IN (ranges \ joined) \cup {[start |-> Min({r.start : r \in joined \cup {new}}),
                                end |-> Max({r.end : r \in joined \cup {new}})]}

-----------------------------------------------------------------------------
(* The merge of time ranges.                                               *)

\* Each part of the range goes to the first source of the order that saved it, also when it saved no bar there.
AssignSourceRanges(range, saved_by_source) ==
    LET AddRange(source, found, s) ==
            LET part == [start |-> Max({s.start, range.start}), end |-> Min({s.end, range.end})]
                new == FindMissingRanges(part, SortByStart({f.range : f \in Range(found)}))
            IN IF part.start >= part.end THEN found
               ELSE found \o [i \in DOMAIN new |-> [source |-> source, range |-> new[i]]]
        AddSource(found, saved) == FoldLeft(LAMBDA f, s : AddRange(saved.source, f, s), found, saved.ranges)
    IN FoldLeft(AddSource, <<>>, saved_by_source)

SelectSourceRanges(order, db, range) ==
    AssignSourceRanges(range, [i \in DOMAIN order |-> [source |-> order[i],
                                                       ranges |-> SelectSavedRanges(db[order[i]].ranges, range)]])
SelectBars(db, source, range) == SetToSortSeq({t \in db[source].bars : t \in Times(range)}, <)
BarsOfParts(order, db, parts) ==
    LET BarsOf(part) == LET bars == SelectBars(db, part.source, part.range)
                        IN [i \in DOMAIN bars |-> <<bars[i], part.source>>]
        bars == FlattenSeq([i \in DOMAIN parts |-> BarsOf(parts[i])])
    IN [bars |-> SortSeq(bars, LAMBDA b, c : b[1] < c[1]),
        counts |-> [source \in Range(order) |-> Cardinality({i \in DOMAIN bars : bars[i][2] = source})]]
SelectMergedBars(order, db, range) == BarsOfParts(order, db, SelectSourceRanges(order, db, range))
SelectUnsavedRanges(order, db, range) ==
    FindMissingRanges(range, SortByStart({part.range : part \in Range(SelectSourceRanges(order, db, range))}))
HasSavedBars(order, db, range) ==
    \E part \in Range(SelectSourceRanges(order, db, range)) : db[part.source].bars \cap Times(part.range) # {}

\* The first and the last saved bar of each source, in the source order; the saved ranges play no part.
SelectSavedBarCoverage(order, db, range) ==
    LET Bars(source) == db[source].bars \cap Times(range)
        sources == SelectSeq(order, LAMBDA source : Bars(source) # {})
    IN [i \in DOMAIN sources |-> [source |-> sources[i], first |-> Min(Bars(sources[i])), last |-> Max(Bars(sources[i]))]]

-----------------------------------------------------------------------------
(* The last daily bars by one SQL statement, and the daily bar summary.    *)

RangeContainsBar(db, source, t) == \E r \in db[source].ranges : t \in Times(r)
IsEarlier(order, other, own) == \E i, j \in DOMAIN order : i < j /\ order[i] = other /\ order[j] = own
LastOnes(times, count) == {t \in times : Cardinality({u \in times : u > t}) < count}

\* The last bars of one source that the merge rule keeps, before a time.
SourceBars(order, db, source, before, count) ==
    LET kept == {t \in db[source].bars : /\ t < before
                                         /\ RangeContainsBar(db, source, t)
                                         /\ \A other \in BarSource \ {source} :
                                                ~(IsEarlier(order, other, source) /\ RangeContainsBar(db, other, t))}
    IN {<<t, source>> : t \in LastOnes(kept, count)}
LastDailyBars(order, db, before, count) ==
    LET bars == UNION {SourceBars(order, db, source, before, count) : source \in BarSource}
        last == {b \in bars : Cardinality({c \in bars : c[1] > b[1]}) < count}
    IN SetToSortSeq(last, LAMBDA b, c : b[1] < c[1])

CalculateDailyBarSummary(bars) == [last_day |-> Last(bars)[1], bars |-> bars]
NoSummary == [last_day |-> -1, bars |-> <<>>]
\* The rows of `instruments` again from their bars; an instrument without bars has no row.
UpdateDailyBarSummaries(table, instruments, order, dbs) ==
    [i \in DOMAIN table |->
        IF i \notin instruments THEN table[i]
        ELSE LET bars == LastDailyBars(order, dbs[i], 1000, SummaryBarCount)
             IN IF bars = <<>> THEN NoSummary ELSE CalculateDailyBarSummary(bars)]
UpdateAllDailyBarSummaries(table, order, dbs) ==
    UpdateDailyBarSummaries(
        table,
        {i \in DOMAIN table : table[i] # NoSummary \/ \E source \in BarSource : dbs[i][source].ranges # {}},
        order, dbs)

\* Each split ratio is 2: a close is the count of its halvings. The splits after the last day that changed the table of
\* the last bar.
SelectLaterSplits(splits, last) ==
    {s \in splits : /\ s.ex_day > last[1]
                    /\ s.confirmation \in {"both_evidences", "bar_evidence", "user_apply", "import_check"}
                    /\ ~(last[2] = "ibkr" /\ s.source = "databento_import" /\ s.confirmation = "bar_evidence")}
RestoreLastClose(stored_close, splits, last) == stored_close + Cardinality(SelectLaterSplits(splits, last))
\* The summary row that an instrument had before a day; stored_close has the close of each bar.
ReadDailyBarSummaryBefore(order, db, before, stored_close, splits) ==
    LET bars == LastDailyBars(order, db, before, SummaryBarCount)
    IN IF bars = <<>> THEN {}
       ELSE {[last_day |-> Last(bars)[1], last_close |-> RestoreLastClose(stored_close[Last(bars)], splits, Last(bars))]}

-----------------------------------------------------------------------------
\* What the merge is: each bar of the first source whose saved ranges hold its start.
Merged(order, db, range) ==
    LET Holder(t) == {i \in DOMAIN order : RangeContainsBar(db, order[i], t)}
        held == {t \in Times(range) : Holder(t) # {}}
        owner == [t \in held |-> order[Min(Holder(t))]]
    IN {<<t, owner[t]>> : t \in {t \in held : t \in db[owner[t]].bars}}

\* The chart, a backtest, the check for bars and the summary see the same bars of the same source, each one once; the
\* missing ranges are the times that no source saved, and no more is missing after they are saved.
ReadersAgree(order, db, range, merged, unsaved, from_start) ==
    LET missing == UNION {Times(r) : r \in Range(unsaved)}
        filled == [db EXCEPT !["ibkr"].ranges = FoldLeft(JoinSavedRange, @, unsaved)]
        length == Len(from_start)
    IN /\ IsInjective(merged.bars) /\ Range(merged.bars) = Merged(order, db, range)
       /\ \A source \in BarSource :
            merged.counts[source] = Cardinality({b \in Merged(order, db, range) : b[2] = source})
       /\ missing = {t \in Times(range) : \A source \in BarSource : ~RangeContainsBar(db, source, t)}
       /\ SelectUnsavedRanges(order, filled, range) = <<>>
       /\ HasSavedBars(order, db, range) = (merged.bars # <<>>)
       /\ \A b \in Range(merged.bars) : \E coverage \in Range(SelectSavedBarCoverage(order, db, range)) :
            coverage.source = b[2] /\ coverage.first <= b[1] /\ b[1] <= coverage.last
       /\ LastDailyBars(order, db, range.end, SummaryBarCount)
            = SubSeq(from_start, Max({1, length - SummaryBarCount + 1}), length)
MergeIsTheSame(order, db, range) ==
    ReadersAgree(order, db, range, SelectMergedBars(order, db, range), SelectUnsavedRanges(order, db, range),
                 SelectMergedBars(order, db, [start |-> 0, end |-> range.end]).bars)

\* The saved ranges after a join cover the same times and the new one, and no two of them touch when none did before.
JoinsKeepTheRanges(ranges, new) ==
    LET joined == JoinSavedRange(ranges, new)
        Apart(set) == \A r, s \in set : r = s \/ r.end < s.start \/ s.end < r.start
    IN /\ UNION {Times(r) : r \in joined} = UNION {Times(r) : r \in ranges \cup {new}}
       /\ Apart(ranges) => Apart(joined)

\* After a change of the source order, each summary is the one of a fresh table, also of an instrument whose bars are
\* gone; and a change of one instrument needs only its own row.
SummariesAreFresh(order, old_order, dbs, old_dbs) ==
    LET empty == [i \in DOMAIN dbs |-> NoSummary]
        old == UpdateAllDailyBarSummaries(empty, old_order, old_dbs)
        fresh == UpdateAllDailyBarSummaries(empty, order, dbs)
        changed == {i \in DOMAIN dbs : dbs[i] # old_dbs[i]}
    IN /\ UpdateAllDailyBarSummaries(old, order, dbs) = fresh
       /\ order = old_order => UpdateDailyBarSummaries(old, changed, order, dbs) = fresh

\* The bar tables that a confirmed split changed.
ChangedTables(split) ==
    CASE split.confirmation = "bar_evidence" /\ split.source = "databento_import" -> {"databento"}
      [] split.confirmation \in {"none", "import_rejected"} -> {}
      [] OTHER -> BarSource
\* The summary of an earlier day has the real close of that day, whatever splits came later.
EarlierSummaryHasRealClose(order, db, before, splits) ==
    LET RealClose(b) == 10 * b[1]
        stored_close ==
            [b \in UNION {db[source].bars \X {source} : source \in BarSource} |->
                RealClose(b) - Cardinality({s \in splits : s.ex_day > b[1] /\ b[2] \in ChangedTables(s)})]
    IN \A summary \in ReadDailyBarSummaryBefore(order, db, before, stored_close, splits) :
            /\ summary.last_day < before
            /\ summary.last_close = 10 * summary.last_day

\* The range that is saved holds each complete bar of the requested one, and no bar that can still change.
OnlyCompleteBarsAreSaved(range, length, now) ==
    LET limited == LimitToCompleteBars(range, length, now)
        starts == {t \in 0 .. range.end : t % length = 0 /\ t < range.end /\ t + length > range.start}
    IN /\ \A r \in limited : \A t \in {t \in Times(r) : t % length = 0} : t + length <= now
       /\ UNION {Times(r) : r \in limited} = UNION {t .. t + length - 1 : t \in {t \in starts : t + length <= now}}
=============================================================================
