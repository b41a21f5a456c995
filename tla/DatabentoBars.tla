--------------------------- MODULE DatabentoBars -----------------------------
(***************************************************************************)
(* The Databento bars of one instrument and their stock splits: the import *)
(* (databento_import.py), the user check of what its detection rule found  *)
(* (import_check.py), the IBKR stock split check with its read step and    *)
(* apply step (ibkr_split_check.py), and the stock splits that the owner   *)
(* ledger confirms (stock_split_change.py).                                *)
(*                                                                         *)
(* Databento sells raw prices; the stored bars have the form after each    *)
(* applied stock split. Each ratio is 2, so a price level is the count of  *)
(* divisions. One step of the clock is a day; a purchase ends in the past. *)
(***************************************************************************)
EXTENDS Integers, FiniteSets, FiniteSetsExt, Functions

CONSTANTS
    LastDay,        \* bound: the days
    Splits,         \* ex-dates of the stock splits of the company
    Gaps,           \* other days whose price opens at half of the last close
    Margin,         \* the checked days that a later check reads again
    MaxImports,     \* bound
    ImportRunsAlone \* no user check and no "Apply split" while an import runs

ExDays == 2 .. LastDay
MatchDays == 5
MaxNoAnswerTries == 1   \* MAX_NO_ANSWER_TRIES, 3 in the code

VARIABLES
    market_day,     \* today
    stored,         \* per stored day of databento_bar: the divisions of its daily bar, per ex-date
    hours,          \* the same of its first hourly bar, and of the open of this bar
    rows,           \* confirmation of the stock_split rows, "none" without a row
    import,         \* the import transaction
    check_end, read_end, checked_end,   \* of the ibkr_split_check row, 0 is NULL
    has_closes,
    closes,         \* per day of ibkr_daily_close: the day on which IBKR sent it
    reading,        \* the transaction of the read step
    no_answers,
    imports

databentoVars == <<market_day, stored, hours, rows, import, check_end, read_end, checked_end, has_closes, closes,
                   reading, no_answers, imports>>
checkVars == <<check_end, read_end, checked_end, has_closes, closes, reading, no_answers>>

Idle == [at |-> "idle"]
Raw == [x \in ExDays |-> 0]
Applied(confirmations) == {x \in ExDays : confirmations[x] \in {"both_evidences", "bar_evidence", "import_check"}}
\* The bars of days before an ex-date are divided once more for each time that it is in `splits`.
Divide(bars, splits) ==
    [d \in DOMAIN bars |-> [x \in ExDays |-> bars[d][x] + IF x \in splits /\ d < x THEN 1 ELSE 0]]
DivideHours(bars, splits) ==
    [d \in DOMAIN bars |-> [price |-> Divide([e \in {d} |-> bars[d].price], splits)[d],
                            open |-> Divide([e \in {d} |-> bars[d].open], splits)[d]]]
\* An upsert: the new rows in the place of the old ones of their days.
Over(new, old) == [d \in DOMAIN new \cup DOMAIN old |-> IF d \in DOMAIN new THEN new[d] ELSE old[d]]
Divisions(bar) == SumFunction(bar)
\* How often the price halved from a day to a later one, before any division.
Halvings(p, d) == Cardinality({x \in Splits \cup Gaps : p < x /\ x <= d})

Init ==
    /\ market_day = 2
    /\ stored = [d \in {} |-> Raw]
    /\ hours = [d \in {} |-> [price |-> Raw, open |-> Raw]]
    /\ rows = [x \in ExDays |-> "none"]
    /\ import = Idle
    /\ check_end = 0 /\ read_end = 0 /\ checked_end = 0
    /\ has_closes = FALSE
    /\ closes = [d \in {} |-> 0]
    /\ reading = Idle
    /\ no_answers = 0
    /\ imports = 0

NewDay ==
    /\ market_day <= LastDay
    /\ market_day' = market_day + 1
    /\ UNCHANGED <<stored, hours, rows, import, imports>> /\ UNCHANGED checkVars

-----------------------------------------------------------------------------
(* The import: one transaction, with the advisory lock from its start.     *)

LockIsFree == import = Idle

\* The detection rule: a day whose open is a common split ratio under the close of the day before, in `bars`.
Detected(bars) ==
    {x \in ExDays : {x - 1, x} \subseteq DOMAIN bars
                    /\ Halvings(x - 1, x) - (Divisions(bars[x - 1]) - Divisions(bars[x])) = 1}

\* A found split gets a row, unless there is one on its day, or an applied one of the same ratio shortly before it.
RecordStockSplits(confirmations, found) ==
    [x \in ExDays |->
        IF x \in found /\ confirmations[x] = "none"
           /\ ~\E y \in Applied(confirmations) : y < x /\ y >= x - MatchDays
        THEN "waiting" ELSE confirmations[x]]

\* An import of the program looks with the detection rule only at instruments without a bar on its last day, and the
\* quarterly universe update looks at all. It has the bars of days `first` to `last`; with `hourly` also hourly bars. The
\* purchases go forward in time and leave no day out: the splits of older days that come later are not looked for.
StartImport(first, last, still_trades, hourly) ==
    /\ LockIsFree
    /\ imports < MaxImports
    /\ last < market_day
    /\ DOMAIN stored # {} => first \in Min(DOMAIN stored) .. (Max(DOMAIN stored) + 1)
    /\ still_trades => reading = Idle           \* the ibkr_split_check row is locked
    /\ LET days == [d \in first .. last |-> Raw]
       IN import' = [at |-> "linked", days |-> days, found |-> IF still_trades THEN {} ELSE Detected(days),
                     end |-> IF still_trades THEN last + 1 ELSE 0, hourly |-> hourly]
    /\ imports' = imports + 1
    /\ UNCHANGED <<market_day, stored, hours, rows>> /\ UNCHANGED checkVars

\* The rows of the import itself are not confirmed, so they change no bar. The hourly bars have the same divisions, and
\* the open of the first one is the open of the daily bar after the adjustment.
AdjustImportBars ==
    /\ import.at = "linked"
    /\ import' = [import EXCEPT !.at = "adjusted", !.days = Divide(@, Applied(rows))]
    /\ UNCHANGED <<market_day, stored, hours, rows, imports>> /\ UNCHANGED checkVars

Save ==
    /\ import.at = "adjusted"
    /\ stored' = Over(import.days, stored)
    /\ hours' = IF import.hourly
                THEN Over([d \in DOMAIN import.days |-> [price |-> import.days[d], open |-> import.days[d]]], hours)
                ELSE hours
    /\ rows' = RecordStockSplits(rows, import.found)
    /\ check_end' = Max({check_end, import.end})
    /\ import' = Idle
    /\ UNCHANGED <<market_day, imports, read_end, checked_end, has_closes, closes, reading, no_answers>>

\* A file that cannot be imported, or a stop: the transaction saves nothing.
ImportFails ==
    /\ import # Idle
    /\ import' = Idle
    /\ UNCHANGED <<market_day, stored, hours, rows, imports>> /\ UNCHANGED checkVars

\* An import of hourly bars only: the daily bars are stored already.
ImportHours(first, last) ==
    /\ LockIsFree
    /\ imports < MaxImports
    /\ first .. last \subseteq DOMAIN stored
    /\ hours' = Over([d \in first .. last |-> [price |-> Divide([e \in {d} |-> Raw], Applied(rows))[d],
                                               open |-> stored[d]]], hours)
    /\ imports' = imports + 1
    /\ UNCHANGED <<market_day, stored, rows, import>> /\ UNCHANGED checkVars

-----------------------------------------------------------------------------
(* The stock splits that change the stored bars: neither of the two takes  *)
(* the advisory lock.                                                      *)

ChangeStoredBars(splits) ==
    /\ stored' = Divide(stored, splits)
    /\ hours' = DivideHours(hours, splits)

\* The user check confirms each waiting row but the rejected ones.
CheckImportDetections(rejected) ==
    /\ ImportRunsAlone => import = Idle
    /\ LET waiting == {x \in ExDays : rows[x] = "waiting"}
       IN /\ waiting # {} /\ rejected \subseteq waiting
          /\ rows' = [x \in ExDays |-> IF x \in rejected THEN "import_rejected"
                                       ELSE IF x \in waiting THEN "import_check" ELSE rows[x]]
          /\ ChangeStoredBars(waiting \ rejected)
    /\ UNCHANGED <<market_day, import, imports>> /\ UNCHANGED checkVars

\* The split check of the owner ledger: its ex-date is the day after the last stored bar that is older than the split.
\* A row of the import is refused.
ApplyStockSplit(x) ==
    /\ ImportRunsAlone => import = Idle
    /\ rows[x] = "none"
    /\ DOMAIN stored # {} /\ x = Max(DOMAIN stored) + 1
    /\ \E s \in Splits : x <= s /\ s <= market_day
                        /\ ~\E y \in Applied(rows) : y <= s /\ s - MatchDays <= y
    /\ rows' = [rows EXCEPT ![x] = "both_evidences"]
    /\ ChangeStoredBars({x})
    /\ UNCHANGED <<market_day, import, imports>> /\ UNCHANGED checkVars

-----------------------------------------------------------------------------
(* The IBKR stock split check.                                             *)

\* A read that starts at the first day that no read checked.
FindReadStartWithoutMargin(end) == IF end = 0 THEN 1 ELSE end
FindReadStart(end) == IF end = 0 THEN 1 ELSE end - Margin
StoredPrices(start) == {d \in DOMAIN stored : d >= start /\ d < check_end}
NeedsRead == read_end < check_end
NeedsApply == check_end > 0 /\ read_end >= check_end /\ checked_end < check_end

\* The read step holds the ibkr_split_check row while it waits for IBKR; after three requests without an answer in a row
\* it sends none.
StartRead ==
    /\ NeedsRead /\ reading = Idle
    /\ import # Idle => import.end = 0          \* the import has the row locked
    /\ reading' = [at |-> "reading", days |-> StoredPrices(FindReadStart(read_end)), end |-> check_end]
    /\ UNCHANGED <<market_day, stored, hours, rows, import, imports>>
    /\ UNCHANGED <<check_end, read_end, checked_end, has_closes, closes, no_answers>>

EndRead(answered) ==
    /\ reading # Idle
    /\ answered => no_answers < MaxNoAnswerTries /\ reading.days # {}
    /\ closes' = IF answered
                 THEN Over([d \in Min(reading.days) .. (reading.end - 1) |-> market_day], closes)
                 ELSE closes
    /\ has_closes' = IF reading.days = {} THEN has_closes ELSE answered
    /\ read_end' = reading.end
    /\ reading' = Idle
    /\ no_answers' = 0
    /\ UNCHANGED <<market_day, stored, hours, rows, import, imports, check_end, checked_end>>

\* No answer, a pacing violation or a lost connection: the transaction saves nothing, and the read tries again.
ReadFails(counted) ==
    /\ reading # Idle /\ reading.days # {}
    /\ no_answers < MaxNoAnswerTries
    /\ reading' = Idle
    /\ no_answers' = IF counted THEN no_answers + 1 ELSE no_answers
    /\ UNCHANGED <<market_day, stored, hours, rows, import, imports, check_end, read_end, checked_end, has_closes,
                   closes>>

\* The log2 of the Databento close divided by the IBKR close: IBKR sends its bars in the form of that day.
Ratio(d) == Cardinality({x \in Splits : d < x /\ x <= closes[d]}) - Divisions(stored[d])
PreviousOf(d, days) == Max({p \in days : p < d})
StepAt(d, days) == Ratio(PreviousOf(d, days)) - Ratio(d)
\* The Databento prices, before the division for the step, have its gap.
HasPriceGap(d, step, days) ==
    LET p == PreviousOf(d, days)
    IN Halvings(p, d) - (Divisions(stored[p]) - Divisions(stored[d])) = step

\* The days of a step of the close ratio: `proven` with the price gap.
FoundSteps(prices, proven) ==
    LET overlap == prices \cap DOMAIN closes
    IN {d \in overlap : /\ \E p \in overlap : p < d
                        /\ StepAt(d, overlap) # 0
                        /\ HasPriceGap(d, StepAt(d, overlap), prices) = proven}

\* A split with a row already keeps its row and changes no bar.
Apply ==
    /\ LockIsFree
    /\ NeedsApply /\ reading = Idle
    /\ LET prices == StoredPrices(FindReadStart(checked_end))
           new == {x \in ExDays : rows[x] = "none"}
           proven == IF has_closes THEN FoundSteps(prices, TRUE) \cap new ELSE {}
           waiting == (IF has_closes THEN FoundSteps(prices, FALSE) ELSE Detected(Restrict(stored, prices))) \cap new
       IN /\ rows' = [x \in ExDays |-> IF x \in proven THEN "bar_evidence"
                                       ELSE IF x \in waiting THEN "waiting" ELSE rows[x]]
          /\ ChangeStoredBars(proven)
    /\ checked_end' = check_end
    /\ UNCHANGED <<market_day, import, imports, check_end, read_end, has_closes, closes, reading, no_answers>>

Next ==
    \/ NewDay
    \/ \E first, last \in 1 .. LastDay, still_trades, hourly \in BOOLEAN :
        first <= last /\ StartImport(first, last, still_trades, hourly)
    \/ AdjustImportBars \/ Save \/ ImportFails
    \/ \E first, last \in 1 .. LastDay : first <= last /\ ImportHours(first, last)
    \/ \E rejected \in SUBSET ExDays : CheckImportDetections(rejected)
    \/ \E x \in ExDays : ApplyStockSplit(x)
    \/ StartRead
    \/ \E answered \in BOOLEAN : EndRead(answered)
    \/ \E counted \in BOOLEAN : ReadFails(counted)
    \/ Apply

-----------------------------------------------------------------------------
DatabentoTypeOK ==
    /\ DOMAIN stored \subseteq 1 .. LastDay /\ DOMAIN hours \subseteq DOMAIN stored
    /\ rows \in [ExDays -> {"none", "waiting", "both_evidences", "bar_evidence", "import_check", "import_rejected"}]
    /\ import.at \in {"idle", "linked", "adjusted"}
    /\ checked_end <= read_end /\ read_end <= check_end
    /\ no_answers \in 0 .. MaxNoAnswerTries

\* Each stored bar before the ex-date of an applied stock split is divided once for it, and no bar for another reason:
\* after imports of the same days and of later days, a failed import, and the checks in each order.
BarsAreDividedOnce ==
    LET form == Divide([d \in DOMAIN stored |-> Raw], Applied(rows))
    IN /\ stored = form
       /\ \A d \in DOMAIN hours : hours[d] = [price |-> form[d], open |-> form[d]]

\* The close ratio shows the stock split: its day and the day before have closes, that of the day before is from after
\* the split, and no other split is between the moments at which IBKR sent the two.
IsShown(s) ==
    /\ {s - 1, s} \subseteq DOMAIN closes
    /\ s <= closes[s - 1]
    /\ ~\E t \in Splits : closes[s - 1] < t /\ t <= closes[s]

\* The stock split has a row, or the row of a day shortly before it stands for it.
HasRow(s) == \E x \in ExDays : rows[x] # "none" /\ s - MatchDays <= x /\ x <= s

StoredPairs == {s \in Splits : {s - 1, s} \subseteq DOMAIN stored}
IsChecked == check_end > 0 /\ checked_end = check_end

\* When the instrument no longer waits for the IBKR stock split check, each stock split that the close ratio of the
\* checked days shows has a row, in whatever reads the closes came; and without any close each stock split of the checked
\* days has one.
CheckedDaysHideNoSplit ==
    IsChecked => \A s \in StoredPairs : s < checked_end /\ (IsShown(s) \/ DOMAIN closes = {}) => HasRow(s)

\* The days of which IBKR sent no closes are checked by the detection rule (docs/architecture/market_data.md section
\* 8.8.3.1: "the read sets `has_ibkr_closes` to false, so the apply step uses the detection rule").
UnansweredDaysAreDetected ==
    IsChecked => \A s \in StoredPairs : s < checked_end /\ {s - 1, s} \cap DOMAIN closes = {} => HasRow(s)

Spec == Init /\ [][Next]_databentoVars
=============================================================================
