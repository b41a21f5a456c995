------------------------------ MODULE BarStore ------------------------------
(***************************************************************************)
(* The daily IBKR bars of one instrument in PostgreSQL. The charts fill    *)
(* the missing days (bar_reading.py), the daily bar update reads from the  *)
(* last saved day on (daily_bar_update.py), and a stock split that is      *)
(* confirmed divides the stored bars (stock_split_change.py). IBKR changes *)
(* all its bars before the ex-date to the new form at the split, so each   *)
(* reader compares a stored day with IBKR first and saves its bars in the  *)
(* form of the store (stock_split_evidence.py).                            *)
(***************************************************************************)
EXTENDS Integers, FiniteSets, FiniteSetsExt

CONSTANTS
    Charts,         \* requests of the bars route in flight
    Days,           \* bound: the days 1 .. Days
    Holidays,       \* days without a bar
    ExDate,         \* the day of the split
    Overlaps,       \* the update and a confirmation run while a chart fills its range
    MaxDrops        \* bound: losses of the connection

Update == "update"
Readers == Charts \cup {Update}
Day == 1 .. Days

VARIABLES
    today,      \* the current day; its bar is not complete
    bars,       \* form of the stored bar of each day
    saved,      \* the days of the saved ranges
    split,      \* IBKR returns the bars before the ex-date in the new form
    waiting,    \* ex-date of the stock split that waits for its confirmation, or 0
    summary,    \* last day of the daily bar summary, or 0
    lock,       \* fill lock of the instrument and the bar period
    job,        \* what each reader does
    chartSaves, \* per day: how often a chart saved it
    connected, drops,
    lastUpdate, stopped     \* days of DailyBarUpdate

store == <<bars, saved, waiting, summary>>
link == <<connected, drops>>
schedule == <<lastUpdate, stopped>>
barVars == <<today, bars, saved, split, waiting, summary, lock, job, chartSaves, connected, drops, lastUpdate, stopped>>

Idle == [at |-> "idle", todo |-> {}, got |-> {}, form |-> "none", read |-> 0]

Init ==
    /\ today = 1
    /\ bars = [d \in Day |-> "none"]
    /\ saved = {} /\ split = FALSE /\ waiting = 0 /\ summary = 0
    /\ lock = "free"
    /\ job = [r \in Readers |-> Idle]
    /\ chartSaves = [d \in Day |-> 0]
    /\ connected = TRUE /\ drops = 0
    /\ lastUpdate = 0 /\ stopped = 0

Stored == {d \in Day : bars[d] # "none"}
LastStored == IF Stored = {} THEN 0 ELSE Max(Stored)
Quiet(rs) == \A r \in rs : job[r] = Idle

\* The first of the missing ranges: days in a row.
FirstRange(days) == {d \in days : \A e \in Min(days) .. d : e \in days}

IbkrForm(d) == IF split \/ d >= ExDate THEN "new" ELSE "old"

-----------------------------------------------------------------------------
(* The steps of a read. All steps of a chart hold the fill lock; the       *)
(* update holds no lock.                                                   *)

RequestChartUnlocked(c) ==
    /\ job[c] = Idle
    /\ Overlaps \/ Quiet({Update})
    /\ \E first, last \in 1 .. today - 1 :
        LET missing == first .. last \ saved
        IN  /\ missing # {}
            /\ connected
            /\ job' = [job EXCEPT ![c] = [Idle EXCEPT !.at = "evidence", !.todo = missing]]
    /\ UNCHANGED <<today, split, lock, chartSaves>> /\ UNCHANGED store /\ UNCHANGED link /\ UNCHANGED schedule

\* limit_to_complete_bars: the bar of today is not read.
RequestChart(c) ==
    /\ lock = "free" /\ job[c] = Idle
    /\ Overlaps \/ Quiet({Update})
    /\ \E first, last \in 1 .. today - 1 :
        LET missing == first .. last \ saved
        IN  /\ missing # {}
            /\ connected    \* else GatewayNotConnectedError
            /\ job' = [job EXCEPT ![c] = [Idle EXCEPT !.at = "evidence", !.todo = missing]]
            /\ lock' = c
    /\ UNCHANGED <<today, split, chartSaves>> /\ UNCHANGED store /\ UNCHANGED link /\ UNCHANGED schedule

\* Evidence A: the last stored day differs from IBKR, and no stock split waits that explains it.
Evidence ==
    IF LastStored # 0 /\ bars[LastStored] # IbkrForm(LastStored) /\ waiting <= LastStored
    THEN LastStored + 1
    ELSE waiting

CheckEvidence(c) ==
    /\ job[c].at = "evidence" /\ connected
    /\ waiting' = Evidence
    /\ job' = [job EXCEPT ![c].at = "read"]
    /\ UNCHANGED <<today, bars, saved, summary, split, lock, chartSaves>> /\ UNCHANGED link /\ UNCHANGED schedule

\* The daily bar update finds evidence A in the bars it read.
ReadFromIbkr(r) ==
    /\ job[r].at = "read" /\ connected
    /\ LET part == FirstRange(job[r].todo) \ Holidays
       IN  job' = [job EXCEPT ![r].at = "convert", ![r].got = part]
    /\ waiting' = IF r = Update THEN Evidence ELSE waiting
    /\ UNCHANGED <<today, bars, saved, summary, split, lock, chartSaves>> /\ UNCHANGED link /\ UNCHANGED schedule

\* shows_split: the nearest stored bar before the ex-date of the waiting split has the old form, the received the new.
Convert(d) ==
    LET before == {e \in Stored : e < waiting}
    IN  IF d < waiting /\ before # {} /\ bars[Max(before)] = "old" THEN "old" ELSE IbkrForm(d)

ToStoredForm(r) ==
    /\ job[r].at = "convert"
    /\ job' = [job EXCEPT ![r].at = "save",
               ![r].form = [d \in job[r].got |-> Convert(d)]]
    /\ UNCHANGED <<today, split, lock, chartSaves>> /\ UNCHANGED store /\ UNCHANGED link /\ UNCHANGED schedule

\* The days of the saved range: the bars and the range in one transaction.
RangeToSave(r) == FirstRange(job[r].todo)

Save(r) ==
    /\ job[r].at = "save"
    /\ bars' = [d \in Day |-> IF d \in job[r].got THEN job[r].form[d] ELSE bars[d]]
    /\ saved' = saved \cup RangeToSave(r)
    /\ chartSaves' = [d \in Day |-> IF r # Update /\ d \in RangeToSave(r) THEN chartSaves[d] + 1 ELSE chartSaves[d]]
    /\ LET rest == job[r].todo \ FirstRange(job[r].todo)
       IN  job' = [job EXCEPT ![r] = [Idle EXCEPT !.at = IF rest = {} THEN "summary" ELSE "read", !.todo = rest]]
    /\ UNCHANGED <<today, split, waiting, summary, lock>> /\ UNCHANGED link /\ UNCHANGED schedule

ReadLastBars(r) ==
    /\ job[r].at = "summary"
    /\ job' = [job EXCEPT ![r].at = "upsert", ![r].read = LastStored]
    /\ UNCHANGED <<today, split, lock, chartSaves>> /\ UNCHANGED store /\ UNCHANGED link /\ UNCHANGED schedule

WriteSummary(r) ==
    /\ job[r].at = "upsert"
    /\ summary' = job[r].read
    /\ job' = [job EXCEPT ![r] = Idle]
    /\ lock' = IF lock = r THEN "free" ELSE lock
    /\ UNCHANGED <<today, bars, saved, waiting, split, chartSaves>> /\ UNCHANGED link /\ UNCHANGED schedule

\* A lost connection ends a chart request. The days that it saved before stay saved, without their summary.
ChartFails(c) ==
    /\ job[c].at \in {"evidence", "read"} /\ ~connected
    /\ job' = [job EXCEPT ![c] = Idle]
    /\ lock' = IF lock = c THEN "free" ELSE lock
    /\ UNCHANGED <<today, split, chartSaves>> /\ UNCHANGED store /\ UNCHANGED link /\ UNCHANGED schedule

-----------------------------------------------------------------------------
(* The schedule of the daily bar update.                                   *)

\* A stopped update of the day waits for the connection; without it, the day has no update.
UpdateIsDue == lastUpdate # today /\ (connected \/ stopped # today)

StartUpdate ==
    /\ UpdateIsDue /\ job[Update] = Idle
    /\ Overlaps \/ Quiet(Charts)
    /\ lastUpdate' = today
    /\ LET start == IF Stored = {} THEN 1 ELSE LastStored
       IN  job' = IF connected /\ start < today
                  THEN [job EXCEPT ![Update] = [Idle EXCEPT !.at = "read", !.todo = start .. today - 1]]
                  ELSE job
    /\ UNCHANGED <<today, split, lock, chartSaves, stopped>> /\ UNCHANGED store /\ UNCHANGED link

UpdateStopsForTheDay ==
    /\ job[Update].at = "read" /\ ~connected
    /\ job' = [job EXCEPT ![Update] = Idle]
    /\ stopped' = today
    /\ UNCHANGED <<today, split, lock, chartSaves, lastUpdate>> /\ UNCHANGED store /\ UNCHANGED link

UpdateStops ==
    /\ job[Update].at = "read" /\ ~connected
    /\ job' = [job EXCEPT ![Update] = Idle]
    /\ stopped' = today
    /\ lastUpdate' = 0
    /\ UNCHANGED <<today, split, lock, chartSaves>> /\ UNCHANGED store /\ UNCHANGED link

-----------------------------------------------------------------------------
NewDay ==
    /\ today < Days
    /\ Quiet({Update})
    /\ today' = today + 1
    /\ UNCHANGED <<split, lock, job, chartSaves>> /\ UNCHANGED store /\ UNCHANGED link /\ UNCHANGED schedule

\* IBKR changes its bars between two requests.
SplitAtIbkr ==
    /\ today = ExDate /\ ~split
    /\ Quiet(Readers)
    /\ split' = TRUE
    /\ UNCHANGED <<today, lock, job, chartSaves>> /\ UNCHANGED store /\ UNCHANGED link /\ UNCHANGED schedule

Divided(form) == CASE form = "none" -> "none" [] form = "old" -> "new" [] OTHER -> "divided twice"

\* One transaction divides all stored bars before the ex-date and updates the summary.
Confirm ==
    /\ waiting # 0
    /\ Overlaps \/ Quiet(Readers)
    /\ bars' = [d \in Day |-> IF d < waiting THEN Divided(bars[d]) ELSE bars[d]]
    /\ waiting' = 0
    /\ summary' = LastStored
    /\ UNCHANGED <<today, saved, split, lock, job, chartSaves>> /\ UNCHANGED link /\ UNCHANGED schedule

LoseConnection ==
    /\ connected /\ drops < MaxDrops
    /\ connected' = FALSE /\ drops' = drops + 1
    /\ UNCHANGED <<today, split, lock, job, chartSaves>> /\ UNCHANGED store /\ UNCHANGED schedule

Reconnect ==
    /\ ~connected
    /\ connected' = TRUE
    /\ UNCHANGED <<today, split, lock, job, chartSaves, drops>> /\ UNCHANGED store /\ UNCHANGED schedule

ReadStep(r) == ReadFromIbkr(r) \/ ToStoredForm(r) \/ Save(r) \/ ReadLastBars(r) \/ WriteSummary(r)
UpdateStep == StartUpdate \/ UpdateStops \/ ReadStep(Update)

Next ==
    \/ \E c \in Charts : RequestChart(c) \/ CheckEvidence(c) \/ ReadStep(c) \/ ChartFails(c)
    \/ UpdateStep \/ NewDay \/ SplitAtIbkr \/ Confirm \/ LoseConnection \/ Reconnect

Fairness ==
    /\ WF_barVars(UpdateStep) /\ WF_barVars(Reconnect)
    /\ \A c \in Charts : WF_barVars(CheckEvidence(c) \/ ReadStep(c) \/ ChartFails(c))
Spec == Init /\ [][Next]_barVars /\ Fairness

BarsTypeOK ==
    /\ today \in Day /\ lastUpdate \in 0 .. Days /\ stopped \in 0 .. Days
    /\ bars \in [Day -> {"none", "old", "new", "divided twice"}]
    /\ saved \subseteq Day
    /\ waiting \in 0 .. Days + 1 /\ summary \in 0 .. Days
    /\ lock \in Charts \cup {"free"}
    /\ \A r \in Readers : job[r].todo \subseteq Day /\ job[r].got \subseteq Day

\* The saved ranges are what the readers trust: each complete day in one has its bar, the current day is in none, and
\* two chart requests at one time do not read a day from IBKR twice.
SavedRangesAreTrue ==
    /\ \A d \in saved : d < today /\ (d \in Holidays \/ bars[d] # "none")
    /\ \A d \in Day : chartSaves[d] <= 1

\* All stored bars before the ex-date have one form, so a confirmation divides each of them one time.
StoredBarsHaveOneForm ==
    LET end == IF waiting = 0 THEN ExDate ELSE waiting
    IN  \A d, e \in Stored : d < end /\ e < end => bars[d] = bars[e]

\* An update that loses its connection reads from IBKR again on the same day.
StoppedUpdateRunsAgain ==
    \A d \in Day :
        (job[Update].at = "read" /\ ~connected /\ today = d)
            ~> ((job[Update].at = "read" /\ connected) \/ today # d)
=============================================================================
