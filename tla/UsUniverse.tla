------------------------------ MODULE UsUniverse ------------------------------
(***************************************************************************)
(* The members of the US universe of one quarter: the quarterly update in  *)
(* the forward-test worker (us_universe_update.py), which buys the daily   *)
(* bars of the ranking window from Databento, and the calculation at the   *)
(* end of the Databento import program (us_universe.py).                   *)
(*                                                                         *)
(* A window is named for its last ranking day: "previous", the trading day *)
(* before the quarter, or "earlier", the one before it. The update reads   *)
(* the clock each minute: from 06:00 ET, after 09:00 ET, and on the next   *)
(* days again from 00:00 ET, early.                                        *)
(***************************************************************************)
EXTENDS Integers, FiniteSets

CONSTANTS
    MaxPaidDownloads,   \* MAX_PAID_DOWNLOADS_PER_QUARTER
    MaxStops,           \* bound: restarts of the worker
    MaxErrors           \* bound: failed downloads, imports and saves

Windows == {"previous", "earlier"}

VARIABLES
    now,            \* "before" 06:00 ET of the first trading day, then "early" and "late"
    available,      \* the bar of the previous trading day is available at Databento
    windows,        \* has_ranking_window: the windows that databento_bar holds without a gap
    members,        \* the window of the saved members, or "none"
    step,           \* of update_if_due
    waits,          \* next_try_utc is later
    known,          \* the quarter is in saved_quarter_start_utc or stopped_quarter_start_utc, or "none"
    downloaded,     \* downloaded_paths
    paid,           \* paid_downloads of the quarter
    bills,          \* per window: the downloads that this process paid and has
    stops, errors

universeVars == <<now, available, windows, members, step, waits, known, downloaded, paid, bills, stops, errors>>
memory == <<waits, known, downloaded, paid, bills>>

Idle == [at |-> "idle"]
At(name, window) == [at |-> name, window |-> window]

Init ==
    /\ now = "before" /\ available = FALSE
    /\ windows = {} /\ members = "none"
    /\ step = Idle
    /\ waits = FALSE /\ known = "none" /\ downloaded = {} /\ paid = 0 /\ bills = [w \in Windows |-> 0]
    /\ stops = 0 /\ errors = 0

IsDue == now # "before" /\ ~waits

\* The 15 minutes of a retry are over, or the day goes on. The update reads the clock each minute, so no day goes from
\* 09:00 ET to its end without a try that is due.
TimePasses ==
    /\ now = "late" => ~(step = Idle /\ IsDue /\ known = "none")
    /\ now' = CASE now = "before" -> "early" [] now = "early" -> "late" [] now = "late" -> "early"
    /\ waits' = FALSE
    /\ UNCHANGED <<available, windows, members, step, known, downloaded, paid, bills, stops, errors>>

BarIsAvailable ==
    /\ ~available
    /\ available' = TRUE
    /\ UNCHANGED <<now, windows, members, step, stops, errors>> /\ UNCHANGED memory

-----------------------------------------------------------------------------
(* The update.                                                             *)

\* The quarter is not saved in the database, as far as the update can see; without the bar of the previous trading day
\* it waits, and at 09:00 ET it takes the window that ends one trading day earlier.
StartUpdate ==
    /\ step = Idle /\ IsDue /\ known = "none"
    /\ IF members # "none"
       THEN known' = "saved" /\ UNCHANGED <<step, waits>>
       ELSE IF available \/ now = "late"
       THEN step' = At("window", IF available THEN "previous" ELSE "earlier") /\ UNCHANGED <<known, waits>>
       ELSE waits' = TRUE /\ UNCHANGED <<known, step>>
    /\ UNCHANGED <<now, available, windows, members, downloaded, paid, bills, stops, errors>>

CheckWindow ==
    /\ step.at = "window"
    /\ step' = At(IF step.window \in windows THEN "save" ELSE "download", step.window)
    /\ UNCHANGED <<now, available, windows, members, stops, errors>> /\ UNCHANGED memory

\* An error ends the try; keep_updating logs it and waits 15 minutes.
Fails ==
    /\ errors < MaxErrors
    /\ errors' = errors + 1
    /\ step' = Idle /\ waits' = TRUE

\* The file of an earlier try of this process, or no download any more.
UseDownload ==
    /\ step.at = "download"
    /\ IF step.window \in downloaded
       THEN step' = At("import", step.window) /\ UNCHANGED known
       ELSE paid >= MaxPaidDownloads /\ step' = Idle /\ known' = "stopped"
    /\ UNCHANGED <<now, available, windows, members, waits, downloaded, paid, bills, stops, errors>>

CanBuy == step.at = "download" /\ step.window \notin downloaded /\ paid < MaxPaidDownloads

Download ==
    /\ CanBuy
    /\ paid' = paid + 1
    /\ downloaded' = downloaded \cup {step.window}
    /\ bills' = [bills EXCEPT ![step.window] = @ + 1]
    /\ step' = At("import", step.window)
    /\ UNCHANGED <<now, available, windows, members, waits, known, stops, errors>>

\* Without data from Databento the download is not counted; after data, it can bill.
DownloadFails(has_data) ==
    /\ CanBuy /\ Fails
    /\ paid' = IF has_data THEN paid + 1 ELSE paid
    /\ UNCHANGED <<now, available, windows, members, known, downloaded, bills, stops>>

\* 100 calendar days before its last day hold the other window too when it ends earlier.
With(window) == IF window = "previous" THEN Windows ELSE {window}

Import ==
    /\ step.at = "import"
    /\ windows' = windows \cup With(step.window)
    /\ step' = At("save", step.window)
    /\ UNCHANGED <<now, available, members, stops, errors>> /\ UNCHANGED memory

\* The members of a quarter without a full window are an error too.
SaveUsUniverse ==
    /\ step.at = "save" /\ step.window \in windows
    /\ members' = step.window
    /\ step' = Idle /\ waits' = FALSE
    /\ UNCHANGED <<now, available, windows, known, downloaded, paid, bills, stops, errors>>

TryFails ==
    /\ step.at \in {"window", "import", "save"} /\ Fails
    /\ UNCHANGED <<now, available, windows, members, known, downloaded, paid, bills, stops>>

\* The worker restarts: the thread ends, and its memory is lost.
Restart ==
    /\ stops < MaxStops
    /\ stops' = stops + 1
    /\ step' = Idle
    /\ waits' = FALSE /\ known' = "none" /\ downloaded' = {} /\ paid' = 0 /\ bills' = [w \in Windows |-> 0]
    /\ UNCHANGED <<now, available, windows, members, errors>>

-----------------------------------------------------------------------------
(* The Databento import program, with a file that the user bought.         *)

ImportFiles(window) ==
    /\ now # "before" /\ (window = "previous" => available)
    /\ windows' = windows \cup With(window)
    /\ UNCHANGED <<now, available, members, step, stops, errors>> /\ UNCHANGED memory

\* One transaction: a saved quarter does not change. It runs while the update does not: the update replaces members that
\* were saved after its first look.
CalculateUsUniverseHistory ==
    /\ "previous" \in windows /\ members = "none"
    /\ step = Idle
    /\ members' = "previous"
    /\ UNCHANGED <<now, available, windows, step, stops, errors>> /\ UNCHANGED memory

UpdateStep == StartUpdate \/ CheckWindow \/ UseDownload \/ Download \/ Import \/ SaveUsUniverse

Next ==
    \/ TimePasses \/ BarIsAvailable
    \/ UpdateStep
    \/ \E has_data \in BOOLEAN : DownloadFails(has_data)
    \/ TryFails \/ Restart
    \/ \E window \in Windows : ImportFiles(window)
    \/ CalculateUsUniverseHistory

-----------------------------------------------------------------------------
UniverseTypeOK ==
    /\ now \in {"before", "early", "late"} /\ windows \subseteq Windows /\ members \in Windows \cup {"none"}
    /\ step.at \in {"idle", "window", "download", "import", "save"}
    /\ known \in {"none", "saved", "stopped"} /\ paid \in 0 .. MaxPaidDownloads

\* A process pays for each window at most once, also when its imports and saves fail, and at most the limit in a quarter.
NoWindowIsPaidTwice ==
    /\ \A w \in Windows : bills[w] <= 1
    /\ bills["previous"] + bills["earlier"] <= paid

\* The saved members rank a window without a gap that ended before the quarter, and the quarter that a process thinks
\* saved has members: no reader waits for a quarter that nobody saves.
MembersHaveWindow ==
    /\ members # "none" => members \in windows
    /\ known = "saved" => members # "none"

\* The members of a quarter do not change any more: a backtest and a forward test read the same ones.
QuarterStays == [][members # "none" => members' = members]_universeVars

\* Each quarter gets its members, when the process does not stop at its limit of downloads.
QuarterGetsMembers == <>(members # "none" \/ known = "stopped")
=============================================================================
