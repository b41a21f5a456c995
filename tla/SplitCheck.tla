----------------------------- MODULE SplitCheck -----------------------------
(***************************************************************************)
(* One 2-for-1 stock split of one instrument: IBKR adjusts its bars, then  *)
(* the position of the account. The daily check of the worker compares     *)
(* both with the stored bars and the owner ledger (stock_split_check.py,   *)
(* stock_split_ledger.py); the user answers a "Split check needed" state   *)
(* with "Apply split" or "Keep ledger", and the worker restarts the        *)
(* forward tests whose positions changed.                                  *)
(*                                                                         *)
(* A stock_split row has the key (instrument, ex-date). Evidence A gives   *)
(* the day after the last stored bar (row 1), a check without evidence A   *)
(* the day of the check: `checkRow` is 1 when the days are the same, and 2 *)
(* when they differ, for example after a weekend.                          *)
(***************************************************************************)
EXTENDS Integers, Sequences, FiniteSetsExt

CONSTANTS
    Tests,      \* the forward tests that hold the instrument
    Sellers,    \* the owners that can sell
    Requests,   \* the requests of the browser in flight at one time
    MaxTries    \* bound: tries of the daily check

ByHand == "by_hand"
Worker == "worker"
Owners == Tests \cup {ByHand}
Processes == Requests \cup {Worker}
Ratio == 2

VARIABLES
    adjusted,   \* IBKR returns its bars in the new form
    account,    \* the position of the paper account
    moved,      \* IBKR changed the position for the split
    shares,     \* the positions of the owners in the ledger
    selling,    \* owners with an open sell order
    row,        \* confirmation of the stock_split rows
    divided,    \* how often the stored bars before the split were divided
    ledgerChanges,  \* per row: how often it changed the ledger
    checks,     \* the rows of split_check, oldest first
    checkRow,
    job,        \* what each process does
    tries,
    ended,      \* forward tests that ended
    stale       \* forward tests whose child still has the old position

splitVars == <<adjusted, account, moved, shares, selling, row, divided, ledgerChanges, checks, checkRow, job, tries,
               ended, stale>>
market == <<adjusted, account, moved, selling, checkRow>>
books == <<shares, row, divided, ledgerChanges, stale>>

Idle == [at |-> "idle"]

Init ==
    /\ adjusted = FALSE
    /\ moved = FALSE
    /\ account = Cardinality(Owners)
    /\ shares = [o \in Owners |-> 1]
    /\ selling = {}
    /\ row = [d \in 1 .. 2 |-> "none"]
    /\ divided = 0
    /\ ledgerChanges = [d \in 1 .. 2 |-> 0]
    /\ checks = <<>>
    /\ checkRow \in 1 .. 2
    /\ job = [p \in Processes |-> Idle]
    /\ tries = 0
    /\ ended = {}
    /\ stale = {}

IsNeeded == \E c \in DOMAIN checks : checks[c].status = "needed"

-----------------------------------------------------------------------------
(* IBKR and the owners.                                                    *)

BarsAdjust ==
    /\ ~adjusted
    /\ adjusted' = TRUE
    /\ UNCHANGED <<account, moved, shares, selling, row, divided, ledgerChanges, checks, checkRow, job, tries, ended,
                   stale>>

PositionMoves ==
    /\ adjusted /\ ~moved
    /\ moved' = TRUE
    /\ account' = account * Ratio
    /\ UNCHANGED <<adjusted, selling, checkRow, job, checks, tries, ended>> /\ UNCHANGED books

\* No owner can send an order while the check is needed; an order that is open already can still fill.
SendSell(o) ==
    /\ ~IsNeeded
    /\ shares[o] > 0 /\ o \notin ended
    /\ selling' = selling \cup {o}
    /\ UNCHANGED <<adjusted, account, moved, checkRow, job, checks, tries, ended>> /\ UNCHANGED books

FillSell(o) ==
    /\ o \in selling /\ shares[o] \in 1 .. account
    /\ selling' = selling \ {o}
    /\ account' = account - shares[o]
    /\ shares' = [shares EXCEPT ![o] = 0]
    /\ UNCHANGED <<adjusted, moved, checkRow, job, checks, tries, ended, row, divided, ledgerChanges, stale>>

\* The end of a forward test: its open order ends, and its shares go to "By hand".
EndAndTransfer(f) ==
    /\ f \notin ended
    /\ ended' = ended \cup {f}
    /\ selling' = selling \ {f}
    /\ shares' = [shares EXCEPT ![f] = 0, ![ByHand] = @ + shares[f]]
    /\ stale' = stale \ {f}
    /\ UNCHANGED <<adjusted, account, moved, checkRow, job, checks, tries, row, divided, ledgerChanges>>

-----------------------------------------------------------------------------
(* Evidence A: the last stored daily close differs from IBKR's by a ratio. *)

Evidence(ibkrAdjusted, divisions, rows) ==
    IF ibkrAdjusted /\ divisions = 0 /\ "candidate" \notin {rows[d] : d \in 1 .. 2} /\ rows[1] = "none"
    THEN [rows EXCEPT ![1] = "candidate"]
    ELSE rows

\* The bars route reads bars from IBKR for a chart or a backtest.
ReadBars ==
    /\ row' = Evidence(adjusted, divided, row)
    /\ row' # row
    /\ UNCHANGED <<shares, divided, ledgerChanges, stale, checks, job, tries, ended>> /\ UNCHANGED market

-----------------------------------------------------------------------------
(* The daily check of the worker.                                          *)

StartTry ==
    /\ job[Worker] = Idle
    /\ tries < MaxTries
    /\ tries' = tries + 1
    /\ \E last \in BOOLEAN :
        job' = [job EXCEPT ![Worker] = [at |-> "evidence", after |-> account, last |-> last]]
    /\ UNCHANGED <<checks, ended>> /\ UNCHANGED market /\ UNCHANGED books

\* A failed read of the stored day from IBKR is logged, and the check continues without it.
ReadEvidence ==
    /\ job[Worker].at = "evidence"
    /\ row' \in {row, Evidence(adjusted, divided, row)}
    /\ job' = [job EXCEPT ![Worker] =
                [at |-> "instrument", after |-> @.after, last |-> @.last, candidate |-> row'[1] = "candidate"]]
    /\ UNCHANGED <<shares, divided, ledgerChanges, stale, checks, tries, ended>> /\ UNCHANGED market

OwnerQuantities == [o \in {p \in Owners : shares[p] > 0} |-> shares[o]]
SumOf(quantities) == MapThenSumSet(LAMBDA o : quantities[o], DOMAIN quantities)

SplitEvidence(candidate, before, after) ==
    IF ~candidate
    THEN IF after = before \/ after <= 0 THEN "none" ELSE "position_only"
    ELSE CASE after = before -> "bar_ratio_only"
           [] after = before * Ratio -> "confirmed"
           [] OTHER -> "ratios_differ"

WasKept(before, after) ==
    \E c \in DOMAIN checks : checks[c].status = "kept" /\ checks[c].before = before /\ checks[c].after = after

CheckInstrument ==
    /\ job[Worker].at = "instrument"
    /\ LET try == job[Worker]
           candidate == try.candidate /\ \A c \in DOMAIN checks : checks[c].link # 1
           before == SumOf(OwnerQuantities)
           kind == SplitEvidence(candidate, before, try.after)
           change == [at |-> "change", ex |-> 1, after |-> try.after, check |-> 0]
           insert == [at |-> "insert",
                      check |-> [ex |-> IF candidate THEN 1 ELSE checkRow, link |-> IF candidate THEN 1 ELSE 0,
                                 before |-> before, after |-> try.after, status |-> "needed", resolutions |-> 0,
                                 restarted |-> FALSE]]
       IN  job' = [job EXCEPT ![Worker] =
                    CASE IsNeeded -> Idle
                      [] ~IsNeeded /\ before = 0 -> IF candidate THEN change ELSE Idle
                      [] ~IsNeeded /\ before # 0 ->
                            CASE kind = "none" \/ WasKept(before, try.after) -> Idle
                              [] kind = "confirmed" /\ ~WasKept(before, try.after) -> change
                              [] kind \in {"position_only", "bar_ratio_only"} /\ ~try.last -> Idle
                              [] OTHER -> insert]
    /\ UNCHANGED <<checks, tries, ended>> /\ UNCHANGED market /\ UNCHANGED books

\* An instrument that is in the state already keeps its first check.
InsertCheck ==
    /\ job[Worker].at = "insert"
    /\ checks' = IF IsNeeded THEN checks ELSE Append(checks, job[Worker].check)
    /\ job' = [job EXCEPT ![Worker] = Idle]
    /\ UNCHANGED <<tries, ended>> /\ UNCHANGED market /\ UNCHANGED books

\* IB Gateway, the paper account or the forex rate fails the try.
TryFails ==
    /\ job[Worker].at \in {"evidence", "instrument", "change"}
    /\ job' = [job EXCEPT ![Worker] = Idle]
    /\ UNCHANGED <<checks, tries, ended>> /\ UNCHANGED market /\ UNCHANGED books

\* The children of a new worker process start with the positions of the ledger.
WorkerRestarts ==
    /\ job[Worker] # Idle
    /\ job' = [job EXCEPT ![Worker] = Idle]
    /\ stale' = {}
    /\ UNCHANGED <<checks, tries, ended, shares, row, divided, ledgerChanges>> /\ UNCHANGED market

-----------------------------------------------------------------------------
(* The change of the ledger: one transaction reads the entries, confirms   *)
(* the row, divides the bars and writes the adjustments.                   *)

ReadEntries(p) ==
    /\ job[p].at = "change"
    /\ job' = [job EXCEPT ![p] = [at |-> "commit", ex |-> @.ex, after |-> @.after, check |-> @.check,
                                  quantities |-> OwnerQuantities]]
    /\ UNCHANGED <<checks, tries, ended>> /\ UNCHANGED market /\ UNCHANGED books

\* WRITE_STOCK_SPLIT gives a row when no row is confirmed for the ex-date.
WriteSplitAgain(ex) == TRUE
WriteSplit(ex) == row[ex] # "confirmed"

Adjusted(quantities, after) ==
    LET change(o) == IF o \in DOMAIN quantities THEN quantities[o] * (Ratio - 1) ELSE 0
        difference == after - SumOf(quantities) * Ratio
    IN  [o \in Owners |-> shares[o] + change(o) + IF o = ByHand /\ quantities # <<>> THEN difference ELSE 0]

Resolve(c, status, link) ==
    [checks EXCEPT ![c].status = status, ![c].link = IF link = 0 THEN @ ELSE link, ![c].resolutions = @ + 1]

\* The worker asks at once for the restart of the tests that held the instrument.
ChangeLedger(p) ==
    /\ job[p].at = "commit"
    /\ WriteSplit(job[p].ex)
    /\ LET ex == job[p].ex
           quantities == job[p].quantities
       IN  /\ row' = [row EXCEPT ![ex] = "confirmed"]
           /\ divided' = divided + 1
           /\ shares' = Adjusted(quantities, job[p].after)
           /\ ledgerChanges' = [ledgerChanges EXCEPT ![ex] = @ + 1]
           /\ stale' = IF p = Worker
                       THEN stale \ DOMAIN quantities
                       ELSE stale \cup ((DOMAIN quantities \cap Tests) \ ended)
           /\ checks' = IF job[p].check = 0 THEN checks ELSE Resolve(job[p].check, "applied", ex)
    /\ job' = [job EXCEPT ![p] = Idle]
    /\ UNCHANGED <<tries, ended>> /\ UNCHANGED market

\* StockSplitConfirmedError: the transaction changes nothing.
ChangeIsRefused(p) ==
    /\ job[p].at = "commit"
    /\ ~WriteSplit(job[p].ex)
    /\ job' = [job EXCEPT ![p] = Idle]
    /\ UNCHANGED <<checks, tries, ended>> /\ UNCHANGED market /\ UNCHANGED books

-----------------------------------------------------------------------------
(* The buttons of the Home page. read_needed_check closes its connection,  *)
(* so its row lock ends before the change.                                 *)

ReadNeededCheck(q) ==
    /\ job[q] = Idle
    /\ \E c \in DOMAIN checks, answer \in {"change", "keep"} :
        /\ checks[c].status = "needed"
        /\ job' = [job EXCEPT ![q] = [at |-> answer, ex |-> checks[c].ex, after |-> checks[c].after, check |-> c]]
    /\ UNCHANGED <<checks, tries, ended>> /\ UNCHANGED market /\ UNCHANGED books

KeepLedger(q) ==
    /\ job[q].at = "keep"
    /\ checks' = Resolve(job[q].check, "kept", 0)
    /\ job' = [job EXCEPT ![q] = Idle]
    /\ UNCHANGED <<tries, ended>> /\ UNCHANGED market /\ UNCHANGED books

RestartOnlyWithEvidenceA ==
    /\ job[Worker] = Idle
    /\ \E c \in DOMAIN checks :
        /\ checks[c].status = "applied" /\ ~checks[c].restarted /\ checks[c].link = 1
        /\ checks' = [checks EXCEPT ![c].restarted = TRUE]
    /\ stale' = {}
    /\ UNCHANGED <<shares, row, divided, ledgerChanges, job, tries, ended>> /\ UNCHANGED market

\* The worker restarts the tests that got an adjustment of an applied check, once for each check.
RestartAfterApply ==
    /\ job[Worker] = Idle
    /\ \E c \in DOMAIN checks :
        /\ checks[c].status = "applied" /\ ~checks[c].restarted
        /\ checks' = [checks EXCEPT ![c].restarted = TRUE]
    /\ stale' = {}
    /\ UNCHANGED <<shares, row, divided, ledgerChanges, job, tries, ended>> /\ UNCHANGED market

-----------------------------------------------------------------------------
WorkerStep ==
    \/ ReadEvidence \/ CheckInstrument \/ InsertCheck
    \/ ReadEntries(Worker) \/ ChangeLedger(Worker) \/ ChangeIsRefused(Worker)

Next ==
    \/ BarsAdjust \/ PositionMoves \/ ReadBars
    \/ \E o \in Sellers : SendSell(o) \/ FillSell(o)
    \/ \E f \in Tests : EndAndTransfer(f)
    \/ StartTry \/ WorkerStep \/ TryFails \/ WorkerRestarts \/ RestartAfterApply
    \/ \E q \in Requests :
        ReadNeededCheck(q) \/ KeepLedger(q) \/ ReadEntries(q) \/ ChangeLedger(q) \/ ChangeIsRefused(q)

\* The loop of the worker runs each minute.
Fairness == WF_splitVars(WorkerStep) /\ WF_splitVars(RestartAfterApply)
Spec == Init /\ [][Next]_splitVars /\ Fairness

SplitTypeOK ==
    /\ adjusted \in BOOLEAN /\ moved \in BOOLEAN
    /\ account \in Nat
    /\ shares \in [Owners -> Int]
    /\ selling \subseteq Owners
    /\ row \in [1 .. 2 -> {"none", "candidate", "confirmed"}]
    /\ divided \in Nat
    /\ \A c \in DOMAIN checks :
        checks[c].status \in {"needed", "applied", "kept"} /\ checks[c].link \in 0 .. 2
    /\ \A p \in Processes :
        job[p].at \in {"idle", "evidence", "instrument", "insert", "change", "commit", "keep"}
    /\ ended \subseteq Tests /\ stale \subseteq Tests

\* Two requests and the worker together change the ledger and the bars for one ex-date at most once, and an
\* instrument has at most one check that waits for an answer.
SplitIsAppliedOnce ==
    /\ \A d \in 1 .. 2 : ledgerChanges[d] <= 1
    /\ Cardinality({c \in DOMAIN checks : checks[c].status = "needed"}) <= 1

\* A forward test whose position an applied check changed gets its restart, also after a failed try and a restart of
\* the worker; only an answer that came twice can take it away.
AdjustedTestsRestart ==
    \A f \in Tests : f \in stale ~> (f \notin stale \/ \E c \in DOMAIN checks : checks[c].resolutions > 1)

\* The stored bars before one stock split are divided once.
BarsAreDividedOnce == divided <= 1
=============================================================================
