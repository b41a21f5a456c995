-------------------------- MODULE MarketComponents ---------------------------
(***************************************************************************)
(* The components between the strategies and IBKR, each with its own       *)
(* state: the execution client of a live node; the connection to IB        *)
(* Gateway with its requests, streams and paper account check; the stock   *)
(* split check of the owner ledger; the bar store with its readers; the    *)
(* live bars of the watchlist; the bars and universe updates of the        *)
(* forward tests; the Databento bars with their stock splits; the members  *)
(* of the US universe of a quarter; the change sockets of the pages; the   *)
(* account socket with its exchange rate.                                  *)
(*                                                                         *)
(* They share no variable, so a product of their states shows nothing more *)
(* than each of them. A behavior runs one of them, `part`; the others stay *)
(* in their first state.                                                   *)
(***************************************************************************)
EXTENDS Integers, FiniteSets, Sequences

CONSTANTS
    Orders, Parts, MaxFaults,                       \* ExecutionClient
    Streams, MaxLosses,                             \* GatewayLink
    Tests, Sellers, Requests, MaxTries,             \* SplitCheck; Requests also of GatewayLink
    Charts, Days, Holidays, ExDate, MaxDrops,       \* BarStore
    Pages, MaxStreams, MaxChanges,                  \* LiveDailyBars
    FirstMembers, NextMembers, MaxDay, MaxFailures, \* ForwardTestData; FirstMembers also of LiveDailyBars
    Splits, Gaps, Margin, MaxImports,               \* DatabentoBars
    MaxPaidDownloads, MaxStops, MaxErrors,          \* UsUniverse
    ChangePages, Tables, MaxVersion, MaxFeedFaults, \* PageFeed
    MaxConnections, MaxFills                        \* AccountFeed

ASSUME MarketAssumption ==
    /\ Parts \in [Orders -> Nat \ {0}]
    /\ {MaxFaults, MaxLosses, MaxTries, Days, MaxDrops, MaxStreams, MaxChanges, MaxDay, MaxFailures, Margin, MaxImports,
        MaxPaidDownloads, MaxStops, MaxErrors, MaxVersion, MaxFeedFaults, MaxConnections, MaxFills} \subseteq Nat
    /\ 1 <= Days /\ 2 <= MaxDay /\ ExDate \in Nat
    /\ 1 <= Margin /\ Splits \cup Gaps \subseteq Nat
    /\ "update" \notin Charts /\ "free" \notin Charts
    /\ Sellers \subseteq Tests \cup {"by_hand"}

\* Each order has one execution more than its number.
PartsInOrder == [o \in Orders |-> o + 1]

\* Logins of IB Gateway: an account in euros without an own rate, one with a dollar balance, one that is not expected.
FeedLogins ==
    LET Login(account_id, currencies) ==
            [port |-> "paper", accounts |-> <<account_id>>, currencies |-> currencies, usd_rate |-> 0]
    IN  {Login("DU1", <<"BASE", "EUR">>), Login("DU1", <<"CHF", "USD">>), Login("DU2", <<"USD">>)}

VARIABLES
    part,
    engine, asked, young, known, events, loop, batch, open_ids, old, unproved, stopping, ledger, ibkr, executed, held,
        api_socket, late, faults,
    kept, keeper, socket, synchronized, number, link_lost, retry_passed, request, stream, subscription, link, login,
        checked, losses,
    adjusted, account, moved, shares, selling, row, divided, ledgerChanges, checks, checkRow, split_job, tries, ended,
        stale,
    today, bars, saved, split, split_waiting, summary, lock, job, chartSaves, connected, drops, lastUpdate, stopped,
    watchlist, changes, notified, streams, listeners, shown,
    day, quarter, recorded, saved_days, refused, filled, has_fill, read_day, child, quarter_known, first_sent, waiting,
        updates, next_bar, from, got, failures,
    market_day, stored, hours, rows, import, check_end, read_end, checked_end, has_closes, closes, reading, no_answers,
        imports,
    now, available, windows, members, step, waits, quarter_state, downloaded, paid, bills, stops, errors,
    version, feed, notifications, page_socket, signal, push, on_way, reader, again, snapshot, page_rows, failed,
        feed_faults,
    account_login, session_number, is_up, open_orders, fills, recorded_fills, monitor, rate_reading, build

client == <<engine, asked, young, known, events, loop, batch, open_ids, old, unproved, stopping, ledger, ibkr, executed,
            held, api_socket, late, faults>>
gateway == <<kept, keeper, socket, synchronized, number, link_lost, retry_passed, request, stream, subscription, link,
             login, checked, losses>>
splits == <<adjusted, account, moved, shares, selling, row, divided, ledgerChanges, checks, checkRow, split_job, tries,
            ended, stale>>
store == <<today, bars, saved, split, split_waiting, summary, lock, job, chartSaves, connected, drops, lastUpdate,
           stopped>>
live == <<watchlist, changes, notified, streams, listeners, shown>>
data == <<day, quarter, recorded, saved_days, refused, filled, has_fill, read_day, child, quarter_known, first_sent,
          waiting, updates, next_bar, from, got, failures>>
databento == <<market_day, stored, hours, rows, import, check_end, read_end, checked_end, has_closes, closes, reading,
               no_answers, imports>>
quarters == <<now, available, windows, members, step, waits, quarter_state, downloaded, paid, bills, stops, errors>>
pages == <<version, feed, notifications, page_socket, signal, push, on_way, reader, again, snapshot, page_rows, failed,
           feed_faults>>
accounts == <<account_login, session_number, is_up, open_orders, fills, recorded_fills, monitor, rate_reading, build>>
market == <<client, gateway, splits, store, live, data, databento, quarters>>
vars == <<part, market, pages, accounts>>

Client == INSTANCE ExecutionClient WITH socket <- api_socket
Link == INSTANCE GatewayLink WITH drops <- losses, MaxDrops <- MaxLosses
Split == INSTANCE SplitCheck WITH job <- split_job
Store == INSTANCE BarStore WITH waiting <- split_waiting, Overlaps <- FALSE
Live == INSTANCE LiveDailyBars WITH Instruments <- FirstMembers
Data == INSTANCE ForwardTestData WITH saved <- saved_days, known <- quarter_known
Databento == INSTANCE DatabentoBars WITH LastDay <- MaxDay, ImportRunsAlone <- TRUE
Universe == INSTANCE UsUniverse WITH known <- quarter_state
Feed == INSTANCE PageFeed WITH Pages <- ChangePages, Watched <- [p \in ChangePages |-> Tables],
    socket <- page_socket, shown <- page_rows
Account == INSTANCE AccountFeed WITH login <- account_login, recorded <- recorded_fills, Logins <- FeedLogins,
    ExpectedAccount <- "DU1", PaperAccounts <- {"DU1", "DU2"}

Init ==
    /\ part \in {"client", "gateway", "splits", "store", "live", "data", "databento", "quarters", "pages", "accounts"}
    /\ Client!Init /\ Link!Init /\ Split!Init /\ Store!Init /\ Live!Init /\ Data!Init /\ Databento!Init
    /\ Universe!Init /\ Feed!Init /\ Account!Init
    /\ part # "gateway" => kept /\ login = "paper"
    /\ part # "splits" => checkRow = 1
    /\ part # "live" => watchlist = <<>>
    /\ part # "accounts" => account_login.currencies = <<"USD">>

MarketStep ==
    \/ part = "client" /\ Client!Next /\ UNCHANGED <<gateway, splits, store, live, data, databento, quarters>>
    \/ part = "gateway" /\ Link!Next /\ UNCHANGED <<client, splits, store, live, data, databento, quarters>>
    \/ part = "splits" /\ Split!Next /\ UNCHANGED <<client, gateway, store, live, data, databento, quarters>>
    \/ part = "store" /\ Store!Next /\ UNCHANGED <<client, gateway, splits, live, data, databento, quarters>>
    \/ part = "live" /\ Live!Next /\ UNCHANGED <<client, gateway, splits, store, data, databento, quarters>>
    \/ part = "data" /\ Data!Next /\ UNCHANGED <<client, gateway, splits, store, live, databento, quarters>>
    \/ part = "databento" /\ Databento!Next /\ UNCHANGED <<client, gateway, splits, store, live, data, quarters>>
    \/ part = "quarters" /\ Universe!Next /\ UNCHANGED <<client, gateway, splits, store, live, data, databento>>

Next ==
    \/ MarketStep /\ UNCHANGED <<part, pages, accounts>>
    \/ part = "pages" /\ Feed!Next /\ UNCHANGED <<part, market, accounts>>
    \/ part = "accounts" /\ Account!Next /\ UNCHANGED <<part, market, pages>>

\* The fairness of each component, while it is the one that runs.
Fairness ==
    /\ WF_client(part = "client" /\ Client!Loop)
    /\ SF_client(part = "client" /\ Client!ReadOpenOrders)
    /\ \A o \in Orders : WF_client(part = "client" /\ Client!GrowOld(o))
    /\ \A e \in Client!Executions : WF_client(part = "client" /\ Client!EndHold(e))
    /\ WF_gateway(part = "gateway" /\ Link!KeepConnected)
    /\ WF_gateway(part = "gateway" /\ Link!RetryTimePasses)
    /\ \A r \in Requests :
        /\ WF_gateway(part = "gateway" /\ (Link!ReceiveHistoricalData(r) \/ Link!TimeOut(r)))
        /\ SF_gateway(part = "gateway" /\ ~kept /\ Link!RequestHistoricalData(r))
    /\ WF_splits(part = "splits" /\ Split!WorkerStep)
    /\ WF_splits(part = "splits" /\ Split!RestartAfterApply)
    /\ WF_store(part = "store" /\ Store!UpdateStep)
    /\ WF_store(part = "store" /\ Store!Reconnect)
    /\ \A c \in Charts :
        WF_store(part = "store" /\ (Store!CheckEvidence(c) \/ Store!ReadStep(c) \/ Store!ChartFails(c)))
    /\ WF_data(part = "data" /\ Data!FillNewForwardTests)
    /\ WF_data(part = "data" /\ Data!FetchWhenDue)
    /\ WF_data(part = "data" /\ Data!StartChild)
    /\ WF_data(part = "data" /\ Data!StrategyRuns)
    /\ WF_data(part = "data" /\ Data!PollUniverse)
    /\ WF_data(part = "data" /\ Data!TakeUpdate)
    /\ \A m \in Data!Members : WF_data(part = "data" /\ Data!SendNewBars(m))
    /\ WF_quarters(part = "quarters" /\ Universe!UpdateStep)
    /\ WF_quarters(part = "quarters" /\ Universe!TimePasses)
    /\ WF_pages(part = "pages" /\ Feed!LossIsSeen) /\ WF_pages(part = "pages" /\ Feed!Listen)
    /\ \A t \in Tables : WF_pages(part = "pages" /\ Feed!Receive(t))
    /\ \A p \in ChangePages :
        /\ WF_pages(part = "pages" /\ Feed!OpenSocket(p))
        /\ SF_pages(part = "pages" /\ Feed!WakePush(p))
        /\ WF_pages(part = "pages" /\ Feed!SendMessage(p))
        /\ WF_pages(part = "pages" /\ Feed!GetChanged(p))
        /\ WF_pages(part = "pages" /\ Feed!ReadRows(p))
        /\ WF_pages(part = "pages" /\ Feed!GetAnswer(p))

Spec == Init /\ [][Next]_vars /\ Fairness

-----------------------------------------------------------------------------
\* ExecutionClient: the fill events of the strategy are the rows of the ledger. GatewayLink: a passed paper account
\* check is of the login that it stands for.
IbkrInv ==
    /\ part = "client" => Client!ClientTypeOK /\ Client!FillEventsMatchLedger
    /\ part = "gateway" => Link!LinkTypeOK /\ Link!PassedCheckIsOfThisLogin
\* What is stored across a stock split. SplitCheck: one split changes the ledger at most once. BarStore: the saved
\* ranges have their bars, and all stored bars before the ex-date one form. DatabentoBars: each bar is divided once for
\* each applied stock split.
StoreInv ==
    /\ part = "splits" => Split!SplitTypeOK /\ Split!SplitIsAppliedOnce
    /\ part = "store" => Store!BarsTypeOK /\ Store!SavedRangesAreTrue /\ Store!StoredBarsHaveOneForm
    /\ part = "databento" => Databento!DatabentoTypeOK /\ Databento!BarsAreDividedOnce
\* DatabentoBars: the checked days hide no stock split.
NoSplitIsHidden == part = "databento" => Databento!CheckedDaysHideNoSplit
\* LiveDailyBars: the streams are those that the pages follow, within their limit, and no page keeps an old bar.
\* PageFeed: a page with old rows has a read before it. AccountFeed: a message of the account socket that nothing
\* disturbed is the state of the account, and no message has a rate of another login.
LiveInv ==
    /\ part = "live" => Live!LiveTypeOK /\ Live!FollowedIsStreamed /\ Live!NoChangeIsMissed
    /\ part = "pages" => Feed!TypeOK /\ Feed!NoChangeIsLost
    /\ part = "accounts" => Account!FeedTypeOK /\ Account!QuietMessageIsCurrent /\ Account!BalanceHasItsRate
\* ForwardTestData: the bars of a subscription have no gap, and a new member comes with its warm-up. UsUniverse: no
\* window is paid twice, and the saved members of a quarter have their window.
DataInv ==
    /\ part = "data" => Data!DataTypeOK /\ Data!BarsHaveNoGap /\ Data!NewMembersAreWarm
    /\ part = "quarters" => Universe!UniverseTypeOK /\ Universe!NoWindowIsPaidTwice /\ Universe!MembersHaveWindow

\* ExecutionClient: no cancel event without the end of the order and each of its executions.
EachCancelIsTrue == Client!EachCancelIsTrue
\* ExecutionClient: an order that ended at IBKR ends for the strategy.
EndedOrderIsClosed == Client!EndedOrderIsClosed
\* GatewayLink: ATrade finds a link that is back.
LinkComesBack == Link!LinkComesBack
\* SplitCheck: each forward test with an adjusted position restarts.
AdjustedTestsRestart == Split!AdjustedTestsRestart
\* BarStore: a stopped daily update reads again on its day.
StoppedUpdateRunsAgain == Store!StoppedUpdateRunsAgain
\* ForwardTestData: each bar of a subscription comes. UsUniverse: a quarter gets its members, and they stay. PageFeed:
\* a page shows the last change.
DataArrives ==
    /\ Data!EachBarComes
    /\ part = "quarters" => Universe!QuarterGetsMembers
    /\ Universe!QuarterStays
    /\ part = "pages" => Feed!PageShowsLastChange
=============================================================================
