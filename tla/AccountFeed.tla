----------------------------- MODULE AccountFeed -----------------------------
(***************************************************************************)
(* /ws/paper-trading: an account socket builds its message again and again *)
(* from the paper account check, the balance, the owner ledger and the     *)
(* positions, with an await between the parts. It shares the monitor, with *)
(* its check of the connection and its IBKR exchange rate, and the ledger  *)
(* with the other sockets: they read, store and record at any time.        *)
(*                                                                         *)
(* An amount is the number of fills that it knows of. A rate is where it   *)
(* comes from, with its currency and the connection that it was asked on.  *)
(***************************************************************************)
EXTENDS Integers, Sequences

CONSTANTS
    Logins,             \* logins of IB Gateway: port, accounts, NetLiquidation currencies, rate of the account for USD
    ExpectedAccount,    \* ATRADE_IBKR_ACCOUNT_ID; not set is "none"
    PaperAccounts,      \* the account numbers with the paper prefix
    MaxConnections, MaxFills

VARIABLES
    login, session_number,      \* external: the login of IB Gateway; connection_number
    is_up,                      \* is_connected(): the socket and the link of IB Gateway
    open_orders, fills,         \* external: open orders and fills of the account
    recorded,                   \* the fills in the owner ledger
    monitor,                    \* checked_connection_number (0 for None) and check
    rate_reading,               \* forex_rate_reading
    build                       \* the step of the socket, the parts of its message and its last orders message

accounts == <<login, session_number, is_up, open_orders, fills>>
feed == <<accounts, recorded, monitor, rate_reading, build>>

Disconnected == [status |-> "disconnected", reason |-> "none"]
NoBalance == [base |-> "none", amount |-> 0, rate |-> [source |-> "none", base |-> "none", of |-> 0]]
NoReading == [number |-> 0, base |-> "none", answer |-> "error"]
\* `quiet` says that nothing disturbed the build since its start. No property looks at the amounts of another one.
NoBuild == [step |-> "wait", of |-> 0, quiet |-> FALSE, orders |-> -1, check |-> Disconnected, balance |-> NoBalance,
            positions |-> 0, entries |-> 0]
Kept(b) ==
    IF b.quiet THEN b
    ELSE IF b.step = "wait" THEN NoBuild
    ELSE [b EXCEPT !.balance.amount = 0, !.positions = 0, !.entries = 0, !.orders = -1]

FeedTypeOK ==
    /\ login \in Logins /\ session_number \in 0 .. MaxConnections /\ is_up \in BOOLEAN
    /\ open_orders \in 0 .. MaxFills /\ fills \in 0 .. MaxFills /\ recorded \in 0 .. fills
    /\ monitor.number \in 0 .. MaxConnections /\ monitor.check.status \in {"disconnected", "passed", "failed"}
    /\ rate_reading.number \in 0 .. MaxConnections
    /\ build.step \in {"wait", "forex", "entries", "splits", "send", "fills", "orders"}

Init ==
    /\ login \in Logins /\ session_number = 0 /\ is_up = FALSE
    /\ open_orders = 0 /\ fills = 0 /\ recorded = 0
    /\ monitor = [number |-> 0, check |-> Disconnected]
    /\ rate_reading = NoReading
    /\ build = NoBuild

-----------------------------------------------------------------------------
(* The paper account check.                                                *)

FailedCondition ==
    IF login.port # "paper" THEN "port"
    ELSE IF ExpectedAccount = "none" THEN "not set"
    ELSE IF Len(login.accounts) # 1 THEN "not one account"
    ELSE IF login.accounts[1] # ExpectedAccount THEN "other account"
    ELSE IF login.accounts[1] \notin PaperAccounts THEN "live account"
    ELSE "none"
CheckPaperAccount ==
    IF ~is_up THEN Disconnected
    ELSE [status |-> IF FailedCondition = "none" THEN "passed" ELSE "failed", reason |-> FailedCondition]

\* refresh: the check of a connection is made once. Each read of the check comes after it.
Refreshed ==
    IF ~is_up THEN [number |-> 0, check |-> CheckPaperAccount]
    ELSE IF session_number = monitor.number THEN monitor
    ELSE [number |-> session_number, check |-> CheckPaperAccount]
Passed == Refreshed.check.status = "passed"

-----------------------------------------------------------------------------
(* The balance.                                                            *)

\* USD when IBKR sends it, else the first real currency.
FindBaseCurrency ==
    LET real == {i \in DOMAIN login.currencies : login.currencies[i] \notin {"", "BASE"}}
    IN  IF \E i \in real : login.currencies[i] = "USD" THEN "USD"
        ELSE IF real = {} THEN "none"
        ELSE login.currencies[CHOOSE i \in real : \A other \in real : i <= other]
FindAccountExchangeRate == login.usd_rate > 0

Balance(base, amount, source, of) ==
    [base |-> base, amount |-> amount, rate |-> [source |-> source, base |-> base, of |-> of]]
ForexSource(reading) == IF reading.answer = "rate" THEN "ibkr_forex" ELSE "missing"
IsCached(base) == rate_reading.number = session_number /\ rate_reading.base = base

\* The balance of a build, or the wait for IBKR.
WithBalance(b) ==
    LET base == FindBaseCurrency
    IN  IF ~Passed THEN [b EXCEPT !.balance = NoBalance]
        ELSE IF base = "none" THEN [b EXCEPT !.balance = Balance("none", 0, "none", session_number)]
        ELSE IF base = "USD" THEN [b EXCEPT !.balance = Balance(base, fills, "base_currency_is_usd", session_number)]
        ELSE IF FindAccountExchangeRate THEN [b EXCEPT !.balance = Balance(base, fills, "account", session_number)]
        ELSE IF IsCached(base)
        THEN [b EXCEPT !.balance = Balance(base, fills, ForexSource(rate_reading), rate_reading.number)]
        ELSE [b EXCEPT !.balance = Balance(base, fills, "asked", session_number), !.step = "forex"]

-----------------------------------------------------------------------------
(* A message: without a passed check the next part needs no await.         *)

Complete(b) == [b EXCEPT !.step = "send", !.positions = IF Passed THEN fills ELSE 0]
AskSplits(b) == IF Passed THEN [b EXCEPT !.step = "splits"] ELSE Complete(b)
AskEntries(b) == IF Passed THEN [b EXCEPT !.step = "entries"] ELSE AskSplits([b EXCEPT !.entries = -1])

Build(b) == build' = Kept(b) /\ monitor' = Refreshed /\ UNCHANGED accounts
StartBuild ==
    /\ build.step = "wait"
    /\ LET b == WithBalance([NoBuild EXCEPT !.step = "entries", !.quiet = TRUE, !.of = session_number,
                                            !.check = Refreshed.check])
       IN  Build(IF b.step = "forex" THEN b ELSE AskEntries(b))
    /\ UNCHANGED <<recorded, rate_reading>>
\* The socket uses its own answer, also when another one came meanwhile, and the answer counts for the connection and
\* the currency before the await.
GetRate(answer) ==
    LET reading == [number |-> build.of, base |-> build.balance.base, answer |-> answer]
    IN  /\ build.step = "forex" /\ (answer = "rate" => is_up)
        /\ rate_reading' = reading
        /\ Build(AskEntries([build EXCEPT !.balance.rate =
                    [source |-> ForexSource(reading), base |-> reading.base, of |-> reading.number]]))
        /\ UNCHANGED <<recorded>>
ReadEntries ==
    /\ build.step = "entries" /\ Build(AskSplits([build EXCEPT !.entries = recorded]))
    /\ UNCHANGED <<recorded, rate_reading>>
ReadSplitChecks ==
    /\ build.step = "splits" /\ Build(Complete(build))
    /\ UNCHANGED <<recorded, rate_reading>>

\* send_if_changed: after it the page has the message of the build. The orders follow when their time came.
SendAccount(orders_are_due) ==
    /\ build.step = "send"
    /\ Build([build EXCEPT !.step = IF ~orders_are_due THEN "wait" ELSE IF Passed THEN "fills" ELSE "orders"])
    /\ UNCHANGED <<recorded, rate_reading>>
\* record_fills writes the new fills into the ledger; an IBKR error leaves them.
RecordFills(answered) ==
    /\ build.step = "fills"
    /\ recorded' = IF answered THEN fills ELSE recorded
    /\ Build([build EXCEPT !.step = "orders", !.quiet = @ /\ recorded' = recorded])
    /\ UNCHANGED rate_reading
\* Without an answer the socket tries again later, and the page keeps its orders.
ReadOrders(answered) ==
    /\ build.step = "orders"
    /\ Build([build EXCEPT !.step = "wait",
                !.orders = IF ~answered THEN -1 ELSE IF Passed THEN open_orders ELSE 0])
    /\ UNCHANGED <<recorded, rate_reading>>

-----------------------------------------------------------------------------
(* The monitor alone, the other sockets, IB Gateway and IBKR.              *)

KeepChecking == monitor' = Refreshed /\ UNCHANGED <<accounts, recorded, rate_reading, build>>
\* The reading of another socket, asked on this or an earlier connection; or the reading gets too old.
OtherReading(reading) ==
    /\ rate_reading' = reading
    /\ UNCHANGED <<accounts, recorded, monitor, build>>

Disturb == build' = Kept([build EXCEPT !.quiet = FALSE])
Outside == Disturb /\ UNCHANGED <<recorded, monitor, rate_reading>>
OtherRecords ==
    /\ recorded < fills /\ recorded' = fills
    /\ Disturb /\ UNCHANGED <<accounts, monitor, rate_reading>>
Connect(new_login) ==
    /\ ~is_up /\ session_number < MaxConnections
    /\ login' = new_login /\ is_up' = TRUE /\ session_number' = session_number + 1
    /\ UNCHANGED <<open_orders, fills>> /\ Outside
\* The socket, or only the link of IB Gateway to IBKR, which can come back on the same connection.
LoseConnection ==
    /\ is_up /\ is_up' = FALSE
    /\ UNCHANGED <<login, session_number, open_orders, fills>> /\ Outside
LinkComesBack ==
    /\ ~is_up /\ session_number > 0 /\ is_up' = TRUE
    /\ UNCHANGED <<login, session_number, open_orders, fills>> /\ Outside
PlaceOrder ==
    /\ open_orders + fills < MaxFills /\ open_orders' = open_orders + 1
    /\ UNCHANGED <<login, session_number, is_up, fills>> /\ Outside
Fill ==
    /\ open_orders > 0 /\ open_orders' = open_orders - 1 /\ fills' = fills + 1
    /\ UNCHANGED <<login, session_number, is_up>> /\ Outside

Next ==
    \/ StartBuild \/ ReadEntries \/ ReadSplitChecks
    \/ \E answer \in {"rate", "error"} : GetRate(answer)
    \/ \E done \in BOOLEAN : SendAccount(done) \/ RecordFills(done) \/ ReadOrders(done)
    \/ KeepChecking \/ OtherRecords \/ LoseConnection \/ LinkComesBack \/ PlaceOrder \/ Fill
    \/ \E number \in 1 .. session_number, answer \in {"rate", "error"} :
        OtherReading([number |-> number, base |-> FindBaseCurrency, answer |-> answer])
    \/ OtherReading(NoReading)
    \/ \E new_login \in Logins : Connect(new_login)

Spec == Init /\ [][Next]_feed

-----------------------------------------------------------------------------
\* A build that nothing disturbed sends the state of the account: the check of this connection, the cash and the
\* positions, the ledger, a rate of this connection, and after an answer also its open orders. What the page shows as
\* "Unattributed" is then no fill that ATrade could have recorded.
QuietMessageIsCurrent ==
    LET base == FindBaseCurrency
    IN  build.step = "wait" /\ build.quiet =>
            /\ build.check = CheckPaperAccount
            /\ IF build.check.status = "passed"
               THEN /\ build.balance.base = base /\ (base # "none" => build.balance.amount = fills)
                    /\ build.positions = fills /\ build.entries = recorded
                    /\ build.balance.rate.of = session_number
               ELSE build.balance = NoBalance /\ build.positions = 0
            /\ build.orders # -1 => build.orders = IF build.check.status = "passed" THEN open_orders ELSE 0

\* No message, disturbed or not, converts a balance with the rate of another currency or another connection, and each
\* balance has a rate or the reason why it has none.
BalanceHasItsRate ==
    LET rate == build.balance.rate
    IN  /\ rate.base = build.balance.base
        /\ build.balance # NoBalance => rate.of = build.of
        /\ build.step # "forex" => rate.source # "asked"
        /\ rate.source = "base_currency_is_usd" <=> build.balance.base = "USD"
=============================================================================
