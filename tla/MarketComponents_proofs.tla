----------------------- MODULE MarketComponents_proofs -----------------------
(***************************************************************************)
(* The properties of the components between the strategies and IBKR, in    *)
(* each behavior of MarketComponents. The execution client and the change  *)
(* feed are proved in modules of their own; here each step of              *)
(* MarketComponents is a step of that component, or changes nothing of it. *)
(***************************************************************************)
EXTENDS MarketComponents, Sums, TLAPS

-----------------------------------------------------------------------------
(* The execution client.                                                   *)

ClientProofs == INSTANCE ExecutionClient_proofs WITH socket <- api_socket

\* The execution client of this module is the one that ExecutionClient_proofs is about.
LEMMA ClientIsProved == (Client!Init <=> ClientProofs!Init) /\ (Client!Next <=> ClientProofs!Next)
<1> USE DEF Client!Executions, Client!Executed, Client!Sent, Client!Fault, Client!RequestFails, Client!Running,
            Client!AfterFills, Client!market, Client!link, Client!check, Client!client,
            ClientProofs!Executions, ClientProofs!Executed, ClientProofs!Sent, ClientProofs!Fault,
            ClientProofs!RequestFails, ClientProofs!Running, ClientProofs!AfterFills, ClientProofs!market,
            ClientProofs!link, ClientProofs!check, ClientProofs!client
<1>1. Client!Init <=> ClientProofs!Init
    BY DEF Client!Init, ClientProofs!Init
<1>2. Client!Next <=> ClientProofs!Next
    BY DEF
        Client!Next, Client!Loop, Client!SubmitOrder, Client!PlaceOrder, Client!CancelOrder, Client!GrowOld,
        Client!Execute, Client!EndOrder, Client!Reconnect, Client!ReadNewFills, Client!FillsEnd, Client!SaveFill,
        Client!SendFill, Client!SkipOpenOrders, Client!ReadOpenOrders, Client!CancelEnded, Client!Stop,
        Client!LoseSocket, Client!EndHold, Client!IsFilled, Client!Working, Client!Unsaved,
        ClientProofs!Next, ClientProofs!Loop, ClientProofs!SubmitOrder, ClientProofs!PlaceOrder,
        ClientProofs!CancelOrder, ClientProofs!GrowOld, ClientProofs!Execute, ClientProofs!EndOrder,
        ClientProofs!Reconnect, ClientProofs!ReadNewFills, ClientProofs!FillsEnd, ClientProofs!SaveFill,
        ClientProofs!SendFill, ClientProofs!SkipOpenOrders, ClientProofs!ReadOpenOrders, ClientProofs!CancelEnded,
        ClientProofs!Stop, ClientProofs!LoseSocket, ClientProofs!EndHold, ClientProofs!IsFilled,
        ClientProofs!Working, ClientProofs!Unsaved
<1> QED
    BY <1>1, <1>2

\* A step of another part changes nothing of the execution client.
LEMMA ClientSteps == [Next]_vars => [ClientProofs!Next]_(ClientProofs!variables)
<1> SUFFICES ASSUME [Next]_vars PROVE [ClientProofs!Next]_(ClientProofs!variables)
    OBVIOUS
<1>1. Client!Next \/ UNCHANGED client
    BY DEF Next, MarketStep, vars, market
<1>2. UNCHANGED client => UNCHANGED ClientProofs!variables
    BY DEF client, ClientProofs!variables, ClientProofs!client, ClientProofs!check, ClientProofs!market,
        ClientProofs!link
<1> QED
    BY <1>1, <1>2, ClientIsProved

\* The assumption of the composition has what the execution client assumes.
LEMMA ClientConstantsHold == ClientProofs!ClientConstants
BY MarketAssumption DEF ClientProofs!ClientConstants

\* The invariant of the execution client, in each behavior of the composition.
LEMMA ClientInvariant == Spec => []ClientProofs!ClientIInv
<1>1. Init => ClientProofs!ClientIInv
    BY ClientIsProved, ClientConstantsHold, ClientProofs!ClientInit DEF Init
<1>2. ClientProofs!ClientIInv /\ [Next]_vars => ClientProofs!ClientIInv'
    BY ClientSteps, ClientConstantsHold, ClientProofs!ClientStep
<1> QED
    BY <1>1, <1>2, PTL DEF Spec

\* EachCancelIsTrue for every number of orders, executions and faults: the strategy gets a cancel event only when it
\* asked for one, or when IBKR has ended the order and the strategy has each execution of it.
THEOREM CancelsAreTrue == Spec => EachCancelIsTrue
<1>1. ClientProofs!ClientIInv /\ [Next]_vars =>
        \A o \in Orders : engine[o] # "canceled" /\ engine'[o] = "canceled" =>
            \/ o \in asked'
            \/ ibkr[o] = "done" /\ \A n \in 1 .. executed[o] : events[<<o, n>>] = 1
    BY ClientSteps, ClientConstantsHold, ClientProofs!CancelStep
<1> QED
    BY <1>1, ClientInvariant, PTL DEF Spec, EachCancelIsTrue, Client!EachCancelIsTrue

-----------------------------------------------------------------------------
(* The connection to IB Gateway.                                           *)

\* A login can change only while nothing is synchronized, and each connection that synchronizes has a new number: a
\* check never has the number of a later connection.
ChecksHaveTheirConnection ==
    /\ keeper \in {"connecting", "synchronizing"} => ~synchronized
    /\ checked.number <= number
    /\ checked.result = "passed" /\ checked.number = number /\ synchronized => login = "paper"

\* The inductive invariant of the connection.
LinkIInv == Link!LinkTypeOK /\ ChecksHaveTheirConnection

\* The Boolean variables keep their type.
LEMMA LinkFlagsStep == Link!FlagsOK /\ [Link!Next]_(Link!linkVars) => Link!FlagsOK'
<1> SUFFICES ASSUME Link!FlagsOK, [Link!Next]_(Link!linkVars) PROVE Link!FlagsOK'
    OBVIOUS
<1> USE DEF Link!FlagsOK, Link!linkVars, Link!ibStatus, Link!uses, Link!world, Link!MarkLost, Link!MarkRestored
<1>1. CASE Link!KeepConnected \/ Link!RetryTimePasses \/ Link!Refresh
    BY <1>1 DEF Link!KeepConnected, Link!TryToConnect, Link!OpenSocket, Link!Synchronize, Link!StartLinkCheck,
        Link!EndLinkCheck, Link!RetryTimePasses, Link!Refresh
<1>2. ASSUME NEW r \in Requests,
             Link!RequestHistoricalData(r) \/ Link!ReceiveHistoricalData(r) \/ Link!TimeOut(r)
      PROVE  Link!FlagsOK'
    BY <1>2 DEF Link!RequestHistoricalData, Link!ReceiveHistoricalData, Link!TimeOut, Link!TakeRetry
<1>3. ASSUME NEW s \in Streams,
             Link!SubscribeToLiveBars(s) \/ Link!EndSubscribe(s) \/ Link!CheckStream(s) \/ Link!CloseStream(s)
      PROVE  Link!FlagsOK'
    BY <1>3 DEF Link!SubscribeToLiveBars, Link!EndSubscribe, Link!CheckStream, Link!CloseStream, Link!TakeRetry
<1>4. CASE Link!LoseSocket \/ Link!LoseLink \/ Link!RestoreLink
    BY <1>4 DEF Link!LoseSocket, Link!LoseLink, Link!RestoreLink
<1> QED
    BY <1>1, <1>2, <1>3, <1>4 DEF Link!Next

\* Each step of the connection keeps the invariant: a login changes only while nothing is synchronized.
LEMMA LinkStep == LinkIInv /\ [Link!Next]_(Link!linkVars) => LinkIInv'
<1> SUFFICES ASSUME LinkIInv, [Link!Next]_(Link!linkVars) PROVE LinkIInv'
    OBVIOUS
<1>1. Link!FlagsOK'
    BY LinkFlagsStep DEF LinkIInv, Link!LinkTypeOK
<1> USE <1>1, MarketAssumption
    DEF LinkIInv, Link!LinkTypeOK, ChecksHaveTheirConnection, Link!linkVars, Link!ibStatus, Link!uses, Link!world,
        Link!MarkLost, Link!MarkRestored
<1>2. CASE Link!KeepConnected
    <2>1. CASE Link!TryToConnect \/ Link!OpenSocket \/ Link!StartLinkCheck
        BY <2>1 DEF Link!TryToConnect, Link!OpenSocket, Link!StartLinkCheck
    <2>2. CASE Link!Synchronize
        BY <2>2 DEF Link!Synchronize
    <2>3. CASE Link!EndLinkCheck
        BY <2>3 DEF Link!EndLinkCheck
    <2> QED
        BY <1>2, <2>1, <2>2, <2>3 DEF Link!KeepConnected
<1>3. CASE Link!RetryTimePasses \/ UNCHANGED Link!linkVars
    BY <1>3 DEF Link!RetryTimePasses
<1>4. CASE Link!Refresh
    BY <1>4 DEF Link!Refresh, Link!Status
<1>5. ASSUME NEW r \in Requests,
             Link!RequestHistoricalData(r) \/ Link!ReceiveHistoricalData(r) \/ Link!TimeOut(r)
      PROVE  LinkIInv'
    <2>1. UNCHANGED <<keeper, synchronized, number, checked, login, losses, stream, subscription>>
        BY <1>5 DEF Link!RequestHistoricalData, Link!ReceiveHistoricalData, Link!TimeOut
    <2>2. request' \in [Requests -> {"none", "waiting", "lost"}]
        BY <1>5 DEF Link!RequestHistoricalData, Link!ReceiveHistoricalData, Link!TimeOut
    <2> QED
        BY <2>1, <2>2
<1>6. ASSUME NEW s \in Streams,
             Link!SubscribeToLiveBars(s) \/ Link!EndSubscribe(s) \/ Link!CheckStream(s) \/ Link!CloseStream(s)
      PROVE  LinkIInv'
    <2>1. UNCHANGED <<keeper, synchronized, number, checked, login, losses, request>>
        BY <1>6 DEF Link!SubscribeToLiveBars, Link!EndSubscribe, Link!CheckStream, Link!CloseStream
    <2>2. stream' \in [Streams -> {"none", "subscribing", "live", "failed"}] /\ subscription' \subseteq Streams
        BY <1>6 DEF Link!SubscribeToLiveBars, Link!EndSubscribe, Link!CheckStream, Link!CloseStream
    <2> QED
        BY <2>1, <2>2
<1>7. CASE Link!LoseSocket
    BY <1>7 DEF Link!LoseSocket, Link!Drop
<1>8. CASE Link!LoseLink \/ Link!RestoreLink
    BY <1>8 DEF Link!LoseLink, Link!RestoreLink, Link!Drop
<1> QED
    BY <1>2, <1>3, <1>4, <1>5, <1>6, <1>7, <1>8 DEF Link!Next

\* IbkrInv for every number of orders, executions, requests, streams and faults: the fill events of the strategy are the
\* rows of the ledger, and a passed paper account check is of the login that it stands for.
THEOREM IbkrIsConsistent == Spec => []IbkrInv
<1>1. Init => LinkIInv
    <2> SUFFICES ASSUME Init PROVE LinkIInv
        OBVIOUS
    <2>1. Link!FlagsOK
        BY DEF Init, Link!Init, Link!FlagsOK
    <2> QED
        BY <2>1, MarketAssumption DEF Init, Link!Init, LinkIInv, Link!LinkTypeOK, ChecksHaveTheirConnection
<1>2. LinkIInv /\ [Next]_vars => LinkIInv'
    <2>1. [Next]_vars => Link!Next \/ UNCHANGED gateway
        BY DEF Next, MarketStep, vars, market
    <2>2. UNCHANGED gateway => UNCHANGED Link!linkVars
        BY DEF gateway, Link!linkVars, Link!ibStatus, Link!uses, Link!world
    <2> QED
        BY <2>1, <2>2, LinkStep
<1>3. ClientProofs!ClientIInv => Client!ClientTypeOK /\ Client!FillEventsMatchLedger
    <2>1. ClientProofs!ClientIInv => ClientProofs!ClientTypeOK /\ ClientProofs!FillEventsMatchLedger
        BY ClientProofs!ClientIInvIsEnough
    <2> QED
        BY <2>1
        DEF Client!ClientTypeOK, Client!FlagsOK, Client!FillEventsMatchLedger, Client!Executions, Client!OrderStates,
            Client!LoopSteps, Client!Executed, Client!Sent,
            ClientProofs!ClientTypeOK, ClientProofs!FlagsOK, ClientProofs!FillEventsMatchLedger,
            ClientProofs!Executions, ClientProofs!OrderStates, ClientProofs!LoopSteps, ClientProofs!Executed,
            ClientProofs!Sent
<1>4. LinkIInv => Link!LinkTypeOK /\ Link!PassedCheckIsOfThisLogin
    BY DEF LinkIInv, ChecksHaveTheirConnection, Link!PassedCheckIsOfThisLogin, Link!Status
<1>5. ClientProofs!ClientIInv /\ LinkIInv => IbkrInv
    BY <1>3, <1>4 DEF IbkrInv
<1> QED
    BY <1>1, <1>2, <1>5, ClientInvariant, PTL DEF Spec

-----------------------------------------------------------------------------
(* The stock split check of the owner ledger.                              *)

\* The sum of the positions is the sum that Sums is about.
LEMMA SplitSumIs == ASSUME NEW quantities PROVE Split!SumOf(quantities) = SumFunction(quantities)
BY DEF Split!SumOf, Split!MapThenSumSet, Split!MapThenFoldSet, SumFunction, SumFunctionOnSet, FoldFunctionOnSet,
    MapThenFoldSet

\* The sum of whole numbers is one.
LEMMA SplitSumIsWhole ==
    ASSUME IsFiniteSet(Tests), NEW S \in SUBSET Split!Owners, NEW quantities \in [S -> Int]
    PROVE  Split!SumOf(quantities) \in Int
<1>1. IsFiniteSet(Split!Owners)
    BY FS_Singleton, FS_Union DEF Split!Owners, Split!ByHand
<1>2. IsFiniteSet(S)
    BY <1>1, FS_Subset
<1> QED
    BY <1>2, SumIsWhole, SplitSumIs

\* A check of the table split_check.
SplitChecks ==
    [ex : 1 .. 2, link : 0 .. 2, before : Int, after : Int, status : {"needed", "applied", "kept"}, resolutions : Nat,
     restarted : BOOLEAN]

\* What a process keeps between two of its steps.
JobIsTyped(j) ==
    /\ j.at \in {"idle", "evidence", "instrument", "insert", "change", "commit", "keep"}
    /\ j.at \in {"evidence", "instrument", "change", "commit", "keep"} => j.after \in Int
    /\ j.at = "insert" => j.check \in SplitChecks
    /\ j.at \in {"change", "commit", "keep"} => j.ex \in 1 .. 2
    /\ j.at \in {"change", "commit", "keep"} => j.check \in Nat
    /\ j.at = "commit" => DOMAIN j.quantities \subseteq Split!Owners /\ j.quantities \in [DOMAIN j.quantities -> Int]

\* The state of the stock split check, but for its Boolean variables.
SplitIsTyped ==
    /\ account \in Nat
    /\ shares \in [Split!Owners -> Int]
    /\ row \in [1 .. 2 -> {"none", "candidate", "confirmed"}]
    /\ divided \in Nat
    /\ ledgerChanges \in [1 .. 2 -> Nat]
    /\ checks \in Seq(SplitChecks)
    /\ checkRow \in 1 .. 2
    /\ split_job = [p \in Split!Processes |-> split_job[p]]
    /\ \A p \in Split!Processes : JobIsTyped(split_job[p])
    /\ selling \subseteq Split!Owners /\ ended \subseteq Tests /\ stale \subseteq Tests

\* A row is confirmed by its first change of the ledger and stays it, and a check is only inserted while none is needed.
SplitHistory ==
    /\ \A d \in 1 .. 2 : ledgerChanges[d] <= 1 /\ (ledgerChanges[d] # 0 => row[d] = "confirmed")
    /\ \A c, d \in 1 .. Len(checks) : checks[c].status = "needed" /\ checks[d].status = "needed" => c = d

\* The inductive invariant of the stock split check.
SplitIInv == adjusted \in BOOLEAN /\ moved \in BOOLEAN /\ SplitIsTyped /\ SplitHistory

\* The flags of IBKR.
LEMMA SplitFlagsStep ==
    adjusted \in BOOLEAN /\ moved \in BOOLEAN /\ [Split!Next]_(Split!splitVars) =>
        (adjusted \in BOOLEAN /\ moved \in BOOLEAN)'
<1> SUFFICES ASSUME adjusted \in BOOLEAN, moved \in BOOLEAN, [Split!Next]_(Split!splitVars)
             PROVE (adjusted \in BOOLEAN /\ moved \in BOOLEAN)'
    OBVIOUS
<1> USE DEF Split!splitVars, Split!market, Split!books
<1>1. CASE Split!BarsAdjust \/ Split!PositionMoves \/ Split!ReadBars
    BY <1>1 DEF Split!BarsAdjust, Split!PositionMoves, Split!ReadBars
<1>2. ASSUME NEW o \in Sellers, Split!SendSell(o) \/ Split!FillSell(o) PROVE UNCHANGED <<adjusted, moved>>
    BY <1>2 DEF Split!SendSell, Split!FillSell
<1>3. ASSUME NEW f \in Tests, Split!EndAndTransfer(f) PROVE UNCHANGED <<adjusted, moved>>
    BY <1>3 DEF Split!EndAndTransfer
<1>4. CASE Split!StartTry \/ Split!ReadEvidence \/ Split!CheckInstrument \/ Split!InsertCheck \/ Split!TryFails
           \/ Split!WorkerRestarts \/ Split!RestartAfterApply
    BY <1>4 DEF Split!StartTry, Split!ReadEvidence, Split!CheckInstrument, Split!InsertCheck, Split!TryFails,
        Split!WorkerRestarts, Split!RestartAfterApply
<1>5. ASSUME NEW p, Split!ReadEntries(p) \/ Split!ChangeLedger(p) \/ Split!ChangeIsRefused(p)
      PROVE UNCHANGED <<adjusted, moved>>
    BY <1>5 DEF Split!ReadEntries, Split!ChangeLedger, Split!ChangeIsRefused
<1>6. ASSUME NEW q, Split!ReadNeededCheck(q) \/ Split!KeepLedger(q) PROVE UNCHANGED <<adjusted, moved>>
    BY <1>6 DEF Split!ReadNeededCheck, Split!KeepLedger
<1> QED
    BY <1>1, <1>2, <1>3, <1>4, <1>5, <1>6 DEF Split!Next, Split!WorkerStep

\* An answer to a check leaves the others, and the answered one is not needed any more.
LEMMA ResolveKeeps ==
    ASSUME checks \in Seq(SplitChecks), NEW c \in Nat, NEW status \in {"applied", "kept"}, NEW next_link \in 0 .. 2,
           checks' = Split!Resolve(c, status, next_link)
    PROVE  /\ checks' \in Seq(SplitChecks) /\ Len(checks') = Len(checks)
           /\ \A d \in 1 .. Len(checks) : checks'[d].status = "needed" => checks[d].status = "needed"
<1>1. CASE c \in 1 .. Len(checks)
    <2>1. PICK check \in SplitChecks : check = checks[c]
        BY <1>1
    <2> DEFINE linked == IF next_link = 0 THEN check.link ELSE next_link
               resolutions == check.resolutions + 1
               answered == [check EXCEPT !.status = status, !.link = linked, !.resolutions = resolutions]
    <2>2. checks' = [checks EXCEPT ![c] = answered]
        BY <1>1, <2>1 DEF Split!Resolve
    <2>3. linked \in 0 .. 2 /\ resolutions \in Nat
        BY <2>1 DEF SplitChecks
    <2> HIDE DEF linked, resolutions
    <2>4. answered.status = status
        BY <2>1 DEF SplitChecks
    <2>5. answered \in SplitChecks
        BY <2>1, <2>3 DEF SplitChecks
    <2> HIDE DEF answered
    <2> QED
        BY <1>1, <2>2, <2>4, <2>5
<1>2. CASE c \notin 1 .. Len(checks)
    <2>1. checks' = checks
        BY <1>2 DEF Split!Resolve
    <2> QED
        BY <2>1
<1> QED
    BY <1>1, <1>2

\* A process takes a step: the jobs of the others stay.
LEMMA JobsAreTyped ==
    ASSUME SplitIsTyped, NEW p \in Split!Processes, NEW j, JobIsTyped(j), split_job' = [split_job EXCEPT ![p] = j]
    PROVE  split_job' = [q \in Split!Processes |-> split_job'[q]] /\ \A q \in Split!Processes : JobIsTyped(split_job'[q])
BY DEF SplitIsTyped

\* No work is a job.
LEMMA IdleIsTyped == JobIsTyped(Split!Idle)
BY DEF JobIsTyped, Split!Idle

\* Evidence A writes a candidate at most: no confirmed row changes.
LEMMA EvidenceKeeps ==
    ASSUME NEW is_adjusted, NEW divisions, NEW before \in [1 .. 2 -> {"none", "candidate", "confirmed"}], NEW after,
           after = Split!Evidence(is_adjusted, divisions, before)
    PROVE  /\ after \in [1 .. 2 -> {"none", "candidate", "confirmed"}]
           /\ \A d \in 1 .. 2 : after[d] = "confirmed" <=> before[d] = "confirmed"
BY DEF Split!Evidence

\* The positions in the ledger, and their sum.
LEMMA QuantitiesAreTyped ==
    ASSUME SplitIsTyped, IsFiniteSet(Tests)
    PROVE  /\ DOMAIN Split!OwnerQuantities \subseteq Split!Owners
           /\ Split!OwnerQuantities \in [DOMAIN Split!OwnerQuantities -> Int]
           /\ Split!SumOf(Split!OwnerQuantities) \in Int
<1>1. DOMAIN Split!OwnerQuantities \subseteq Split!Owners
    BY DEF Split!OwnerQuantities
<1>2. Split!OwnerQuantities \in [DOMAIN Split!OwnerQuantities -> Int]
    BY DEF Split!OwnerQuantities, SplitIsTyped
<1> QED
    BY <1>1, <1>2, SplitSumIsWhole

\* The positions after the change of the ledger.
LEMMA AdjustedIsTyped ==
    ASSUME SplitIsTyped, IsFiniteSet(Tests), NEW S \in SUBSET Split!Owners, NEW quantities \in [S -> Int],
           NEW after \in Int
    PROVE  Split!Adjusted(quantities, after) \in [Split!Owners -> Int]
<1>1. PICK sum \in Int : sum = Split!SumOf(quantities)
    BY SplitSumIsWhole
<1> QED
    BY <1>1 DEF Split!Adjusted, Split!Ratio, SplitIsTyped

\* IBKR and the owners change no row of the ledger.
LEMMA SplitOwnersStep ==
    ASSUME SplitIsTyped, SplitHistory,
           \/ Split!BarsAdjust \/ Split!PositionMoves \/ UNCHANGED Split!splitVars
           \/ \E o \in Sellers : Split!SendSell(o) \/ Split!FillSell(o)
           \/ \E f \in Tests : Split!EndAndTransfer(f)
    PROVE  SplitIsTyped' /\ SplitHistory'
<1> USE DEF SplitHistory, Split!market, Split!books
<1>1. UNCHANGED <<row, divided, ledgerChanges, checks, checkRow, split_job>>
    BY DEF Split!splitVars, Split!BarsAdjust, Split!PositionMoves, Split!SendSell, Split!FillSell, Split!EndAndTransfer
<1>2. SplitHistory'
    BY <1>1
<1>3. Sellers \subseteq Split!Owners /\ Tests \subseteq Split!Owners /\ Split!ByHand \in Split!Owners
    BY MarketAssumption DEF Split!Owners, Split!ByHand
<1> DEFINE OwnersAreTyped ==
        /\ account' \in Nat /\ shares' \in [Split!Owners -> Int] /\ selling' \subseteq Split!Owners
        /\ ended' \subseteq Tests
        /\ stale' \subseteq Tests
<1>4. OwnersAreTyped
    <2>1. CASE Split!BarsAdjust \/ Split!PositionMoves \/ UNCHANGED Split!splitVars
        BY <2>1 DEF SplitIsTyped, Split!splitVars, Split!BarsAdjust, Split!PositionMoves, Split!Ratio
    <2>2. ASSUME NEW o \in Sellers, Split!SendSell(o) \/ Split!FillSell(o) PROVE OwnersAreTyped
        BY <2>2, <1>3 DEF SplitIsTyped, Split!SendSell, Split!FillSell
    <2>3. ASSUME NEW f \in Tests, Split!EndAndTransfer(f) PROVE OwnersAreTyped
        BY <2>3, <1>3 DEF SplitIsTyped, Split!EndAndTransfer
    <2> QED
        BY <2>1, <2>2, <2>3
<1> QED
    BY <1>1, <1>2, <1>4 DEF SplitIsTyped

\* A step that changes the job of one process, and nothing else that the invariant looks at.
LEMMA JobStep ==
    ASSUME SplitIsTyped, SplitHistory, NEW p \in Split!Processes, NEW j, JobIsTyped(j),
           split_job' = [split_job EXCEPT ![p] = j],
           UNCHANGED <<account, shares, row, divided, ledgerChanges, checks, checkRow, selling, ended, stale>>
    PROVE  SplitIsTyped' /\ SplitHistory'
<1>1. split_job' = [q \in Split!Processes |-> split_job'[q]] /\ \A q \in Split!Processes : JobIsTyped(split_job'[q])
    BY JobsAreTyped
<1>2. SplitHistory'
    BY DEF SplitHistory
<1> QED
    BY <1>1, <1>2 DEF SplitIsTyped

\* The worker begins a try, and reads evidence A.
LEMMA EvidenceStep ==
    ASSUME SplitIsTyped, SplitHistory, Split!StartTry \/ Split!ReadEvidence \/ Split!ReadBars
    PROVE  SplitIsTyped' /\ SplitHistory'
<1> USE DEF Split!market, Split!books
<1>1. Split!Worker \in Split!Processes
    BY DEF Split!Processes
<1>2. CASE Split!StartTry
    <2>1. PICK last \in BOOLEAN :
            split_job' = [split_job EXCEPT ![Split!Worker] = [at |-> "evidence", after |-> account, last |-> last]]
        BY <1>2 DEF Split!StartTry
    <2>2. JobIsTyped([at |-> "evidence", after |-> account, last |-> last])
        BY DEF JobIsTyped, SplitIsTyped
    <2>3. UNCHANGED <<account, shares, row, divided, ledgerChanges, checks, checkRow, selling, ended, stale>>
        BY <1>2 DEF Split!StartTry
    <2> QED
        BY <1>1, <2>1, <2>2, <2>3, JobStep
<1>3. ASSUME Split!ReadEvidence \/ Split!ReadBars
      PROVE  /\ row' \in [1 .. 2 -> {"none", "candidate", "confirmed"}]
             /\ \A d \in 1 .. 2 : row'[d] = "confirmed" <=> row[d] = "confirmed"
    <2>1. row' = row \/ row' = Split!Evidence(adjusted, divided, row)
        BY <1>3 DEF Split!ReadEvidence, Split!ReadBars
    <2>2. row \in [1 .. 2 -> {"none", "candidate", "confirmed"}]
        BY DEF SplitIsTyped
    <2> QED
        BY <2>1, <2>2, EvidenceKeeps
<1>4. CASE Split!ReadEvidence \/ Split!ReadBars
    <2>1. UNCHANGED <<account, shares, divided, ledgerChanges, checks, checkRow, selling, ended, stale>>
        BY <1>4 DEF Split!ReadEvidence, Split!ReadBars
    <2>2. split_job' = [q \in Split!Processes |-> split_job'[q]] /\ \A q \in Split!Processes : JobIsTyped(split_job'[q])
        <3>1. CASE Split!ReadBars
            BY <3>1 DEF Split!ReadBars, SplitIsTyped
        <3>2. CASE Split!ReadEvidence
            <4> DEFINE j == split_job[Split!Worker]
            <4>1. JobIsTyped(j) /\ j.at = "evidence"
                BY <1>1, <3>2 DEF Split!ReadEvidence, SplitIsTyped
            <4>2. split_job' = [split_job EXCEPT ![Split!Worker] =
                        [at |-> "instrument", after |-> j.after, last |-> j.last, candidate |-> row'[1] = "candidate"]]
                BY <1>1, <3>2 DEF Split!ReadEvidence, SplitIsTyped
            <4>3. \A last, candidate :
                    JobIsTyped([at |-> "instrument", after |-> j.after, last |-> last, candidate |-> candidate])
                BY <4>1 DEF JobIsTyped
            <4> QED
                BY <1>1, <4>2, <4>3, JobsAreTyped
        <3> QED
            BY <1>4, <3>1, <3>2
    <2> QED
        BY <1>3, <1>4, <2>1, <2>2 DEF SplitIsTyped, SplitHistory
<1> QED
    BY <1>2, <1>4

\* The worker compares the position with the ledger: the check that it can insert is typed, and needed.
LEMMA InstrumentStep ==
    ASSUME SplitIsTyped, SplitHistory, IsFiniteSet(Tests), Split!CheckInstrument
    PROVE  SplitIsTyped' /\ SplitHistory'
<1> USE DEF Split!market, Split!books
<1>1. Split!Worker \in Split!Processes
    BY DEF Split!Processes
<1> DEFINE try == split_job[Split!Worker]
           candidate == try.candidate /\ \A c \in DOMAIN checks : checks[c].link # 1
           before == Split!SumOf(Split!OwnerQuantities)
           change == [at |-> "change", ex |-> 1, after |-> try.after, check |-> 0]
           check == [ex |-> IF candidate THEN 1 ELSE checkRow, link |-> IF candidate THEN 1 ELSE 0,
                     before |-> before, after |-> try.after, status |-> "needed", resolutions |-> 0,
                     restarted |-> FALSE]
           insert == [at |-> "insert", check |-> check]
<1>2. JobIsTyped(try) /\ try.at = "instrument" /\ try.after \in Int
    BY <1>1 DEF Split!CheckInstrument, SplitIsTyped, JobIsTyped
<1>3. JobIsTyped(change)
    BY <1>2 DEF JobIsTyped
<1>4. before \in Int /\ checkRow \in 1 .. 2
    BY QuantitiesAreTyped DEF SplitIsTyped
<1>5. check \in SplitChecks
    <2> HIDE DEF candidate, before, try
    <2> QED
        BY <1>2, <1>4 DEF SplitChecks
<1>6. JobIsTyped(insert)
    <2> HIDE DEF check
    <2> QED
        BY <1>5 DEF JobIsTyped
<1>7. \E j \in {Split!Idle, change, insert} : split_job' = [split_job EXCEPT ![Split!Worker] = j]
    <2> HIDE DEF change, insert
    <2>1. split_job' = [split_job EXCEPT ![Split!Worker] = split_job'[Split!Worker]]
             /\ split_job'[Split!Worker] \in {Split!Idle, change, insert}
        BY <1>1 DEF Split!CheckInstrument, SplitIsTyped, change, insert
    <2> QED
        BY <2>1
<1>8. UNCHANGED <<account, shares, row, divided, ledgerChanges, checks, checkRow, selling, ended, stale>>
    BY DEF Split!CheckInstrument
<1> QED
    BY <1>1, <1>3, <1>6, <1>7, <1>8, IdleIsTyped, JobStep

\* Checks that are inserted, answered and restarted: none is needed next to another.
LEMMA ChecksStep ==
    ASSUME SplitIsTyped, SplitHistory, NEW p \in Split!Processes, NEW j, JobIsTyped(j),
           split_job' = [split_job EXCEPT ![p] = j],
           checks' \in Seq(SplitChecks),
           \A c, d \in 1 .. Len(checks') : checks'[c].status = "needed" /\ checks'[d].status = "needed" => c = d,
           UNCHANGED <<account, shares, row, divided, ledgerChanges, checkRow, selling, ended>>, stale' \subseteq Tests
    PROVE  SplitIsTyped' /\ SplitHistory'
<1>1. split_job' = [q \in Split!Processes |-> split_job'[q]] /\ \A q \in Split!Processes : JobIsTyped(split_job'[q])
    BY JobsAreTyped
<1>2. SplitHistory'
    BY DEF SplitHistory
<1> QED
    BY <1>1, <1>2 DEF SplitIsTyped

\* A check is inserted only while none is needed.
LEMMA InsertStep == ASSUME SplitIsTyped, SplitHistory, Split!InsertCheck PROVE SplitIsTyped' /\ SplitHistory'
<1> USE DEF Split!market, Split!books
<1>1. Split!Worker \in Split!Processes
    BY DEF Split!Processes
<1>2. PICK check \in SplitChecks : checks' = IF Split!IsNeeded THEN checks ELSE Append(checks, check)
    BY <1>1 DEF Split!InsertCheck, SplitIsTyped, JobIsTyped
<1>3. checks \in Seq(SplitChecks)
    BY DEF SplitIsTyped
<1>4. checks' \in Seq(SplitChecks)
    BY <1>2, <1>3
<1>5. ASSUME NEW c \in 1 .. Len(checks'), NEW d \in 1 .. Len(checks'),
             checks'[c].status = "needed" /\ checks'[d].status = "needed"
      PROVE  c = d
    <2>1. CASE Split!IsNeeded
        BY <1>2, <1>5, <2>1 DEF SplitHistory
    <2>2. CASE ~Split!IsNeeded
        <3>1. \A e \in 1 .. Len(checks) : checks[e].status # "needed"
            BY <1>3, <2>2 DEF Split!IsNeeded
        <3>2. checks' = Append(checks, check) /\ Len(checks') = Len(checks) + 1
            BY <1>2, <1>3, <2>2
        <3>3. \A e \in 1 .. Len(checks) : checks'[e].status # "needed"
            BY <1>3, <3>1, <3>2
        <3>4. c \notin 1 .. Len(checks) /\ d \notin 1 .. Len(checks)
            BY <1>5, <3>3
        <3> QED
            BY <1>3, <3>2, <3>4
    <2> QED
        BY <2>1, <2>2
<1>6. UNCHANGED <<account, shares, row, divided, ledgerChanges, checkRow, selling, ended>> /\ stale' \subseteq Tests
    BY DEF Split!InsertCheck, SplitIsTyped
<1>7. split_job' = [split_job EXCEPT ![Split!Worker] = Split!Idle]
    BY DEF Split!InsertCheck
<1> QED
    BY <1>1, <1>4, <1>5, <1>6, <1>7, IdleIsTyped, ChecksStep

\* An answered check is not needed any more.
LEMMA AnswersStep ==
    ASSUME SplitIsTyped, SplitHistory, NEW c \in Nat, NEW status \in {"applied", "kept"}, NEW next_link \in 0 .. 2,
           checks' = Split!Resolve(c, status, next_link)
    PROVE  /\ checks' \in Seq(SplitChecks)
           /\ \A e, d \in 1 .. Len(checks') : checks'[e].status = "needed" /\ checks'[d].status = "needed" => e = d
<1>1. checks \in Seq(SplitChecks)
    BY DEF SplitIsTyped
<1>2. /\ checks' \in Seq(SplitChecks) /\ Len(checks') = Len(checks)
      /\ \A d \in 1 .. Len(checks) : checks'[d].status = "needed" => checks[d].status = "needed"
    BY <1>1, ResolveKeeps
<1> QED
    BY <1>2 DEF SplitHistory

\* The buttons of the Home page.
LEMMA ButtonsStep ==
    ASSUME SplitIsTyped, SplitHistory, NEW q \in Requests, Split!ReadNeededCheck(q) \/ Split!KeepLedger(q)
    PROVE  SplitIsTyped' /\ SplitHistory'
<1> USE DEF Split!market, Split!books
<1>1. q \in Split!Processes
    BY DEF Split!Processes
<1>2. CASE Split!ReadNeededCheck(q)
    <2>1. PICK c \in DOMAIN checks, answer \in {"change", "keep"} :
            split_job' = [split_job EXCEPT ![q] =
                            [at |-> answer, ex |-> checks[c].ex, after |-> checks[c].after, check |-> c]]
        BY <1>2 DEF Split!ReadNeededCheck
    <2>2. c \in Nat /\ checks[c] \in SplitChecks
        BY DEF SplitIsTyped
    <2>3. PICK check \in SplitChecks : check = checks[c]
        BY <2>2
    <2>4. check.ex \in 1 .. 2 /\ check.after \in Int
        BY DEF SplitChecks
    <2>5. JobIsTyped([at |-> answer, ex |-> check.ex, after |-> check.after, check |-> c])
        BY <2>2, <2>4 DEF JobIsTyped
    <2>6. UNCHANGED <<account, shares, row, divided, ledgerChanges, checks, checkRow, selling, ended, stale>>
        BY <1>2 DEF Split!ReadNeededCheck
    <2> QED
        BY <1>1, <2>1, <2>3, <2>5, <2>6, JobStep
<1>3. CASE Split!KeepLedger(q)
    <2>1. split_job[q].check \in Nat /\ checks' = Split!Resolve(split_job[q].check, "kept", 0)
        BY <1>1, <1>3 DEF Split!KeepLedger, SplitIsTyped, JobIsTyped
    <2>2. /\ checks' \in Seq(SplitChecks)
          /\ \A e, d \in 1 .. Len(checks') : checks'[e].status = "needed" /\ checks'[d].status = "needed" => e = d
        BY <2>1, AnswersStep
    <2>3. UNCHANGED <<account, shares, row, divided, ledgerChanges, checkRow, selling, ended>> /\ stale' \subseteq Tests
        BY <1>3 DEF Split!KeepLedger, SplitIsTyped
    <2>4. split_job' = [split_job EXCEPT ![q] = Split!Idle]
        BY <1>3 DEF Split!KeepLedger
    <2> QED
        BY <1>1, <2>2, <2>3, <2>4, IdleIsTyped, ChecksStep
<1> QED
    BY <1>2, <1>3

\* A restart of the forward tests marks an applied check.
LEMMA RestartStep ==
    ASSUME SplitIsTyped, SplitHistory, Split!RestartAfterApply \/ Split!TryFails \/ Split!WorkerRestarts
    PROVE  SplitIsTyped' /\ SplitHistory'
<1> USE DEF Split!market, Split!books
<1>1. Split!Worker \in Split!Processes
    BY DEF Split!Processes
<1>2. CASE Split!TryFails
    <2>1. split_job' = [split_job EXCEPT ![Split!Worker] = Split!Idle]
          /\ UNCHANGED <<account, shares, row, divided, ledgerChanges, checks, checkRow, selling, ended, stale>>
        BY <1>2 DEF Split!TryFails
    <2> QED
        BY <1>1, <2>1, IdleIsTyped, JobStep
<1>3. CASE Split!WorkerRestarts
    <2>1. checks' \in Seq(SplitChecks)
          /\ \A c, d \in 1 .. Len(checks') : checks'[c].status = "needed" /\ checks'[d].status = "needed" => c = d
        BY <1>3 DEF Split!WorkerRestarts, SplitIsTyped, SplitHistory
    <2>2. UNCHANGED <<account, shares, row, divided, ledgerChanges, checkRow, selling, ended>> /\ stale' \subseteq Tests
        BY <1>3 DEF Split!WorkerRestarts
    <2>3. split_job' = [split_job EXCEPT ![Split!Worker] = Split!Idle]
        BY <1>3 DEF Split!WorkerRestarts
    <2> QED
        BY <1>1, <2>1, <2>2, <2>3, IdleIsTyped, ChecksStep
<1>4. CASE Split!RestartAfterApply
    <2>1. PICK c \in DOMAIN checks : checks' = [checks EXCEPT ![c].restarted = TRUE]
        BY <1>4 DEF Split!RestartAfterApply
    <2>2. checks \in Seq(SplitChecks)
        BY DEF SplitIsTyped
    <2>3. PICK check \in SplitChecks : check = checks[c]
        BY <2>2
    <2> DEFINE restarted == [check EXCEPT !.restarted = TRUE]
    <2>4. restarted \in SplitChecks
        BY DEF SplitChecks
    <2>5. restarted.status = check.status
        BY DEF SplitChecks
    <2>6. checks' = [checks EXCEPT ![c] = restarted]
        BY <2>1, <2>2, <2>3
    <2> HIDE DEF restarted
    <2>7. checks' \in Seq(SplitChecks) /\ Len(checks') = Len(checks)
        BY <2>2, <2>4, <2>6
    <2>8. \A d \in 1 .. Len(checks) : checks'[d].status = checks[d].status
        BY <2>2, <2>3, <2>5, <2>6
    <2>9. SplitHistory'
        BY <1>4, <2>7, <2>8 DEF SplitHistory, Split!RestartAfterApply
    <2> QED
        BY <1>4, <2>7, <2>9 DEF SplitIsTyped, Split!RestartAfterApply
<1> QED
    BY <1>2, <1>3, <1>4

\* The change of the ledger is refused for a row that is confirmed.
LEMMA LedgerStep ==
    ASSUME SplitIsTyped, SplitHistory, IsFiniteSet(Tests), NEW p \in Split!Processes,
           Split!ReadEntries(p) \/ Split!ChangeLedger(p) \/ Split!ChangeIsRefused(p)
    PROVE  SplitIsTyped' /\ SplitHistory'
<1> USE DEF Split!market, Split!books
<1> DEFINE j == split_job[p]
<1>1. JobIsTyped(j)
    BY DEF SplitIsTyped
<1>2. CASE Split!ReadEntries(p)
    <2> DEFINE commit == [at |-> "commit", ex |-> j.ex, after |-> j.after, check |-> j.check,
                          quantities |-> Split!OwnerQuantities]
    <2>1. split_job' = [split_job EXCEPT ![p] = commit]
        BY <1>2 DEF Split!ReadEntries, SplitIsTyped
    <2>2. JobIsTyped(commit)
        BY <1>1, <1>2, QuantitiesAreTyped DEF Split!ReadEntries, JobIsTyped
    <2>3. UNCHANGED <<account, shares, row, divided, ledgerChanges, checks, checkRow, selling, ended, stale>>
        BY <1>2 DEF Split!ReadEntries
    <2> HIDE DEF commit
    <2> QED
        BY <2>1, <2>2, <2>3, JobStep
<1>3. CASE Split!ChangeIsRefused(p)
    <2>1. split_job' = [split_job EXCEPT ![p] = Split!Idle]
          /\ UNCHANGED <<account, shares, row, divided, ledgerChanges, checks, checkRow, selling, ended, stale>>
        BY <1>3 DEF Split!ChangeIsRefused
    <2> QED
        BY <2>1, IdleIsTyped, JobStep
<1>4. CASE Split!ChangeLedger(p)
    <2>1. /\ j.ex \in 1 .. 2 /\ j.after \in Int /\ j.check \in Nat
          /\ DOMAIN j.quantities \subseteq Split!Owners /\ j.quantities \in [DOMAIN j.quantities -> Int]
        BY <1>1, <1>4 DEF Split!ChangeLedger, JobIsTyped
    <2> HIDE DEF j
    <2>2. /\ row[j.ex] # "confirmed"
          /\ row' = [row EXCEPT ![j.ex] = "confirmed"]
          /\ divided' = divided + 1
          /\ ledgerChanges' = [ledgerChanges EXCEPT ![j.ex] = @ + 1]
          /\ shares' = Split!Adjusted(j.quantities, j.after)
          /\ UNCHANGED <<account, checkRow, selling, ended>>
          /\ split_job' = [split_job EXCEPT ![p] = Split!Idle]
        BY <1>4 DEF Split!ChangeLedger, Split!WriteSplit, j
    <2>3. shares' \in [Split!Owners -> Int]
        BY <2>1, <2>2, AdjustedIsTyped
    <2>4. stale' \subseteq Tests
        BY <1>4 DEF Split!ChangeLedger, SplitIsTyped
    <2>5. checks' = checks \/ checks' = Split!Resolve(j.check, "applied", j.ex)
        BY <1>4 DEF Split!ChangeLedger, j
    <2>6. /\ checks' \in Seq(SplitChecks)
          /\ \A e, d \in 1 .. Len(checks') : checks'[e].status = "needed" /\ checks'[d].status = "needed" => e = d
        <3>1. CASE checks' = checks
            BY <3>1 DEF SplitIsTyped, SplitHistory
        <3>2. CASE checks' = Split!Resolve(j.check, "applied", j.ex)
            BY <2>1, <3>2, AnswersStep
        <3> QED
            BY <2>5, <3>1, <3>2
    <2>7. split_job' = [q \in Split!Processes |-> split_job'[q]] /\ \A q \in Split!Processes : JobIsTyped(split_job'[q])
        BY <2>2, IdleIsTyped, JobsAreTyped
    <2>8. \A d \in 1 .. 2 : ledgerChanges'[d] <= 1 /\ (ledgerChanges'[d] # 0 => row'[d] = "confirmed")
        BY <2>1, <2>2 DEF SplitIsTyped, SplitHistory
    <2>9. row' \in [1 .. 2 -> {"none", "candidate", "confirmed"}] /\ divided' \in Nat /\ ledgerChanges' \in [1 .. 2 -> Nat]
        BY <2>1, <2>2 DEF SplitIsTyped
    <2>10. account' \in Nat /\ checkRow' \in 1 .. 2 /\ selling' \subseteq Split!Owners /\ ended' \subseteq Tests
        BY <2>2 DEF SplitIsTyped
    <2> QED
        BY <2>3, <2>4, <2>6, <2>7, <2>8, <2>9, <2>10 DEF SplitIsTyped, SplitHistory
<1> QED
    BY <1>2, <1>3, <1>4

\* Each step of the stock split check keeps the invariant.
LEMMA SplitStep == IsFiniteSet(Tests) /\ SplitIInv /\ [Split!Next]_(Split!splitVars) => SplitIInv'
<1> SUFFICES ASSUME IsFiniteSet(Tests), SplitIInv, [Split!Next]_(Split!splitVars) PROVE SplitIInv'
    OBVIOUS
<1>1. (adjusted \in BOOLEAN /\ moved \in BOOLEAN)'
    BY SplitFlagsStep DEF SplitIInv
<1>2. SplitIsTyped /\ SplitHistory
    BY DEF SplitIInv
<1>3. SplitIsTyped' /\ SplitHistory'
    <2>1. Split!Worker \in Split!Processes /\ Requests \subseteq Split!Processes
        BY DEF Split!Processes
    <2> QED
        BY <1>2, <2>1, SplitOwnersStep, EvidenceStep, InstrumentStep, InsertStep, ButtonsStep, RestartStep, LedgerStep
        DEF Split!Next, Split!WorkerStep
<1> QED
    BY <1>1, <1>3 DEF SplitIInv

\* For every number of forward tests, owners and requests: the worker and the requests together change the ledger for
\* one ex-date at most once, and an instrument has at most one check that waits for an answer.
LEMMA SplitsAreAppliedOnce ==
    ASSUME IsFiniteSet(Tests) PROVE Spec => [](Split!SplitTypeOK /\ Split!SplitIsAppliedOnce)
<1>1. Init => SplitIInv
    <2> SUFFICES ASSUME Init PROVE SplitIInv
        OBVIOUS
    <2>1. adjusted \in BOOLEAN /\ moved \in BOOLEAN
        BY DEF Init, Split!Init
    <2>2. Cardinality(Split!Owners) \in Nat
        BY FS_Singleton, FS_Union, FS_CardinalityType DEF Split!Owners, Split!ByHand
    <2>3. account \in Nat
        BY <2>2 DEF Init, Split!Init, Split!Cardinality, Cardinality
    <2>4. \A p \in Split!Processes : JobIsTyped(split_job[p])
        BY IdleIsTyped DEF Init, Split!Init
    <2>5. checks = <<>> /\ checks \in Seq(SplitChecks) /\ Len(checks) = 0
        BY DEF Init, Split!Init
    <2>6. SplitHistory
        BY <2>5 DEF Init, Split!Init, SplitHistory
    <2> QED
        BY <2>1, <2>3, <2>4, <2>5, <2>6 DEF Init, Split!Init, SplitIInv, SplitIsTyped
<1>2. SplitIInv /\ [Next]_vars => SplitIInv'
    <2>1. [Next]_vars => Split!Next \/ UNCHANGED splits
        BY DEF Next, MarketStep, vars, market
    <2>2. UNCHANGED splits => UNCHANGED Split!splitVars
        BY DEF splits, Split!splitVars
    <2> QED
        BY <2>1, <2>2, SplitStep
<1>3. SplitIInv => Split!SplitTypeOK /\ Split!SplitIsAppliedOnce
    <2> SUFFICES ASSUME SplitIInv PROVE Split!SplitTypeOK /\ Split!SplitIsAppliedOnce
        OBVIOUS
    <2>1. SplitIsTyped /\ SplitHistory
        BY DEF SplitIInv
    <2>2. \A c \in DOMAIN checks : checks[c].status \in {"needed", "applied", "kept"} /\ checks[c].link \in 0 .. 2
        <3>1. \A check \in SplitChecks : check.status \in {"needed", "applied", "kept"} /\ check.link \in 0 .. 2
            BY DEF SplitChecks
        <3>2. \A c \in DOMAIN checks : checks[c] \in SplitChecks
            BY <2>1 DEF SplitIsTyped
        <3> QED
            BY <3>1, <3>2
    <2>3. \A p \in Split!Processes :
            split_job[p].at \in {"idle", "evidence", "instrument", "insert", "change", "commit", "keep"}
        BY <2>1 DEF SplitIsTyped, JobIsTyped
    <2>4. Split!SplitTypeOK
        <3>1. adjusted \in BOOLEAN /\ moved \in BOOLEAN
            BY DEF SplitIInv
        <3> QED
            BY <2>1, <2>2, <2>3, <3>1 DEF SplitIsTyped, Split!SplitTypeOK
    <2> DEFINE needed == {c \in DOMAIN checks : checks[c].status = "needed"}
    <2>5. \A c, d \in needed : c = d
        BY <2>1 DEF SplitIsTyped, SplitHistory
    <2> HIDE DEF needed
    <2>6. Cardinality(needed) <= 1
        <3>1. CASE needed = {}
            BY <3>1, FS_EmptySet
        <3>2. CASE needed # {}
            <4>1. PICK c \in needed : needed = {c}
                BY <2>5, <3>2
            <4>2. Cardinality({c}) = 1
                BY FS_Singleton
            <4> QED
                BY <4>1, <4>2
        <3> QED
            BY <3>1, <3>2
    <2>7. Split!Cardinality(needed) <= 1
        BY <2>6 DEF Cardinality, Split!Cardinality
    <2> QED
        BY <2>1, <2>4, <2>7 DEF SplitHistory, Split!SplitIsAppliedOnce, needed
<1> QED
    BY <1>1, <1>2, <1>3, PTL DEF Spec

-----------------------------------------------------------------------------
(* The members of the US universe of a quarter.                            *)

\* A window that the process paid is one of its downloads, and a try of the update runs only while the quarter has no
\* members.
UniverseHistory ==
    /\ quarter_state = "saved" => members # "none"
    /\ members # "none" => members \in windows /\ step = Universe!Idle
    /\ bills \in [Universe!Windows -> 0 .. 1]
    /\ \A w \in Universe!Windows : bills[w] = 1 => w \in downloaded
    /\ bills["previous"] + bills["earlier"] <= paid

\* The step of a try names its window.
StepHasWindow ==
    step = Universe!Idle \/ (step.at \in {"window", "download", "import", "save"} /\ step.window \in Universe!Windows)

\* The inductive invariant of the US universe.
UniverseIInv == Universe!UniverseTypeOK /\ StepHasWindow /\ UniverseHistory

\* Each step of the update and of the import program keeps the invariant.
LEMMA UniverseStep == UniverseIInv /\ [Universe!Next]_(Universe!universeVars) => UniverseIInv'
<1> SUFFICES ASSUME UniverseIInv, [Universe!Next]_(Universe!universeVars) PROVE UniverseIInv'
    OBVIOUS
<1>0. MaxPaidDownloads \in Nat
    BY MarketAssumption
<1> USE <1>0 DEF UniverseIInv, Universe!UniverseTypeOK, StepHasWindow, UniverseHistory, Universe!universeVars,
        Universe!memory, Universe!Windows, Universe!Idle, Universe!At
<1>1. CASE Universe!TimePasses \/ Universe!BarIsAvailable \/ UNCHANGED Universe!universeVars
    BY <1>1 DEF Universe!TimePasses, Universe!BarIsAvailable
<1>2. CASE Universe!StartUpdate \/ Universe!CheckWindow
    <2>1. StepHasWindow'
        BY <1>2 DEF Universe!StartUpdate, Universe!CheckWindow
    <2>2. UniverseHistory'
        BY <1>2 DEF Universe!StartUpdate, Universe!CheckWindow
    <2>3. now' \in {"before", "early", "late"}
        BY <1>2 DEF Universe!StartUpdate, Universe!CheckWindow
    <2>4. windows' \subseteq Universe!Windows
        BY <1>2 DEF Universe!StartUpdate, Universe!CheckWindow
    <2>5. paid' \in 0 .. MaxPaidDownloads
        BY <1>2 DEF Universe!StartUpdate, Universe!CheckWindow
    <2>6. members' \in Universe!Windows \cup {"none"} /\ quarter_state' \in {"none", "saved", "stopped"}
        BY <1>2 DEF Universe!StartUpdate, Universe!CheckWindow
    <2> QED
        BY <2>1, <2>2, <2>3, <2>4, <2>5, <2>6
<1>3. CASE Universe!UseDownload
    BY <1>3 DEF Universe!UseDownload
<1>4. CASE Universe!Download
    BY <1>4 DEF Universe!Download, Universe!CanBuy
<1>5. CASE Universe!Import \/ Universe!SaveUsUniverse
    <2>1. StepHasWindow'
        BY <1>5 DEF Universe!Import, Universe!SaveUsUniverse, Universe!With
    <2>2. UniverseHistory'
        BY <1>5 DEF Universe!Import, Universe!SaveUsUniverse, Universe!With
    <2>3. now' \in {"before", "early", "late"}
        BY <1>5 DEF Universe!Import, Universe!SaveUsUniverse, Universe!With
    <2>4. windows' \subseteq Universe!Windows
        <3>1. step.window \in Universe!Windows
            BY <1>5 DEF Universe!Import, Universe!SaveUsUniverse
        <3>2. Universe!With(step.window) \subseteq Universe!Windows
            BY <3>1 DEF Universe!With
        <3> HIDE DEF Universe!Windows
        <3> QED
            BY <1>5, <3>2 DEF Universe!Import, Universe!SaveUsUniverse
    <2>5. paid' \in 0 .. MaxPaidDownloads
        BY <1>5 DEF Universe!Import, Universe!SaveUsUniverse, Universe!With
    <2>6. members' \in Universe!Windows \cup {"none"} /\ quarter_state' \in {"none", "saved", "stopped"}
        BY <1>5 DEF Universe!Import, Universe!SaveUsUniverse, Universe!With
    <2> QED
        BY <2>1, <2>2, <2>3, <2>4, <2>5, <2>6
<1>6. ASSUME NEW has_data \in BOOLEAN, Universe!DownloadFails(has_data) PROVE UniverseIInv'
    BY <1>6 DEF Universe!DownloadFails, Universe!CanBuy, Universe!Fails
<1>7. CASE Universe!TryFails \/ Universe!Restart
    <2>1. StepHasWindow'
        BY <1>7 DEF Universe!TryFails, Universe!Restart, Universe!Fails
    <2>2. UniverseHistory'
        BY <1>7 DEF Universe!TryFails, Universe!Restart, Universe!Fails
    <2>3. now' \in {"before", "early", "late"}
        BY <1>7 DEF Universe!TryFails, Universe!Restart, Universe!Fails
    <2>4. windows' \subseteq Universe!Windows
        BY <1>7 DEF Universe!TryFails, Universe!Restart, Universe!Fails
    <2>5. paid' \in 0 .. MaxPaidDownloads
        BY <1>7 DEF Universe!TryFails, Universe!Restart, Universe!Fails
    <2>6. members' \in Universe!Windows \cup {"none"} /\ quarter_state' \in {"none", "saved", "stopped"}
        BY <1>7 DEF Universe!TryFails, Universe!Restart, Universe!Fails
    <2> QED
        BY <2>1, <2>2, <2>3, <2>4, <2>5, <2>6
<1>8. ASSUME NEW window \in Universe!Windows, Universe!ImportFiles(window) PROVE UniverseIInv'
    BY <1>8 DEF Universe!ImportFiles, Universe!With
<1>9. CASE Universe!CalculateUsUniverseHistory
    BY <1>9 DEF Universe!CalculateUsUniverseHistory
<1> QED
    BY <1>1, <1>2, <1>3, <1>4, <1>5, <1>6, <1>7, <1>8, <1>9 DEF Universe!Next, Universe!UpdateStep

\* The invariant of the US universe, in each behavior of the composition.
LEMMA UniverseInvariant == Spec => []UniverseIInv
<1>1. Init => UniverseIInv
    <2> SUFFICES ASSUME Init PROVE UniverseIInv
        OBVIOUS
    <2> USE DEF Init, Universe!Init, Universe!Windows
    <2>1. Universe!UniverseTypeOK
        BY MarketAssumption DEF Universe!UniverseTypeOK, Universe!Idle
    <2>2. StepHasWindow
        BY DEF StepHasWindow
    <2>3. UniverseHistory
        BY DEF UniverseHistory
    <2> QED
        BY <2>1, <2>2, <2>3 DEF UniverseIInv
<1>2. UniverseIInv /\ [Next]_vars => UniverseIInv'
    <2>1. [Next]_vars => Universe!Next \/ UNCHANGED quarters
        BY DEF Next, MarketStep, vars, market
    <2>2. UNCHANGED quarters => UNCHANGED Universe!universeVars
        BY DEF quarters, Universe!universeVars, Universe!memory
    <2> QED
        BY <2>1, <2>2, UniverseStep
<1> QED
    BY <1>1, <1>2, PTL DEF Spec

\* QuarterStays, the part of DataArrives that says what a step may never do: the saved members of a quarter do not
\* change any more, also when the update and the import program both save them.
THEOREM SavedQuarterStays == Spec => Universe!QuarterStays
<1>1. UniverseIInv /\ [Next]_vars => [members # "none" => members' = members]_(Universe!universeVars)
    <2> SUFFICES ASSUME UniverseIInv, [Next]_vars, members # "none" PROVE members' = members
        OBVIOUS
    <2>1. step = Universe!Idle
        BY DEF UniverseIInv, UniverseHistory
    <2>2. step.at # "save"
        BY <2>1 DEF Universe!Idle
    <2>3. Universe!Next \/ UNCHANGED quarters
        BY DEF Next, MarketStep, vars, market
    <2>4. CASE UNCHANGED quarters
        BY <2>4 DEF quarters
    <2>5. CASE Universe!Next
        BY <2>2, <2>5
        DEF Universe!Next, Universe!UpdateStep, Universe!TimePasses, Universe!BarIsAvailable, Universe!StartUpdate,
            Universe!CheckWindow, Universe!UseDownload, Universe!Download, Universe!Import, Universe!SaveUsUniverse,
            Universe!DownloadFails, Universe!TryFails, Universe!Restart, Universe!ImportFiles,
            Universe!CalculateUsUniverseHistory
    <2> QED
        BY <2>3, <2>4, <2>5
<1> QED
    BY <1>1, UniverseInvariant, PTL DEF Spec, Universe!QuarterStays

-----------------------------------------------------------------------------
(* The bars and the members of a forward test.                             *)

\* An update of the universe that waits for the strategy.
UniverseUpdates ==
    [kind : {"quarter", "first"}, members : SUBSET Data!Members, new : SUBSET Data!Members, day : Nat]

\* The days and quarters, the saved days of each member and the state of each subscription.
DataIsTyped ==
    /\ day \in 2 .. MaxDay /\ quarter \in 1 .. 2 /\ recorded \in 1 .. quarter /\ quarter_known \in 1 .. recorded
    /\ saved_days \in [Data!Members -> SUBSET (1 .. day - 1)]
    /\ next_bar \in [Data!Members -> 0 .. day] /\ from \in [Data!Members -> 0 .. day]
    /\ got \in [Data!Members -> Seq(Nat)]
    /\ child \in {"stopped", "starting", "running"}
    /\ waiting = Data!NoWait \/ waiting \subseteq Data!Members
    /\ updates \in Seq(UniverseUpdates)
    /\ failures \in 0 .. MaxFailures

\* The fetcher saves a member from the start of the warm-up on, so no day before a saved one is missing. A subscription
\* has given each bar from its first day to its next bar. A quarter that the child does not know yet brings at most one
\* update, and before the first update nothing waits.
DataHistory ==
    /\ \A m \in Data!Members : \A d \in saved_days[m] : \A e \in 1 .. d : e \in saved_days[m]
    /\ \A m \in Data!Members :
        IF next_bar[m] = 0
        THEN got[m] = <<>>
        ELSE next_bar[m] = from[m] + Len(got[m]) /\ got[m] = [i \in 1 .. Len(got[m]) |-> from[m] + i - 1]
    /\ Data!NewMembersAreWarm

UpdatesAreFew ==
    /\ Len(updates) <= 2
    /\ ~first_sent => updates = <<>> /\ waiting = Data!NoWait
    /\ quarter_known = 1 => waiting = Data!NoWait /\ Len(updates) <= 1
    /\ waiting # Data!NoWait => Len(updates) <= 1

\* The i-th of the days in a row.
LEMMA DaysInARow ==
    ASSUME NEW first \in Nat, NEW last \in Nat, first <= last
    PROVE  Data!InTimeOrder(first .. last) = [i \in 1 .. (last - first + 1) |-> first + i - 1]
<1> DEFINE days == first .. last
<1>1. \A n, m \in Nat : Data!Cardinality(n .. m) = IF n <= m THEN m - n + 1 ELSE 0
    <2>1. \A n, m \in Nat : Cardinality(n .. m) = IF n <= m THEN m - n + 1 ELSE 0
        BY FS_Interval
    <2> QED
        BY <2>1 DEF Data!Cardinality, Cardinality
<1>2. Data!Cardinality(days) = last - first + 1
    BY <1>1
<1>3. ASSUME NEW d \in days PROVE Data!Cardinality({e \in days : e < d}) = d - first
    <2> DEFINE earlier == {e \in days : e < d}
    <2>1. earlier = IF d = first THEN 1 .. 0 ELSE first .. (d - 1)
        OBVIOUS
    <2> HIDE DEF earlier
    <2>2. d \in Nat /\ first <= d /\ 0 \in Nat /\ 1 \in Nat /\ (d # first => d - 1 \in Nat /\ first <= d - 1)
        OBVIOUS
    <2>3. Data!Cardinality(earlier) = d - first
        BY <1>1, <2>1, <2>2
    <2> QED
        BY <2>3 DEF earlier
<1>4. ASSUME NEW i \in 1 .. (last - first + 1)
      PROVE  (CHOOSE d \in days : Data!Cardinality({e \in days : e < d}) = i - 1) = first + i - 1
    <2>1. first + i - 1 \in days /\ \A d \in days : d - first = i - 1 <=> d = first + i - 1
        OBVIOUS
    <2> HIDE DEF days
    <2>2. \A d \in days : Data!Cardinality({e \in days : e < d}) = i - 1 <=> d = first + i - 1
        BY <1>3, <2>1
    <2> QED
        BY <2>1, <2>2
<1> QED
    BY <1>2, <1>4 DEF Data!InTimeOrder

\* The new bars of a subscription are those of the days in a row from its next bar on.
LEMMA NewBarsHaveNoGap ==
    ASSUME DataIsTyped, DataHistory, NEW m \in Data!Members, next_bar[m] # 0
    PROVE  \E k \in Nat : Data!NewBars(m) = [i \in 1 .. k |-> next_bar[m] + i - 1] /\ next_bar[m] + k <= day
<1> DEFINE days == Data!NewDays(m)
<1>1. next_bar[m] \in 1 .. day /\ day \in Nat /\ saved_days[m] \subseteq 1 .. day - 1
    BY DEF DataIsTyped
<1>2. PICK next \in Nat : next = next_bar[m]
    BY <1>1
<1>3. days = {d \in saved_days[m] : d >= next}
    BY <1>2 DEF Data!NewDays
<1>4. CASE days = {}
    <2>1. Data!Cardinality({}) = 0
        BY FS_EmptySet DEF Data!Cardinality, Cardinality
    <2>2. Data!InTimeOrder({}) = [i \in 1 .. 0 |-> next + i - 1]
        BY <2>1 DEF Data!InTimeOrder
    <2>3. Data!NewBars(m) = [i \in 1 .. 0 |-> next + i - 1]
        BY <1>4, <2>2 DEF Data!NewBars
    <2>4. 0 \in Nat /\ next + 0 <= day
        BY <1>1, <1>2
    <2> HIDE DEF days
    <2> QED
        BY <1>2, <2>3, <2>4
<1>5. CASE days # {}
    <2> DEFINE rest == {day - d : d \in days}
    <2>1. rest \subseteq Nat /\ rest # {}
        BY <1>1, <1>3, <1>5
    <2>2. PICK n \in rest : \A k \in rest : n <= k
        BY <2>1, SmallestOf
    <2>3. PICK last \in days : n = day - last
        BY <2>2
    <2>4. \A d \in days : d <= last
        BY <1>1, <1>3, <2>2, <2>3
    <2>5. \A e \in 1 .. last : e \in saved_days[m]
        BY <1>3, <2>3 DEF DataHistory
    <2>6. last \in Nat /\ next <= last /\ last <= day - 1 /\ 1 <= next
        BY <1>1, <1>2, <1>3, <2>3
    <2>7. days = next .. last
        <3>1. \A d \in days : d \in next .. last
            BY <1>1, <1>2, <1>3, <2>4
        <3>2. \A d \in next .. last : d \in days
            BY <1>3, <2>5, <2>6
        <3> QED
            BY <3>1, <3>2
    <2>8. Data!NewBars(m) = [i \in 1 .. (last - next + 1) |-> next + i - 1]
        BY <2>6, <2>7, DaysInARow DEF Data!NewBars
    <2>9. last - next + 1 \in Nat /\ next + (last - next + 1) <= day
        BY <1>1, <2>6
    <2> QED
        BY <1>2, <2>8, <2>9
<1> QED
    BY <1>4, <1>5

\* A read of the fetcher saves all complete days of a member, or leaves its days.
LEMMA ReadKeepsDays ==
    ASSUME DataIsTyped, DataHistory, NEW ms \in SUBSET Data!Members, NEW no, saved_days' = Data!ReadBars(ms, no),
           day' = day
    PROVE  /\ saved_days' \in [Data!Members -> SUBSET (1 .. day - 1)]
           /\ \A m \in Data!Members : saved_days[m] \subseteq saved_days'[m]
           /\ \A m \in Data!Members : \A d \in saved_days'[m] : \A e \in 1 .. d : e \in saved_days'[m]
<1>1. saved_days' = [m \in Data!Members |-> IF m \in ms \ no THEN saved_days[m] \cup 1 .. day - 1 ELSE saved_days[m]]
    BY DEF Data!ReadBars, Data!Complete
<1>2. saved_days \in [Data!Members -> SUBSET (1 .. day - 1)] /\ day \in Nat
    BY DEF DataIsTyped
<1>3. saved_days' \in [Data!Members -> SUBSET (1 .. day - 1)]
    BY <1>1, <1>2
<1>4. \A m \in Data!Members : saved_days[m] \subseteq saved_days'[m]
    BY <1>1, <1>2
<1>5. ASSUME NEW m \in Data!Members, NEW d \in saved_days'[m], NEW e \in 1 .. d PROVE e \in saved_days'[m]
    <2>1. CASE saved_days'[m] = saved_days[m]
        BY <1>5, <2>1 DEF DataHistory
    <2>2. CASE saved_days'[m] # saved_days[m]
        <3>1. saved_days'[m] = 1 .. day - 1
            BY <1>1, <1>2, <2>2
        <3> QED
            BY <1>2, <3>1
    <2> QED
        BY <2>1, <2>2
<1> QED
    BY <1>3, <1>4, <1>5

\* What keeps the warm-up of the new members: updates that leave, more saved days, and more refused members.
LEMMA WarmUpIsKept ==
    ASSUME DataIsTyped, DataHistory, updates' = updates, refused \subseteq refused',
           \A m \in Data!Members : saved_days[m] \subseteq saved_days'[m]
    PROVE  Data!NewMembersAreWarm'
<1>1. \A i \in DOMAIN updates : updates[i].new \subseteq Data!Members
    <2>1. \A u \in UniverseUpdates : u.new \subseteq Data!Members
        BY DEF UniverseUpdates
    <2>2. \A i \in DOMAIN updates : updates[i] \in UniverseUpdates
        BY DEF DataIsTyped
    <2> QED
        BY <2>1, <2>2
<1> QED
    BY <1>1 DEF DataHistory, Data!NewMembersAreWarm

\* The bar fetcher.
LEMMA FetcherStep ==
    ASSUME DataIsTyped, DataHistory, UpdatesAreFew,
           Data!FillNewForwardTests \/ Data!FetchWhenDue \/ Data!LoseConnection
    PROVE  DataIsTyped' /\ DataHistory' /\ UpdatesAreFew'
<1> USE DEF Data!feed, Data!poller, Data!fetcher
<1>1. /\ UNCHANGED <<day, quarter, recorded, child, quarter_known, first_sent, waiting, updates, next_bar, from, got>>
      /\ refused \subseteq refused'
    BY DEF Data!FillNewForwardTests, Data!FetchWhenDue, Data!LoseConnection, Data!FillWarmUp
<1>2. Data!MembersOf(recorded) \subseteq Data!Members
    BY DEF Data!MembersOf, Data!Members
<1>3. \E ms \in SUBSET Data!Members : \E no : saved_days' = Data!ReadBars(ms, no)
    BY <1>2 DEF Data!FillNewForwardTests, Data!FetchWhenDue, Data!LoseConnection, Data!FillWarmUp, Data!Unfilled
<1>4. failures' \in 0 .. MaxFailures
    <2>1. failures' = failures \/ (failures < MaxFailures /\ failures' = failures + 1)
        BY DEF Data!FillNewForwardTests, Data!FetchWhenDue, Data!LoseConnection, Data!FillWarmUp, Data!MayFail
    <2>2. failures \in 0 .. MaxFailures
        BY DEF DataIsTyped
    <2>3. MaxFailures \in Nat
        BY MarketAssumption
    <2> QED
        BY <2>1, <2>2, <2>3
<1>5. /\ saved_days' \in [Data!Members -> SUBSET (1 .. day - 1)]
      /\ \A m \in Data!Members : saved_days[m] \subseteq saved_days'[m]
      /\ \A m \in Data!Members : \A d \in saved_days'[m] : \A e \in 1 .. d : e \in saved_days'[m]
    BY <1>1, <1>3, ReadKeepsDays
<1>6. DataIsTyped'
    BY <1>1, <1>4, <1>5 DEF DataIsTyped
<1>7. DataHistory'
    <2>1. Data!NewMembersAreWarm'
        BY <1>1, <1>5, WarmUpIsKept
    <2> QED
        BY <1>1, <1>5, <2>1 DEF DataHistory
<1> QED
    BY <1>1, <1>6, <1>7 DEF UpdatesAreFew

\* A failure is counted, up to its bound.
LEMMA FailuresAreCounted ==
    ASSUME failures \in 0 .. MaxFailures, failures' = failures \/ (failures < MaxFailures /\ failures' = failures + 1)
    PROVE  failures' \in 0 .. MaxFailures
BY MarketAssumption

\* The clock and the quarterly update.
LEMMA ClockStep ==
    ASSUME DataIsTyped, DataHistory, UpdatesAreFew, Data!NextDay \/ Data!StoreQuarter \/ UNCHANGED data
    PROVE  DataIsTyped' /\ DataHistory' /\ UpdatesAreFew'
<1> USE DEF Data!feed, Data!poller, Data!fetcher, data
<1>1. UNCHANGED <<recorded, child, quarter_known, first_sent, waiting, updates, next_bar, from, got, saved_days,
                  refused, failures>>
    BY DEF Data!NextDay, Data!StoreQuarter
<1>2. day' \in 2 .. MaxDay /\ day <= day' /\ quarter' \in 1 .. 2 /\ quarter <= quarter'
    <2>1. day' = day \/ (day < MaxDay /\ day' = day + 1)
        BY DEF Data!NextDay, Data!StoreQuarter
    <2>2. quarter' = quarter \/ quarter' = 2
        BY DEF Data!NextDay, Data!StoreQuarter
    <2>3. day \in 2 .. MaxDay /\ quarter \in 1 .. 2 /\ MaxDay \in Nat
        BY MarketAssumption DEF DataIsTyped
    <2> QED
        BY <2>1, <2>2, <2>3
<1>3. DataIsTyped'
    <2>1. saved_days' \in [Data!Members -> SUBSET (1 .. day' - 1)]
        BY <1>1, <1>2 DEF DataIsTyped
    <2>2. next_bar' \in [Data!Members -> 0 .. day'] /\ from' \in [Data!Members -> 0 .. day']
        BY <1>1, <1>2 DEF DataIsTyped
    <2>3. recorded' \in 1 .. quarter' /\ quarter_known' \in 1 .. recorded'
        BY <1>1, <1>2 DEF DataIsTyped
    <2> QED
        BY <1>1, <1>2, <2>1, <2>2, <2>3 DEF DataIsTyped
<1>4. DataHistory'
    <2>1. Data!NewMembersAreWarm'
        BY <1>1, WarmUpIsKept
    <2> QED
        BY <1>1, <2>1 DEF DataHistory
<1> QED
    BY <1>1, <1>3, <1>4 DEF UpdatesAreFew

\* A child starts, runs and stops: a new one has no subscription and no update.
LEMMA ChildStep ==
    ASSUME DataIsTyped, DataHistory, UpdatesAreFew, Data!StartChild \/ Data!StrategyRuns \/ Data!StopChild
    PROVE  DataIsTyped' /\ DataHistory' /\ UpdatesAreFew'
<1> USE DEF Data!feed, Data!poller, Data!fetcher
<1>1. CASE Data!StrategyRuns
    <2>1. DataIsTyped'
        BY <1>1 DEF Data!StrategyRuns, DataIsTyped
    <2>2. DataHistory'
        <3>1. Data!NewMembersAreWarm'
            BY <1>1, WarmUpIsKept DEF Data!StrategyRuns
        <3> QED
            BY <1>1, <3>1 DEF Data!StrategyRuns, DataHistory
    <2> QED
        BY <1>1, <2>1, <2>2 DEF Data!StrategyRuns, UpdatesAreFew
<1>2. CASE Data!StartChild \/ Data!StopChild
    <2>1. UNCHANGED <<day, quarter, saved_days>>
        BY <1>2 DEF Data!StartChild, Data!StopChild, Data!EndChild
    <2>2. child' \in {"stopped", "starting", "running"} /\ recorded' \in 1 .. quarter
        BY <1>2 DEF Data!StartChild, Data!StopChild, Data!EndChild, DataIsTyped
    <2>3. quarter_known' \in 1 .. recorded'
        BY <1>2 DEF Data!StartChild, Data!StopChild, Data!EndChild, DataIsTyped
    <2>4. waiting' = Data!NoWait /\ updates' = <<>> /\ next_bar' = [m \in Data!Members |-> 0]
          /\ from' = [m \in Data!Members |-> 0] /\ got' = [m \in Data!Members |-> <<>>]
        BY <1>2 DEF Data!StartChild, Data!StopChild, Data!EndChild, Data!NoFeed, Data!Never
    <2>5. failures' \in 0 .. MaxFailures
        <3>1. failures' = failures \/ (failures < MaxFailures /\ failures' = failures + 1)
            BY <1>2 DEF Data!StartChild, Data!StopChild, Data!MayFail
        <3> QED
            BY <3>1, FailuresAreCounted DEF DataIsTyped
    <2>6. DataIsTyped'
        BY <2>1, <2>2, <2>3, <2>4, <2>5 DEF DataIsTyped
    <2>7. DataHistory'
        BY <2>1, <2>4 DEF DataHistory, Data!NewMembersAreWarm
    <2>8. UpdatesAreFew'
        BY <2>4 DEF UpdatesAreFew
    <2> QED
        BY <2>6, <2>7, <2>8
<1> QED
    BY <1>1, <1>2

\* Two sequences of days in a row, one after the other.
LEMMA RowsInARow ==
    ASSUME NEW s \in Seq(Nat), NEW b \in Seq(Nat), NEW first \in Nat,
           \A i \in 1 .. Len(s) : s[i] = first + i - 1,
           \A i \in 1 .. Len(b) : b[i] = first + Len(s) + i - 1
    PROVE  s \o b = [i \in 1 .. Len(s) + Len(b) |-> first + i - 1]
<1>1. s \o b \in Seq(Nat) /\ Len(s \o b) = Len(s) + Len(b)
    OBVIOUS
<1>2. ASSUME NEW i \in 1 .. Len(s) + Len(b) PROVE (s \o b)[i] = first + i - 1
    <2>1. CASE i <= Len(s)
        BY <2>1
    <2>2. CASE i > Len(s)
        <3>1. (s \o b)[i] = b[i - Len(s)] /\ i - Len(s) \in 1 .. Len(b)
            BY <2>2
        <3>2. b[i - Len(s)] = first + Len(s) + (i - Len(s)) - 1
            BY <3>1
        <3> QED
            BY <3>1, <3>2
    <2> QED
        BY <2>1, <2>2
<1>3. PICK c \in Seq(Nat) : c = s \o b
    BY <1>1
<1>4. c = [i \in 1 .. Len(s) + Len(b) |-> c[i]]
    <2>1. PICK n \in Nat : n = Len(s) + Len(b)
        OBVIOUS
    <2>2. Len(c) = n
        BY <1>1, <1>3, <2>1
    <2>3. c = [i \in 1 .. n |-> c[i]]
        BY <2>2
    <2> QED
        BY <2>1, <2>3
<1>5. \A i \in 1 .. Len(s) + Len(b) : c[i] = first + i - 1
    BY <1>2, <1>3
<1> QED
    BY <1>3, <1>4, <1>5

\* The bars of one poll follow the ones before without a gap.
LEMMA BarsStep ==
    ASSUME DataIsTyped, DataHistory, UpdatesAreFew, NEW m \in Data!Members, Data!SendNewBars(m)
    PROVE  DataIsTyped' /\ DataHistory' /\ UpdatesAreFew'
<1> USE DEF Data!feed, Data!poller, Data!fetcher
<1>1. UNCHANGED <<day, quarter, recorded, saved_days, refused, child, quarter_known, first_sent, waiting, updates, from,
                  failures>>
      /\ next_bar[m] # 0
    BY DEF Data!SendNewBars, Data!Never
<1>2. PICK k \in Nat : Data!NewBars(m) = [i \in 1 .. k |-> next_bar[m] + i - 1] /\ next_bar[m] + k <= day
    BY <1>1, NewBarsHaveNoGap
<1> DEFINE new_bars == [i \in 1 .. k |-> next_bar[m] + i - 1]
<1>3. got' = [got EXCEPT ![m] = @ \o new_bars] /\ next_bar' = [next_bar EXCEPT ![m] = Data!NextBar(m, new_bars)]
    BY <1>2 DEF Data!SendNewBars
<1>4. next_bar[m] \in Nat /\ day \in Nat /\ got[m] \in Seq(Nat) /\ from[m] \in Nat
      /\ next_bar[m] = from[m] + Len(got[m])
      /\ got[m] = [i \in 1 .. Len(got[m]) |-> from[m] + i - 1]
    BY <1>1 DEF DataIsTyped, DataHistory
<1>5. new_bars \in Seq(Nat) /\ Len(new_bars) = k /\ \A i \in 1 .. k : new_bars[i] = next_bar[m] + i - 1
    BY <1>1, <1>4
<1>6. Data!NextBar(m, new_bars) = next_bar[m] + k
    <2> HIDE DEF new_bars
    <2>1. CASE k = 0
        BY <1>4, <1>5, <2>1 DEF Data!NextBar
    <2>2. CASE k # 0
        <3>1. new_bars # <<>> /\ k \in 1 .. k
            BY <1>5, <2>2
        <3> QED
            BY <1>4, <1>5, <3>1 DEF Data!NextBar
    <2> QED
        BY <2>1, <2>2
<1> HIDE DEF new_bars
<1>7. PICK n \in Nat : n = Len(got[m])
    BY <1>4
<1>8. got[m] \o new_bars = [i \in 1 .. n + k |-> from[m] + i - 1]
    <2>1. PICK s \in Seq(Nat), first \in Nat :
            s = got[m] /\ first = from[m] /\ Len(s) = n /\ \A i \in 1 .. n : s[i] = first + i - 1
        BY <1>4, <1>7
    <2>2. \A i \in 1 .. Len(new_bars) : new_bars[i] = first + Len(s) + i - 1
        BY <1>4, <1>5, <1>7, <2>1
    <2>3. s \o new_bars = [i \in 1 .. Len(s) + Len(new_bars) |-> first + i - 1]
        BY <1>5, <2>1, <2>2, RowsInARow
    <2> QED
        BY <1>5, <2>1, <2>3
<1>9. got' = [got EXCEPT ![m] = [i \in 1 .. n + k |-> from[m] + i - 1]]
      /\ next_bar' = [next_bar EXCEPT ![m] = from[m] + (n + k)]
    <2>1. from[m] + (n + k) = next_bar[m] + k
        BY <1>4, <1>7
    <2>2. got' = [got EXCEPT ![m] = got[m] \o new_bars]
        BY <1>3
    <2> QED
        BY <1>3, <1>6, <1>8, <2>1, <2>2
<1>10. n + k \in Nat /\ next_bar[m] + k \in 0 .. day /\ next_bar[m] + k = from[m] + (n + k) /\ from[m] + (n + k) # 0
    BY <1>1, <1>2, <1>4, <1>7
<1> DEFINE all == [i \in 1 .. n + k |-> from[m] + i - 1]
<1>11. all \in Seq(Nat) /\ Len(all) = n + k
    <2>1. \A i \in 1 .. n + k : from[m] + i - 1 \in Nat
        BY <1>4, <1>10
    <2> QED
        BY <1>10, <2>1
<1>12. got' \in [Data!Members -> Seq(Nat)] /\ next_bar' \in [Data!Members -> 0 .. day]
    <2> HIDE DEF all
    <2> QED
        BY <1>9, <1>10, <1>11 DEF DataIsTyped, all
<1>13. DataIsTyped'
    BY <1>1, <1>12 DEF DataIsTyped
<1>14. ASSUME NEW o \in Data!Members
       PROVE  IF next_bar'[o] = 0
              THEN got'[o] = <<>>
              ELSE next_bar'[o] = from[o] + Len(got'[o]) /\ got'[o] = [i \in 1 .. Len(got'[o]) |-> from[o] + i - 1]
    <2>1. CASE o = m
        <3>1. got'[m] = all /\ next_bar'[m] = from[m] + (n + k)
            BY <1>9 DEF DataIsTyped
        <3> QED
            BY <1>10, <1>11, <2>1, <3>1
    <2>2. CASE o # m
        BY <1>9, <2>2 DEF DataIsTyped, DataHistory
    <2> QED
        BY <2>1, <2>2
<1>15. DataHistory'
    <2>1. Data!NewMembersAreWarm'
        BY <1>1, WarmUpIsKept
    <2> QED
        BY <1>1, <1>14, <2>1 DEF DataHistory
<1> QED
    BY <1>1, <1>13, <1>15 DEF UpdatesAreFew

\* The strategy takes an update: a new subscription begins today, and a member that left has none.
LEMMA TakeStep ==
    ASSUME DataIsTyped, DataHistory, UpdatesAreFew, Data!TakeUpdate
    PROVE  DataIsTyped' /\ DataHistory' /\ UpdatesAreFew'
<1> USE DEF Data!feed, Data!poller, Data!fetcher, Data!Never
<1>1. UNCHANGED <<day, quarter, recorded, saved_days, refused, child, quarter_known, first_sent, waiting, failures>>
    BY DEF Data!TakeUpdate
<1> DEFINE taken == Head(updates).members
           new(m) == m \in taken /\ next_bar[m] = 0
<1>2. /\ next_bar' = [m \in Data!Members |-> IF new(m) THEN day ELSE IF m \in taken THEN next_bar[m] ELSE 0]
      /\ from' = [m \in Data!Members |-> IF new(m) THEN day ELSE IF m \in taken THEN from[m] ELSE 0]
      /\ got' = [m \in Data!Members |-> IF m \in taken THEN got[m] ELSE <<>>]
    BY DEF Data!TakeUpdate
<1> HIDE DEF taken
<1>3. updates # <<>> /\ updates' = Tail(updates) /\ updates \in Seq(UniverseUpdates)
    BY DEF Data!TakeUpdate, DataIsTyped
<1>4. /\ updates' \in Seq(UniverseUpdates) /\ Len(updates') = Len(updates) - 1 /\ Len(updates) \in Nat
      /\ \A i \in 1 .. Len(updates') : updates'[i] = updates[i + 1] /\ i + 1 \in 1 .. Len(updates)
    BY <1>3
<1>5. day \in Nat /\ day # 0 /\ day \in 0 .. day
    BY DEF DataIsTyped
<1>6. next_bar' \in [Data!Members -> 0 .. day] /\ from' \in [Data!Members -> 0 .. day]
      /\ got' \in [Data!Members -> Seq(Nat)]
    BY <1>2, <1>5 DEF DataIsTyped
<1>7. DataIsTyped'
    BY <1>1, <1>4, <1>6 DEF DataIsTyped
<1>8. ASSUME NEW m \in Data!Members
      PROVE  IF next_bar'[m] = 0
             THEN got'[m] = <<>>
             ELSE next_bar'[m] = from'[m] + Len(got'[m]) /\ got'[m] = [i \in 1 .. Len(got'[m]) |-> from'[m] + i - 1]
    <2>1. CASE new(m)
        <3>1. next_bar'[m] = day /\ from'[m] = day /\ got'[m] = <<>>
            BY <1>2, <2>1 DEF DataHistory
        <3>2. Len(<<>>) = 0 /\ <<>> = [i \in 1 .. 0 |-> day + i - 1]
            OBVIOUS
        <3> QED
            BY <1>5, <3>1, <3>2
    <2>2. CASE ~new(m)
        BY <1>2, <2>2 DEF DataHistory
    <2> QED
        BY <2>1, <2>2
<1>9. Data!NewMembersAreWarm'
    <2> SUFFICES ASSUME NEW i \in DOMAIN updates', updates'[i].kind = "quarter", NEW m \in updates'[i].new \ refused'
                 PROVE  1 .. updates'[i].day - 1 \subseteq saved_days'[m]
        BY DEF Data!NewMembersAreWarm
    <2>1. PICK u : u = updates'[i] /\ u = updates[i + 1] /\ i + 1 \in DOMAIN updates
        BY <1>3, <1>4
    <2> QED
        BY <1>1, <2>1 DEF DataHistory, Data!NewMembersAreWarm
<1>10. DataHistory'
    BY <1>1, <1>8, <1>9 DEF DataHistory
<1>11. UpdatesAreFew'
    BY <1>1, <1>3, <1>4 DEF UpdatesAreFew
<1> QED
    BY <1>7, <1>10, <1>11

\* An update that a poll sends, or not.
LEMMA OptionalUpdate ==
    ASSUME NEW is_sent, NEW update, is_sent => update \in UniverseUpdates
    PROVE  \E a \in Seq(UniverseUpdates) :
            /\ a = IF is_sent THEN <<update>> ELSE <<>>
            /\ is_sent => Len(a) = 1
            /\ ~is_sent => Len(a) = 0
            /\ \A j \in 1 .. Len(a) : is_sent /\ a[j] = update
<1>1. CASE is_sent
    <2>1. <<update>> \in Seq(UniverseUpdates) /\ Len(<<update>>) = 1 /\ <<update>>[1] = update
        BY <1>1
    <2> WITNESS <<update>> \in Seq(UniverseUpdates)
    <2> QED
        BY <1>1, <2>1
<1>2. CASE ~is_sent
    <2>1. <<>> \in Seq(UniverseUpdates) /\ Len(<<>>) = 0
        OBVIOUS
    <2> WITNESS <<>> \in Seq(UniverseUpdates)
    <2> QED
        BY <1>2, <2>1
<1> QED
    BY <1>1, <1>2

\* A poll sends the members of a quarter only when their warm-up is saved, or after the wait for it.
LEMMA PollStep ==
    ASSUME DataIsTyped, DataHistory, UpdatesAreFew, Data!PollUniverse
    PROVE  DataIsTyped' /\ DataHistory' /\ UpdatesAreFew'
<1> USE DEF Data!feed, Data!poller, Data!fetcher
<1>1. UNCHANGED <<day, quarter, saved_days, child, next_bar, from, got, failures>>
      /\ recorded' = quarter /\ quarter_known' = quarter
    BY DEF Data!PollUniverse
<1> DEFINE is_waiting == Data!Waiting # Data!NoWait
           first == ~first_sent /\ child = "running"
<1>2. PICK late_now \in BOOLEAN :
        LET sends == is_waiting /\ (late_now \/ Data!WarmUpIsSaved(Data!Waiting))
        IN  /\ late_now => is_waiting /\ ~Data!WarmUpIsSaved(Data!Waiting)
            /\ refused' = IF late_now THEN refused \cup Data!Waiting ELSE refused
            /\ waiting' = IF sends THEN Data!NoWait ELSE Data!Waiting
            /\ first_sent' = (first_sent \/ first)
            /\ updates' = updates \o (IF sends THEN <<Data!Update("quarter", Data!Waiting)>> ELSE <<>>)
                                  \o (IF first THEN <<Data!Update("first", Data!MembersOf(quarter))>> ELSE <<>>)
    BY DEF Data!PollUniverse
<1> DEFINE sends == is_waiting /\ (late_now \/ Data!WarmUpIsSaved(Data!Waiting))
           members_update == Data!Update("quarter", Data!Waiting)
           first_update == Data!Update("first", Data!MembersOf(quarter))
<1>3. /\ Data!MembersOf(quarter) \subseteq Data!Members
      /\ Data!Waiting = Data!NoWait \/ Data!Waiting \subseteq Data!Members
    BY DEF Data!MembersOf, Data!Members, Data!Waiting, Data!NewMembers, DataIsTyped
<1>4. first_update \in UniverseUpdates
    BY <1>3 DEF Data!Update, UniverseUpdates, DataIsTyped
<1>5. sends => members_update \in UniverseUpdates
    BY <1>3 DEF Data!Update, UniverseUpdates, DataIsTyped
<1>6. members_update.new = Data!Waiting /\ members_update.day = day /\ first_update.kind = "first"
    BY DEF Data!Update
<1>7. PICK kept_now \in Seq(UniverseUpdates) : kept_now = updates
    BY DEF DataIsTyped
<1> HIDE DEF members_update, first_update, first, is_waiting, sends
<1>8. updates' = kept_now \o (IF sends THEN <<members_update>> ELSE <<>>) \o (IF first THEN <<first_update>> ELSE <<>>)
    BY <1>2, <1>7 DEF sends, members_update, first_update
<1>9. PICK a \in Seq(UniverseUpdates) :
        /\ a = IF sends THEN <<members_update>> ELSE <<>>
        /\ (sends => Len(a) = 1) /\ (~sends => Len(a) = 0)
        /\ \A j \in 1 .. Len(a) : sends /\ a[j] = members_update
    BY <1>5, OptionalUpdate
<1>10. PICK b \in Seq(UniverseUpdates) :
        /\ b = IF first THEN <<first_update>> ELSE <<>>
        /\ (first => Len(b) = 1) /\ (~first => Len(b) = 0)
        /\ \A j \in 1 .. Len(b) : first /\ b[j] = first_update
    BY <1>4, OptionalUpdate
<1>11. updates' = kept_now \o a \o b
    BY <1>8, <1>9, <1>10
<1>12. /\ updates' \in Seq(UniverseUpdates)
       /\ Len(updates') = Len(updates) + Len(a) + Len(b)
       /\ \A i \in 1 .. Len(updates') :
            \/ i \in 1 .. Len(updates) /\ updates'[i] = updates[i]
            \/ \E j \in 1 .. Len(a) : updates'[i] = a[j]
            \/ \E j \in 1 .. Len(b) : updates'[i] = b[j]
    BY <1>7, <1>11
<1>13. /\ (sends => Len(a) = 1) /\ (~sends => Len(a) = 0) /\ (\A j \in 1 .. Len(a) : sends /\ a[j] = members_update)
       /\ (first => Len(b) = 1) /\ (~first => Len(b) = 0) /\ (\A j \in 1 .. Len(b) : b[j] = first_update)
    BY <1>9, <1>10
<1>14. waiting' = (IF sends THEN Data!NoWait ELSE Data!Waiting) /\ refused \subseteq refused'
    BY <1>2 DEF sends
<1>15. DataIsTyped'
    <2>1. waiting' = Data!NoWait \/ waiting' \subseteq Data!Members
        BY <1>3, <1>14
    <2>2. recorded' \in 1 .. quarter /\ quarter_known' \in 1 .. recorded'
        BY <1>1 DEF DataIsTyped
    <2> QED
        BY <1>1, <1>12, <2>1, <2>2 DEF DataIsTyped
<1>16. Data!NewMembersAreWarm'
    <2> SUFFICES ASSUME NEW i \in DOMAIN updates', updates'[i].kind = "quarter", NEW m \in updates'[i].new \ refused'
                 PROVE  1 .. updates'[i].day - 1 \subseteq saved_days'[m]
        BY DEF Data!NewMembersAreWarm
    <2>1. i \in 1 .. Len(updates')
        BY <1>12
    <2>2. CASE i \in 1 .. Len(updates) /\ updates'[i] = updates[i]
        <3>1. PICK u : u = updates'[i] /\ u = updates[i] /\ i \in DOMAIN updates
            BY <1>7, <2>2
        <3> QED
            BY <1>1, <1>14, <3>1 DEF DataHistory, Data!NewMembersAreWarm
    <2>3. CASE sends /\ updates'[i] = members_update
        <3>1. m \in Data!Waiting /\ updates'[i].day = day
            BY <1>6, <2>3
        <3>2. ~late_now
            BY <1>2, <3>1
        <3>3. Data!WarmUpIsSaved(Data!Waiting)
            BY <2>3, <3>2 DEF sends
        <3> QED
            BY <1>1, <3>1, <3>3 DEF Data!WarmUpIsSaved, Data!Complete
    <2>4. CASE updates'[i] = first_update
        BY <1>6, <2>4
    <2> QED
        BY <1>12, <1>13, <2>1, <2>2, <2>3, <2>4
<1>17. DataHistory'
    BY <1>1, <1>16 DEF DataHistory
<1>18. UpdatesAreFew'
    <2>1. Len(updates) \in Nat /\ (updates = <<>> => Len(updates) = 0) /\ (Len(updates') = 0 => updates' = <<>>)
        BY <1>7, <1>12
    <2>2. (sends => is_waiting) /\ (is_waiting <=> Data!Waiting # Data!NoWait)
        BY DEF sends, is_waiting
    <2>3. quarter_known \in {1, 2} /\ quarter \in {1, 2} /\ quarter_known <= quarter
        BY DEF DataIsTyped
    <2>4. Data!Waiting = IF quarter_known # quarter /\ first_sent THEN Data!NewMembers ELSE waiting
        BY DEF Data!Waiting, Data!StartsWait
    <2>5. (first_sent' <=> first_sent \/ first) /\ (first => ~first_sent)
        BY <1>2 DEF first
    <2>6. is_waiting => first_sent /\ quarter_known' = 2 /\ Len(updates) <= 1
        BY <1>1, <2>2, <2>3, <2>4 DEF UpdatesAreFew
    <2>7. Len(updates) <= 2 /\ (~first_sent => Len(updates) = 0) /\ (quarter_known = 1 => Len(updates) <= 1)
        BY <2>1 DEF UpdatesAreFew
    <2>8. quarter_known' = 1 => quarter_known = 1
        BY <1>1, <2>3
    <2>9. ~is_waiting => waiting' = Data!NoWait
        BY <1>14, <2>2
    <2>10. CASE first
        <3>1. ~first_sent /\ first_sent' /\ ~is_waiting /\ ~sends
            BY <2>2, <2>5, <2>6, <2>10
        <3>2. Len(updates') = 1
            BY <1>12, <1>13, <2>7, <2>10, <3>1
        <3> QED
            BY <2>9, <3>1, <3>2 DEF UpdatesAreFew, Data!NoWait
    <2>11. CASE ~first /\ sends
        <3>1. first_sent /\ first_sent' /\ is_waiting /\ quarter_known' # 1 /\ waiting' = Data!NoWait
            BY <1>14, <2>2, <2>5, <2>6, <2>11
        <3>2. Len(a) = 1 /\ Len(b) = 0 /\ Len(updates) <= 1
            BY <1>13, <2>6, <2>11, <3>1
        <3>3. Len(updates') <= 2
            BY <1>12, <2>1, <3>2
        <3> QED
            BY <3>1, <3>3 DEF UpdatesAreFew, Data!NoWait
    <2>12. CASE ~first /\ ~sends
        <3>1. Len(updates') = Len(updates) /\ (first_sent' <=> first_sent)
            BY <1>12, <1>13, <2>1, <2>5, <2>12
        <3>2. Len(updates') <= 2 /\ (~first_sent' => updates' = <<>> /\ waiting' = Data!NoWait)
            BY <2>1, <2>6, <2>7, <2>9, <3>1
        <3>3. quarter_known' = 1 => waiting' = Data!NoWait /\ Len(updates') <= 1
            BY <2>6, <2>7, <2>8, <2>9, <3>1
        <3>4. waiting' # Data!NoWait => Len(updates') <= 1
            BY <2>6, <2>9, <3>1
        <3> QED
            BY <3>2, <3>3, <3>4 DEF UpdatesAreFew, Data!NoWait
    <2> QED
        BY <2>10, <2>11, <2>12
<1> QED
    BY <1>15, <1>17, <1>18

\* The inductive invariant of the data of a forward test.
DataIInv == DataIsTyped /\ DataHistory /\ UpdatesAreFew

\* Each step of the fetcher, the poller and the child keeps the invariant.
LEMMA DataStep == DataIInv /\ (Data!Next \/ UNCHANGED data) => DataIInv'
<1> SUFFICES ASSUME DataIInv, Data!Next \/ UNCHANGED data PROVE DataIInv'
    OBVIOUS
<1>1. DataIsTyped /\ DataHistory /\ UpdatesAreFew
    BY DEF DataIInv
<1>2. DataIsTyped' /\ DataHistory' /\ UpdatesAreFew'
    BY <1>1, FetcherStep, ClockStep, ChildStep, PollStep, TakeStep, BarsStep DEF Data!Next
<1> QED
    BY <1>2 DEF DataIInv

\* DataInv for every set of members and number of days and failures: the bars of a subscription have no gap, a new
\* member comes with its warm-up, no window is paid twice, and the saved members of a quarter have their window.
THEOREM DataIsConsistent == Spec => []DataInv
<1>1. Init => DataIInv
    <2> SUFFICES ASSUME Init PROVE DataIInv
        OBVIOUS
    <2> USE DEF Init, Data!Init, Data!Never
    <2>1. day = 2 /\ 2 \in 2 .. MaxDay /\ 0 \in 0 .. MaxFailures
        BY MarketAssumption
    <2>2. DataIsTyped
        BY <2>1 DEF DataIsTyped
    <2>3. DataHistory
        BY DEF DataHistory, Data!NewMembersAreWarm
    <2>4. UpdatesAreFew
        BY DEF UpdatesAreFew
    <2> QED
        BY <2>2, <2>3, <2>4 DEF DataIInv
<1>2. DataIInv /\ [Next]_vars => DataIInv'
    <2>1. [Next]_vars => Data!Next \/ UNCHANGED data
        BY DEF Next, MarketStep, vars, market
    <2> QED
        BY <2>1, DataStep
<1>3. DataIInv => Data!DataTypeOK /\ Data!BarsHaveNoGap /\ Data!NewMembersAreWarm
    <2> SUFFICES ASSUME DataIInv PROVE Data!DataTypeOK /\ Data!BarsHaveNoGap /\ Data!NewMembersAreWarm
        OBVIOUS
    <2>1. DataIsTyped /\ DataHistory /\ UpdatesAreFew
        BY DEF DataIInv
    <2>2. Data!DataTypeOK
        BY <2>1 DEF DataIsTyped, UpdatesAreFew, Data!DataTypeOK, Data!Complete, Data!Never
    <2>3. ASSUME NEW m \in Data!Members PROVE got[m] = [i \in 1 .. Len(got[m]) |-> from[m] + i - 1]
        <3>1. CASE next_bar[m] = 0
            <4>1. got[m] = <<>>
                BY <2>1, <3>1 DEF DataHistory
            <4>2. Len(<<>>) = 0 /\ <<>> = [i \in 1 .. 0 |-> from[m] + i - 1]
                OBVIOUS
            <4> QED
                BY <4>1, <4>2
        <3>2. CASE next_bar[m] # 0
            BY <2>1, <3>2 DEF DataHistory
        <3> QED
            BY <3>1, <3>2
    <2> QED
        BY <2>1, <2>2, <2>3 DEF DataHistory, Data!BarsHaveNoGap
<1>4. DataIInv /\ UniverseIInv => DataInv
    <2>1. UniverseIInv => Universe!UniverseTypeOK /\ Universe!NoWindowIsPaidTwice /\ Universe!MembersHaveWindow
        <3> SUFFICES ASSUME UniverseIInv
                     PROVE Universe!UniverseTypeOK /\ Universe!NoWindowIsPaidTwice /\ Universe!MembersHaveWindow
            OBVIOUS
        <3>1. Universe!UniverseTypeOK
            BY DEF UniverseIInv
        <3>2. Universe!NoWindowIsPaidTwice
            BY DEF UniverseIInv, UniverseHistory, Universe!NoWindowIsPaidTwice
        <3>3. Universe!MembersHaveWindow
            BY DEF UniverseIInv, UniverseHistory, Universe!MembersHaveWindow
        <3> QED
            BY <3>1, <3>2, <3>3
    <2> QED
        BY <1>3, <2>1 DEF DataInv
<1> QED
    BY <1>1, <1>2, <1>4, UniverseInvariant, PTL DEF Spec

-----------------------------------------------------------------------------
(* The live daily bars.                                                    *)

LiveBars == {Live!NoBar, "bar 1", "bar 2"}
StreamsOf(table) ==
    /\ DOMAIN table \subseteq FirstMembers /\ table = [i \in DOMAIN table |-> table[i]]
    /\ \A i \in DOMAIN table : table[i] \in [listeners : SUBSET Live!Open, bar : LiveBars, timer : BOOLEAN]
    /\ Cardinality(DOMAIN table) <= MaxStreams
    /\ \A i \in DOMAIN table : table[i].timer <=> table[i].listeners = {}
LiveIsTyped ==
    /\ watchlist \in Live!Lists /\ changes \in 0 .. MaxChanges /\ notified \subseteq Pages
    /\ Live!Open \subseteq Pages
    /\ listeners = [p \in Live!Open |-> listeners[p]]
    /\ \A p \in Live!Open : listeners[p] \in [instruments : SUBSET FirstMembers, changed : SUBSET FirstMembers]
    /\ shown \in [Pages -> [FirstMembers -> LiveBars]]
\* The listeners of a table of streams are the pages that follow it.
IsFollowedBy(table, q, is) == \A i \in FirstMembers : i \in is <=> i \in DOMAIN table /\ q \in table[i].listeners
LiveIInv ==
    /\ LiveIsTyped /\ StreamsOf(streams)
    /\ \A p \in Live!Open : IsFollowedBy(streams, p, listeners[p].instruments)
    /\ Live!NoChangeIsMissed

\* A table of streams while page p follows other instruments: the streams of the other pages and of the instruments
\* that p keeps have their bars.
TableKeepsBars(table, p, is) ==
    \A i \in FirstMembers :
        i \in is \/ (\E q \in Live!Open \ {p} : i \in listeners[q].instruments) =>
            i \in DOMAIN streams /\ i \in DOMAIN table /\ table[i].bar = streams[i].bar
IsTableOf(s, p, before) ==
    /\ StreamsOf(s.table) /\ s.followed \subseteq FirstMembers /\ before \subseteq s.followed
    /\ IsFollowedBy(s.table, p, s.followed)
    /\ \A q \in Live!Open \ {p} : IsFollowedBy(s.table, q, listeners[q].instruments)
    /\ TableKeepsBars(s.table, p, before)

\* The releases take away one page, and keep the streams with their bars.
LEMMA ReleaseKeeps ==
    ASSUME LiveIInv, NEW p \in Live!Open, NEW rest, rest \subseteq listeners[p].instruments, NEW table,
           table = Live!ReleaseAll(streams, listeners[p].instruments \ rest, p)
    PROVE  IsTableOf([table |-> table, followed |-> rest], p, rest)
<1>1. /\ StreamsOf(streams) /\ LiveIsTyped
      /\ \A q \in Live!Open : IsFollowedBy(streams, q, listeners[q].instruments)
    BY DEF LiveIInv
<1> DEFINE is == listeners[p].instruments
<1>2. is \subseteq FirstMembers
    BY <1>1 DEF LiveIsTyped
<1>3. DOMAIN table = DOMAIN streams /\ table = [i \in DOMAIN table |-> table[i]]
    BY DEF Live!ReleaseAll
<1>4. ASSUME NEW i \in DOMAIN streams
      PROVE  /\ table[i] \in [listeners : SUBSET Live!Open, bar : LiveBars, timer : BOOLEAN]
             /\ table[i].timer <=> table[i].listeners = {}
             /\ table[i].bar = streams[i].bar
             /\ \A q \in Live!Open : q \in table[i].listeners <=> q \in streams[i].listeners /\ ~(q = p /\ i \in is \ rest)
    <2>1. streams[i] \in [listeners : SUBSET Live!Open, bar : LiveBars, timer : BOOLEAN]
        BY <1>1 DEF StreamsOf
    <2>2. streams[i].timer <=> streams[i].listeners = {}
        BY <1>1 DEF StreamsOf
    <2>3. table[i] = IF i \in is \ rest THEN Live!Release(streams[i], p) ELSE streams[i]
        BY DEF Live!ReleaseAll
    <2>4. CASE i \in is \ rest
        <3> DEFINE l == streams[i].listeners \ {p}
        <3>1. table[i] = [streams[i] EXCEPT !.listeners = l, !.timer = @ \/ l = {}]
            BY <2>3, <2>4 DEF Live!Release
        <3>2. /\ table[i].listeners = l /\ table[i].bar = streams[i].bar
              /\ table[i].timer = (streams[i].timer \/ l = {})
              /\ table[i] \in [listeners : SUBSET Live!Open, bar : LiveBars, timer : BOOLEAN]
            BY <2>1, <3>1
        <3>3. table[i].timer <=> table[i].listeners = {}
            BY <2>2, <3>2
        <3> QED
            BY <2>4, <3>2, <3>3
    <2>5. CASE i \notin is \ rest
        BY <2>1, <2>2, <2>3, <2>5
    <2> QED
        BY <2>4, <2>5
<1>5. StreamsOf(table)
    BY <1>1, <1>3, <1>4 DEF StreamsOf
<1>6. IsFollowedBy(table, p, rest)
    BY <1>1, <1>2, <1>3, <1>4 DEF IsFollowedBy
<1>7. ASSUME NEW q \in Live!Open \ {p} PROVE IsFollowedBy(table, q, listeners[q].instruments)
    BY <1>1, <1>3, <1>4 DEF IsFollowedBy
<1>8. TableKeepsBars(table, p, rest)
    BY <1>1, <1>3, <1>4 DEF IsFollowedBy, TableKeepsBars
<1> QED
    BY <1>2, <1>5, <1>6, <1>7, <1>8 DEF IsTableOf

\* A new stream in a free place: nobody followed its instrument.
LEMMA StartKeeps ==
    ASSUME LiveIsTyped, NEW p \in Live!Open, NEW s, NEW before, IsTableOf(s, p, before), NEW i \in FirstMembers,
           i \notin DOMAIN s.table, Cardinality(DOMAIN s.table \cup {i}) <= MaxStreams, NEW r,
           r = [table |-> Live!Start(s.table, i, p), followed |-> s.followed \cup {i}]
    PROVE  IsTableOf(r, p, before)
<1> DEFINE table == s.table
           next == Live!Start(table, i, p)
<1>1. /\ DOMAIN next = DOMAIN table \cup {i} /\ next = [j \in DOMAIN next |-> next[j]]
      /\ next[i] = [listeners |-> {p}, bar |-> Live!NoBar, timer |-> FALSE]
      /\ \A j \in DOMAIN table : next[j] = table[j]
    BY DEF Live!Start, Live!NewStream
<1>2. StreamsOf(table) /\ r.table = next /\ r.followed = s.followed \cup {i}
    BY DEF IsTableOf
<1> HIDE DEF next
<1>3. StreamsOf(next)
    <2>1. next[i] \in [listeners : SUBSET Live!Open, bar : LiveBars, timer : BOOLEAN]
        BY <1>1 DEF LiveBars
    <2>2. \A j \in DOMAIN next : next[j] \in [listeners : SUBSET Live!Open, bar : LiveBars, timer : BOOLEAN]
        BY <1>1, <1>2, <2>1 DEF StreamsOf
    <2>3. \A j \in DOMAIN next : next[j].timer <=> next[j].listeners = {}
        BY <1>1, <1>2 DEF StreamsOf
    <2> QED
        BY <1>1, <1>2, <2>2, <2>3 DEF StreamsOf
<1>4. IsFollowedBy(next, p, s.followed \cup {i})
    BY <1>1 DEF IsTableOf, IsFollowedBy
<1>5. ASSUME NEW q \in Live!Open \ {p} PROVE IsFollowedBy(next, q, listeners[q].instruments)
    BY <1>1 DEF IsTableOf, IsFollowedBy
<1>6. TableKeepsBars(next, p, before)
    BY <1>1 DEF IsTableOf, TableKeepsBars
<1> QED
    BY <1>2, <1>3, <1>4, <1>5, <1>6 DEF IsTableOf

\* A stream without a listener stops: no page followed it.
LEMMA StopKeeps ==
    ASSUME IsFiniteSet(FirstMembers), NEW p \in Live!Open, NEW s, NEW before, IsTableOf(s, p, before),
           NEW u \in Live!Unused(s.table), NEW r,
           r = [table |-> Live!Without(s.table, u), followed |-> s.followed]
    PROVE  IsTableOf(r, p, before) /\ DOMAIN r.table = DOMAIN s.table \ {u}
<1> DEFINE table == s.table
           next == Live!Without(table, u)
<1>1. u \in DOMAIN table /\ table[u].listeners = {}
    BY DEF Live!Unused
<1>2. /\ DOMAIN next = DOMAIN table \ {u} /\ next = [j \in DOMAIN next |-> next[j]]
      /\ \A j \in DOMAIN next : next[j] = table[j]
    BY DEF Live!Without
<1>3. StreamsOf(table) /\ r.table = next /\ r.followed = s.followed
    BY DEF IsTableOf
<1>4. Cardinality(DOMAIN next) <= MaxStreams
    <2>1. IsFiniteSet(DOMAIN table) /\ Cardinality(DOMAIN table) \in Nat
        BY <1>3, FS_Subset, FS_CardinalityType DEF StreamsOf
    <2>2. Cardinality(DOMAIN next) = Cardinality(DOMAIN table) - 1
        BY <1>1, <1>2, <2>1, FS_RemoveElement
    <2>3. Cardinality(DOMAIN table) <= MaxStreams /\ MaxStreams \in Nat
        BY <1>3, MarketAssumption DEF StreamsOf
    <2> QED
        BY <2>1, <2>2, <2>3
<1> HIDE DEF next
<1>5. StreamsOf(next)
    BY <1>2, <1>3, <1>4 DEF StreamsOf
<1>6. IsFollowedBy(next, p, s.followed)
    BY <1>1, <1>2 DEF IsTableOf, IsFollowedBy
<1>7. ASSUME NEW q \in Live!Open \ {p} PROVE IsFollowedBy(next, q, listeners[q].instruments)
    BY <1>1, <1>2 DEF IsTableOf, IsFollowedBy
<1>8. TableKeepsBars(next, p, before)
    <2>1. ASSUME NEW i \in FirstMembers, i \in before \/ \E q \in Live!Open \ {p} : i \in listeners[q].instruments
          PROVE  i # u
        BY <1>1, <2>1 DEF IsTableOf, IsFollowedBy
    <2> QED
        BY <1>2, <2>1 DEF IsTableOf, TableKeepsBars
<1> QED
    BY <1>2, <1>3, <1>5, <1>6, <1>7, <1>8 DEF IsTableOf

\* The size of a set is the same in the component.
LEMMA LiveCardinality == \A S : Live!Cardinality(S) = Cardinality(S)
BY DEF Live!Cardinality, Cardinality

\* The next instrument: it gets its stream, with the place of a stream that no page follows, or is not followed.
LEMMA AcquireKeeps ==
    ASSUME IsFiniteSet(FirstMembers), LiveIsTyped, NEW p \in Live!Open, NEW s, NEW before, IsTableOf(s, p, before),
           NEW i \in FirstMembers, NEW r \in Live!AcquireNext(s, i, p)
    PROVE  IsTableOf(r, p, before) /\ r.followed \subseteq s.followed \cup {i}
<1> DEFINE table == s.table
<1>1. StreamsOf(table)
    BY DEF IsTableOf
<1>2. IsFiniteSet(DOMAIN table) /\ Cardinality(DOMAIN table) \in Nat /\ MaxStreams \in Nat
    BY <1>1, FS_Subset, FS_CardinalityType, MarketAssumption DEF StreamsOf
<1>3. CASE i \in s.followed \/ Live!Acquire(table, i, p) = {}
    BY <1>3 DEF Live!AcquireNext
<1>4. CASE i \notin s.followed /\ Live!Acquire(table, i, p) # {}
    <2>1. PICK t \in Live!Acquire(table, i, p) : r = [table |-> t, followed |-> s.followed \cup {i}]
        BY <1>4 DEF Live!AcquireNext
    <2>2. CASE i \in DOMAIN table
        <3>1. t = [table EXCEPT ![i].listeners = @ \cup {p}, ![i].timer = FALSE]
            BY <2>1, <2>2 DEF Live!Acquire
        <3>2. table[i] \in [listeners : SUBSET Live!Open, bar : LiveBars, timer : BOOLEAN]
            BY <1>1, <2>2 DEF StreamsOf
        <3>3. /\ DOMAIN t = DOMAIN table /\ t = [j \in DOMAIN t |-> t[j]]
              /\ t[i] \in [listeners : SUBSET Live!Open, bar : LiveBars, timer : BOOLEAN]
              /\ t[i].listeners = table[i].listeners \cup {p} /\ ~t[i].timer /\ t[i].bar = table[i].bar
              /\ \A j \in DOMAIN table : j # i => t[j] = table[j]
            BY <2>2, <3>1, <3>2
        <3>4. StreamsOf(t)
            BY <1>1, <3>3 DEF StreamsOf
        <3>5. IsFollowedBy(t, p, s.followed \cup {i})
            BY <2>2, <3>3 DEF IsTableOf, IsFollowedBy
        <3>6. ASSUME NEW q \in Live!Open \ {p} PROVE IsFollowedBy(t, q, listeners[q].instruments)
            BY <3>3 DEF IsTableOf, IsFollowedBy
        <3>7. TableKeepsBars(t, p, before)
            BY <3>3 DEF IsTableOf, TableKeepsBars
        <3>8. r.table = t /\ r.followed = s.followed \cup {i}
            BY <2>1
        <3> QED
            BY <3>4, <3>5, <3>6, <3>7, <3>8 DEF IsTableOf
    <2>3. CASE i \notin DOMAIN table /\ Cardinality(DOMAIN table) < MaxStreams
        <3>1. t = Live!Start(table, i, p)
            <4>1. Live!Acquire(table, i, p) = {Live!Start(table, i, p)}
                BY <2>3, LiveCardinality DEF Live!Acquire
            <4> QED
                BY <2>1, <4>1
        <3>2. Cardinality(DOMAIN table \cup {i}) = Cardinality(DOMAIN table) + 1
            BY <1>2, <2>3, FS_AddElement
        <3>3. Cardinality(DOMAIN table \cup {i}) <= MaxStreams
            BY <1>2, <2>3, <3>2
        <3> QED
            BY <2>1, <2>3, <3>1, <3>3, StartKeeps
    <2>4. CASE i \notin DOMAIN table /\ ~(Cardinality(DOMAIN table) < MaxStreams)
        <3>1. PICK u \in Live!Unused(table) : t = Live!Start(Live!Without(table, u), i, p)
            <4>1. Live!Acquire(table, i, p) = {Live!Start(Live!Without(table, u), i, p) : u \in Live!Unused(table)}
                BY <2>4, LiveCardinality DEF Live!Acquire
            <4> QED
                BY <2>1, <4>1
        <3> DEFINE rest == [table |-> Live!Without(table, u), followed |-> s.followed]
        <3>2. IsTableOf(rest, p, before) /\ DOMAIN rest.table = DOMAIN table \ {u}
            BY StopKeeps
        <3>3. Cardinality(DOMAIN rest.table \cup {i}) <= MaxStreams
            <4>1. u \in DOMAIN table /\ i \notin DOMAIN table \ {u}
                BY <2>4 DEF Live!Unused
            <4>2. /\ IsFiniteSet(DOMAIN table \ {u})
                  /\ Cardinality(DOMAIN table \ {u}) = Cardinality(DOMAIN table) - 1
                BY <1>2, <4>1, FS_RemoveElement
            <4>3. Cardinality((DOMAIN table \ {u}) \cup {i}) = Cardinality(DOMAIN table \ {u}) + 1
                BY <4>1, <4>2, FS_AddElement
            <4>4. Cardinality(DOMAIN table) <= MaxStreams
                BY <1>1 DEF StreamsOf
            <4> HIDE DEF rest
            <4> QED
                BY <1>2, <3>2, <4>2, <4>3, <4>4
        <3>4. r = [table |-> Live!Start(rest.table, i, p), followed |-> rest.followed \cup {i}]
            BY <2>1, <3>1
        <3>5. i \notin DOMAIN rest.table
            BY <2>4, <3>2
        <3>6. r.followed = s.followed \cup {i}
            BY <2>1
        <3> HIDE DEF rest
        <3> QED
            BY <3>2, <3>3, <3>4, <3>5, <3>6, StartKeeps
    <2> QED
        BY <2>2, <2>3, <2>4
<1> QED
    BY <1>3, <1>4

\* The results of the instruments of a list, one after the other.
IsResults(results, start, p, wanted, m) ==
    results = [n \in 0 .. m |->
        IF n = 0 THEN {start} ELSE UNION {Live!AcquireNext(s, wanted[n], p) : s \in results[n - 1]}]

\* There is such a function for each list.
LEMMA ResultsExist ==
    ASSUME NEW start, NEW p, NEW wanted, NEW m \in Nat
    PROVE  \E results : IsResults(results, start, p, wanted, m)
<1> DEFINE Step(n, results) ==
                IF n = 0 THEN {start} ELSE UNION {Live!AcquireNext(s, wanted[n], p) : s \in results[n - 1]}
           done == {n \in Nat : \E results : results = [k \in 0 .. n |-> Step(k, results)]}
<1>1. 0 \in done
    <2> DEFINE results == [k \in 0 .. 0 |-> {start}]
    <2>1. results = [k \in 0 .. 0 |-> Step(k, results)]
        OBVIOUS
    <2> QED
        BY <2>1
<1>2. ASSUME NEW n \in Nat, n \in done PROVE n + 1 \in done
    <2>1. PICK results : results = [k \in 0 .. n |-> Step(k, results)]
        BY <1>2
    <2> DEFINE next == [k \in 0 .. n + 1 |-> IF k \in 0 .. n THEN results[k] ELSE Step(n + 1, results)]
    <2>2. \A k \in 0 .. n : next[k] = results[k]
        OBVIOUS
    <2>3. \A k \in 0 .. n + 1 : k # 0 => k - 1 \in 0 .. n
        OBVIOUS
    <2>4. \A k \in 0 .. n + 1 : Step(k, next) = Step(k, results)
        BY <2>2, <2>3
    <2>5. \A k \in 0 .. n : results[k] = Step(k, results)
        BY <2>1
    <2>6. \A k \in 0 .. n + 1 : next[k] = Step(k, results)
        <3> HIDE DEF Step
        <3> SUFFICES ASSUME NEW k \in 0 .. n + 1 PROVE next[k] = Step(k, results)
            OBVIOUS
        <3>1. k \in 0 .. n \/ k = n + 1
            OBVIOUS
        <3> QED
            BY <2>5, <3>1
    <2> HIDE DEF Step
    <2>7. next = [k \in 0 .. n + 1 |-> Step(k, next)]
        BY <2>4, <2>6
    <2>8. \E any : any = [k \in 0 .. n + 1 |-> Step(k, any)]
        BY <2>7
    <2> QED
        BY <2>8
<1> HIDE DEF done
<1>3. \A n \in Nat : n \in done
    <2> SUFFICES ASSUME Nat \ done # {} PROVE FALSE
        OBVIOUS
    <2>1. PICK n \in Nat \ done : \A k \in Nat \ done : n <= k
        BY SmallestOf
    <2>2. n # 0 /\ n - 1 \in Nat /\ (n - 1) + 1 = n
        BY <1>1
    <2>3. n - 1 \in done
        BY <2>1, <2>2
    <2> QED
        BY <1>2, <2>1, <2>2, <2>3
<1> QED
    BY <1>3 DEF done, IsResults

\* The instruments of the watchlist, and those of them that a page follows already.
Wanted == {watchlist[n] : n \in 1 .. Len(watchlist)}
KeptBy(p) == listeners[p].instruments \cap Wanted

\* Each result of `follow` is a table of the instruments that the page follows after it, all of them of the watchlist.
LEMMA FollowKeeps ==
    ASSUME IsFiniteSet(FirstMembers), LiveIInv, NEW p \in Live!Open, NEW r \in Live!FollowResults(p, watchlist)
    PROVE  IsTableOf(r, p, KeptBy(p)) /\ r.followed \subseteq Wanted
<1>1. LiveIsTyped /\ watchlist \in Seq(FirstMembers)
    <2>1. LiveIsTyped /\ watchlist \in Live!Lists
        BY DEF LiveIInv, LiveIsTyped
    <2>2. Live!Cardinality(FirstMembers) \in Nat
        BY LiveCardinality, FS_CardinalityType
    <2>3. PICK n \in 0 .. Live!Cardinality(FirstMembers) : watchlist \in [1 .. n -> FirstMembers]
        BY <2>1 DEF Live!Lists
    <2> QED
        BY <2>1, <2>2, <2>3
<1> DEFINE rest == KeptBy(p)
           start == [table |-> Live!ReleaseAll(streams, listeners[p].instruments \ rest, p), followed |-> rest]
           results == CHOOSE any : IsResults(any, start, p, watchlist, Len(watchlist))
<1>2. Live!FollowResults(p, watchlist) = results[Len(watchlist)]
    <2>1. rest = listeners[p].instruments \cap Live!ToSet(watchlist)
        BY <1>1 DEF KeptBy, Wanted, Live!ToSet
    <2> QED
        BY <2>1 DEF Live!FollowResults, IsResults
<1>3. IsResults(results, start, p, watchlist, Len(watchlist)) /\ Len(watchlist) \in Nat
    <2>1. Len(watchlist) \in Nat
        BY <1>1
    <2> HIDE DEF start
    <2>2. \E any : IsResults(any, start, p, watchlist, Len(watchlist))
        BY <2>1, ResultsExist
    <2> QED
        BY <2>1, <2>2
<1> HIDE DEF results
<1>4. start.followed = rest /\ rest \subseteq Wanted /\ IsTableOf(start, p, rest)
    <2>1. rest \subseteq listeners[p].instruments /\ rest \subseteq Wanted
        BY DEF KeptBy
    <2> HIDE DEF rest
    <2> QED
        BY <2>1, ReleaseKeeps
<1> HIDE DEF start
<1> DEFINE good == {n \in Nat : n <= Len(watchlist) =>
                                    \A s \in results[n] : IsTableOf(s, p, rest) /\ s.followed \subseteq Wanted}
<1>5. 0 \in good
    <2>1. results[0] = {start}
        BY <1>3 DEF IsResults
    <2> HIDE DEF rest
    <2> QED
        BY <1>4, <2>1
<1>6. ASSUME NEW n \in Nat, n \in good, n + 1 <= Len(watchlist), NEW s \in results[n + 1]
      PROVE  IsTableOf(s, p, rest) /\ s.followed \subseteq Wanted
    <2>1. n + 1 \in 0 .. Len(watchlist) /\ n + 1 # 0 /\ (n + 1) - 1 = n /\ n + 1 \in 1 .. Len(watchlist)
        BY <1>3, <1>6
    <2>2. results[n + 1] = UNION {Live!AcquireNext(b, watchlist[n + 1], p) : b \in results[n]}
        BY <1>3, <2>1 DEF IsResults
    <2>3. PICK b \in results[n] : s \in Live!AcquireNext(b, watchlist[n + 1], p)
        BY <1>6, <2>2
    <2>4. watchlist[n + 1] \in FirstMembers /\ watchlist[n + 1] \in Wanted
        BY <1>1, <2>1 DEF Wanted
    <2>5. IsTableOf(b, p, rest) /\ b.followed \subseteq Wanted
        BY <1>3, <1>6
    <2> HIDE DEF rest, good
    <2> QED
        BY <1>1, <2>3, <2>4, <2>5, AcquireKeeps
<1> HIDE DEF good
<1>7. \A n \in Nat : n \in good
    <2> SUFFICES ASSUME Nat \ good # {} PROVE FALSE
        OBVIOUS
    <2>1. PICK n \in Nat \ good : \A k \in Nat \ good : n <= k
        BY SmallestOf
    <2>2. n # 0 /\ n - 1 \in Nat /\ (n - 1) + 1 = n
        BY <1>5
    <2>3. n - 1 \in good
        BY <2>1, <2>2
    <2>4. n <= Len(watchlist) => \A s \in results[n] : IsTableOf(s, p, rest) /\ s.followed \subseteq Wanted
        BY <1>6, <2>2, <2>3
    <2>5. n \in good
        BY <2>1, <2>4 DEF good
    <2> QED
        BY <2>1, <2>5
<1>8. \A s \in results[Len(watchlist)] : IsTableOf(s, p, rest) /\ s.followed \subseteq Wanted
    <2>1. Len(watchlist) \in good /\ Len(watchlist) <= Len(watchlist)
        BY <1>3, <1>7
    <2> QED
        BY <2>1 DEF good
<1> QED
    BY <1>2, <1>8

\* What a follow does: the page follows the instruments of the result, and each instrument that it follows now and not
\* before, or before and not now, is a change for it.
LEMMA FollowStep ==
    ASSUME IsFiniteSet(FirstMembers), LiveIInv, NEW p \in Pages, Live!FollowWatchlist(p)
    PROVE  LiveIInv'
<1>1. /\ p \in Live!Open /\ p \in notified /\ notified' = notified \ {p} /\ Live!Follow(p, watchlist)
      /\ watchlist' = watchlist /\ changes' = changes /\ shown' = shown
    BY DEF Live!FollowWatchlist
<1>2. PICK r \in Live!FollowResults(p, watchlist) :
        /\ streams' = r.table
        /\ listeners' = [listeners EXCEPT ![p].instruments = r.followed,
                ![p].changed = @ \cup (listeners[p].instruments \ r.followed)
                                 \cup (r.followed \ listeners[p].instruments)]
    BY <1>1 DEF Live!Follow
<1>3. IsTableOf(r, p, KeptBy(p)) /\ r.followed \subseteq Wanted
    BY <1>1, FollowKeeps
<1>4. LiveIsTyped /\ StreamsOf(streams) /\ \A q \in Live!Open : IsFollowedBy(streams, q, listeners[q].instruments)
    BY DEF LiveIInv
<1> DEFINE is == listeners[p].instruments
<1>5. listeners[p] \in [instruments : SUBSET FirstMembers, changed : SUBSET FirstMembers]
    BY <1>1, <1>4 DEF LiveIsTyped
<1>6. r.followed \subseteq FirstMembers
    BY <1>3 DEF IsTableOf
<1>7. /\ Live!Open' = Live!Open /\ listeners' = [q \in Live!Open' |-> listeners'[q]]
      /\ listeners'[p].instruments = r.followed
      /\ listeners'[p].changed = listeners[p].changed \cup (is \ r.followed) \cup (r.followed \ is)
      /\ listeners'[p] \in [instruments : SUBSET FirstMembers, changed : SUBSET FirstMembers]
      /\ \A q \in Live!Open : q # p => listeners'[q] = listeners[q]
    BY <1>1, <1>2, <1>4, <1>5, <1>6 DEF LiveIsTyped, Live!Open
<1>8. LiveIsTyped'
    BY <1>1, <1>4, <1>7 DEF LiveIsTyped, Live!Lists
<1>9. StreamsOf(streams)'
    <2>1. StreamsOf(r.table)
        BY <1>3 DEF IsTableOf
    <2> QED
        BY <1>2, <1>7, <2>1 DEF StreamsOf
<1>10. ASSUME NEW q \in Live!Open PROVE IsFollowedBy(streams, q, listeners[q].instruments)'
    <2>1. IsFollowedBy(r.table, p, r.followed)
        BY <1>3 DEF IsTableOf
    <2>2. q # p => IsFollowedBy(r.table, q, listeners[q].instruments)
        BY <1>3 DEF IsTableOf
    <2> HIDE DEF is
    <2>3. IsFollowedBy(streams', q, listeners'[q].instruments)
        BY <1>2, <1>7, <2>1, <2>2
    <2> QED
        BY <2>3 DEF IsFollowedBy
<1>11. ASSUME NEW q \in Live!Open, NEW i \in FirstMembers
       PROVE  shown'[q][i] = Live!ReadBar(q, i)' \/ i \in listeners'[q].changed
    <2>1. shown[q][i] = Live!ReadBar(q, i) \/ i \in listeners[q].changed
        BY DEF LiveIInv, Live!NoChangeIsMissed
    <2>2. i \in listeners[q].instruments => i \in DOMAIN streams
        BY <1>4 DEF IsFollowedBy
    <2>3. i \in listeners'[q].instruments => i \in DOMAIN streams'
        BY <1>7, <1>10 DEF IsFollowedBy
    <2>4. CASE q # p
        <3>1. i \in listeners[q].instruments => streams'[i].bar = streams[i].bar
            BY <1>2, <1>3, <2>4 DEF IsTableOf, TableKeepsBars
        <3> QED
            BY <1>1, <1>7, <2>1, <2>2, <2>3, <2>4, <3>1 DEF Live!ReadBar
    <2>5. CASE q = p /\ i \in is /\ i \in r.followed
        <3>1. i \in KeptBy(p)
            BY <1>3, <2>5 DEF KeptBy
        <3>2. streams'[i].bar = streams[i].bar
            BY <1>2, <1>3, <3>1 DEF IsTableOf, TableKeepsBars
        <3> QED
            BY <1>1, <1>7, <2>1, <2>2, <2>3, <2>5, <3>2 DEF Live!ReadBar
    <2>6. CASE q = p /\ i \notin is /\ i \notin r.followed
        BY <1>1, <1>7, <2>1, <2>6 DEF Live!ReadBar
    <2>7. CASE q = p /\ ~(i \in is <=> i \in r.followed)
        BY <1>7, <2>7
    <2> QED
        BY <2>4, <2>5, <2>6, <2>7
<1>12. Live!NoChangeIsMissed'
    BY <1>7, <1>11 DEF Live!NoChangeIsMissed
<1> QED
    BY <1>7, <1>8, <1>9, <1>10, <1>12 DEF LiveIInv

\* A page without an open socket gets one, and follows nothing yet.
LEMMA OpenPageStep == ASSUME LiveIInv, NEW p \in Pages, Live!OpenPage(p) PROVE LiveIInv'
<1>1. /\ p \notin Live!Open /\ notified' = notified \cup {p}
      /\ listeners' = [q \in Live!Open \cup {p} |->
                        IF q = p THEN [instruments |-> {}, changed |-> {}] ELSE listeners[q]]
      /\ shown' = [shown EXCEPT ![p] = [i \in FirstMembers |-> Live!NoBar]]
      /\ watchlist' = watchlist /\ changes' = changes /\ streams' = streams
    BY DEF Live!OpenPage
<1>2. LiveIsTyped /\ StreamsOf(streams) /\ \A q \in Live!Open : IsFollowedBy(streams, q, listeners[q].instruments)
    BY DEF LiveIInv
<1>3. /\ Live!Open' = Live!Open \cup {p} /\ listeners' = [q \in Live!Open' |-> listeners'[q]]
      /\ listeners'[p].instruments = {} /\ listeners'[p].changed = {}
      /\ listeners'[p] \in [instruments : SUBSET FirstMembers, changed : SUBSET FirstMembers]
      /\ \A q \in Live!Open : listeners'[q] = listeners[q]
    BY <1>1 DEF Live!Open
<1>4. LiveIsTyped'
    <2>1. shown' \in [Pages -> [FirstMembers -> LiveBars]]
        BY <1>1, <1>2 DEF LiveIsTyped, LiveBars
    <2> QED
        BY <1>1, <1>2, <1>3, <2>1 DEF LiveIsTyped, Live!Lists
<1>5. StreamsOf(streams)'
    BY <1>1, <1>2, <1>3 DEF StreamsOf
<1>6. ASSUME NEW q \in Live!Open' PROVE IsFollowedBy(streams, q, listeners[q].instruments)'
    <2>1. \A i \in DOMAIN streams : p \notin streams[i].listeners
        BY <1>1, <1>2 DEF StreamsOf
    <2> QED
        BY <1>1, <1>2, <1>3, <2>1 DEF IsFollowedBy
<1>7. ASSUME NEW q \in Live!Open', NEW i \in FirstMembers
      PROVE  shown'[q][i] = Live!ReadBar(q, i)' \/ i \in listeners'[q].changed
    <2>1. CASE q = p
        BY <1>1, <1>2, <1>3, <2>1 DEF Live!ReadBar, LiveIsTyped
    <2>2. CASE q # p
        <3>1. shown[q][i] = Live!ReadBar(q, i) \/ i \in listeners[q].changed
            BY <1>3, <2>2 DEF LiveIInv, Live!NoChangeIsMissed
        <3> QED
            BY <1>1, <1>2, <1>3, <2>2, <3>1 DEF Live!ReadBar, LiveIsTyped
    <2> QED
        BY <2>1, <2>2
<1> QED
    BY <1>4, <1>5, <1>6, <1>7 DEF LiveIInv, Live!NoChangeIsMissed

\* A message brings the live bars of the changed instruments.
LEMMA SendStep == ASSUME LiveIInv, NEW p \in Pages, Live!SendChanges(p) PROVE LiveIInv'
<1>1. /\ p \in Live!Open /\ watchlist' = watchlist /\ changes' = changes /\ notified' = notified /\ streams' = streams
      /\ shown' = [shown EXCEPT ![p] = [i \in FirstMembers |->
                        IF i \in listeners[p].changed THEN Live!ReadBar(p, i) ELSE @[i]]]
      /\ listeners' = [listeners EXCEPT ![p].changed = {}]
    BY DEF Live!SendChanges
<1>2. LiveIsTyped /\ StreamsOf(streams) /\ \A q \in Live!Open : IsFollowedBy(streams, q, listeners[q].instruments)
    BY DEF LiveIInv
<1>3. listeners[p] \in [instruments : SUBSET FirstMembers, changed : SUBSET FirstMembers]
    BY <1>1, <1>2 DEF LiveIsTyped
<1>4. /\ Live!Open' = Live!Open /\ listeners' = [q \in Live!Open' |-> listeners'[q]]
      /\ listeners'[p].changed = {}
      /\ listeners'[p] \in [instruments : SUBSET FirstMembers, changed : SUBSET FirstMembers]
      /\ \A q \in Live!Open : q # p => listeners'[q] = listeners[q]
      /\ \A q \in Live!Open : listeners'[q].instruments = listeners[q].instruments
    BY <1>1, <1>2, <1>3 DEF LiveIsTyped, Live!Open
<1>5. \A q \in Live!Open, i \in FirstMembers : Live!ReadBar(q, i) \in LiveBars
    BY <1>2 DEF StreamsOf, Live!ReadBar, LiveBars
<1>6. LiveIsTyped'
    <2>1. shown' \in [Pages -> [FirstMembers -> LiveBars]]
        BY <1>1, <1>2, <1>5 DEF LiveIsTyped
    <2> QED
        BY <1>1, <1>2, <1>4, <2>1 DEF LiveIsTyped, Live!Lists
<1>7. StreamsOf(streams)'
    BY <1>1, <1>2, <1>4 DEF StreamsOf
<1>8. ASSUME NEW q \in Live!Open' PROVE IsFollowedBy(streams, q, listeners[q].instruments)'
    BY <1>1, <1>2, <1>4 DEF IsFollowedBy
<1>9. ASSUME NEW q \in Live!Open', NEW i \in FirstMembers
      PROVE  shown'[q][i] = Live!ReadBar(q, i)' \/ i \in listeners'[q].changed
    <2>1. shown[q][i] = Live!ReadBar(q, i) \/ i \in listeners[q].changed
        BY <1>4 DEF LiveIInv, Live!NoChangeIsMissed
    <2>2. Live!ReadBar(q, i)' = Live!ReadBar(q, i)
        BY <1>1, <1>4 DEF Live!ReadBar
    <2>3. CASE q = p
        BY <1>1, <1>2, <2>1, <2>2, <2>3 DEF LiveIsTyped
    <2>4. CASE q # p
        BY <1>1, <1>2, <1>4, <2>1, <2>2, <2>4 DEF LiveIsTyped
    <2> QED
        BY <2>3, <2>4
<1> QED
    BY <1>6, <1>7, <1>8, <1>9 DEF LiveIInv, Live!NoChangeIsMissed

\* The page that closes is the listener of no stream, and the others keep their streams and bars.
LEMMA ClosePageStep == ASSUME LiveIInv, NEW p \in Pages, Live!ClosePage(p) PROVE LiveIInv'
<1>1. /\ p \in Live!Open /\ watchlist' = watchlist /\ changes' = changes /\ notified' = notified \ {p}
      /\ streams' = Live!ReleaseAll(streams, listeners[p].instruments, p)
      /\ listeners' = [q \in Live!Open \ {p} |-> listeners[q]]
      /\ shown' = [shown EXCEPT ![p] = [i \in FirstMembers |-> Live!NoBar]]
    BY DEF Live!ClosePage
<1>2. LiveIsTyped /\ StreamsOf(streams) /\ \A q \in Live!Open : IsFollowedBy(streams, q, listeners[q].instruments)
    BY DEF LiveIInv
<1>3. IsTableOf([table |-> streams', followed |-> {}], p, {})
    <2>1. listeners[p].instruments \ {} = listeners[p].instruments /\ {} \subseteq listeners[p].instruments
        OBVIOUS
    <2> QED
        BY <1>1, <2>1, ReleaseKeeps
<1>4. /\ StreamsOf(streams') /\ IsFollowedBy(streams', p, {}) /\ TableKeepsBars(streams', p, {})
      /\ \A q \in Live!Open \ {p} : IsFollowedBy(streams', q, listeners[q].instruments)
    BY <1>3 DEF IsTableOf
<1>5. /\ Live!Open' = Live!Open \ {p} /\ listeners' = [q \in Live!Open' |-> listeners'[q]]
      /\ \A q \in Live!Open' : listeners'[q] = listeners[q]
    BY <1>1 DEF Live!Open
<1>6. LiveIsTyped'
    <2>1. shown' \in [Pages -> [FirstMembers -> LiveBars]]
        BY <1>1, <1>2 DEF LiveIsTyped, LiveBars
    <2> QED
        BY <1>1, <1>2, <1>5, <2>1 DEF LiveIsTyped, Live!Lists
<1>7. StreamsOf(streams)'
    <2>1. \A i \in DOMAIN streams' : p \notin streams'[i].listeners
        BY <1>4 DEF IsFollowedBy, StreamsOf
    <2>2. ASSUME NEW i \in DOMAIN streams' PROVE streams'[i] \in [listeners : SUBSET Live!Open', bar : LiveBars, timer : BOOLEAN]
        <3>1. streams'[i] \in [listeners : SUBSET Live!Open, bar : LiveBars, timer : BOOLEAN]
            BY <1>4 DEF StreamsOf
        <3> QED
            BY <1>5, <2>1, <3>1
    <2> QED
        BY <1>4, <2>2 DEF StreamsOf
<1>8. ASSUME NEW q \in Live!Open' PROVE IsFollowedBy(streams, q, listeners[q].instruments)'
    <2>1. IsFollowedBy(streams', q, listeners'[q].instruments)
        BY <1>4, <1>5
    <2> QED
        BY <2>1 DEF IsFollowedBy
<1>9. ASSUME NEW q \in Live!Open', NEW i \in FirstMembers
      PROVE  shown'[q][i] = Live!ReadBar(q, i)' \/ i \in listeners'[q].changed
    <2>1. shown[q][i] = Live!ReadBar(q, i) \/ i \in listeners[q].changed
        BY <1>5 DEF LiveIInv, Live!NoChangeIsMissed
    <2>2. i \in listeners[q].instruments =>
            i \in DOMAIN streams /\ i \in DOMAIN streams' /\ streams'[i].bar = streams[i].bar
        BY <1>4, <1>5 DEF TableKeepsBars
    <2>3. Live!ReadBar(q, i)' = Live!ReadBar(q, i)
        BY <1>5, <2>2 DEF Live!ReadBar
    <2> QED
        BY <1>1, <1>2, <1>5, <2>1, <2>3 DEF LiveIsTyped
<1> QED
    BY <1>6, <1>7, <1>8, <1>9 DEF LiveIInv, Live!NoChangeIsMissed

\* A new bar of a stream is a change for each page that follows it.
LEMMA PublishStep == ASSUME LiveIInv, NEW k \in FirstMembers, Live!Publish(k) PROVE LiveIInv'
<1>1. /\ k \in DOMAIN streams /\ watchlist' = watchlist /\ changes' = changes /\ notified' = notified /\ shown' = shown
      /\ listeners' = [p \in Live!Open |-> IF p \in streams[k].listeners
                            THEN [listeners[p] EXCEPT !.changed = @ \cup {k}] ELSE listeners[p]]
    BY DEF Live!Publish, Live!PublishTo
<1>2. PICK bar \in LiveBars : streams' = [streams EXCEPT ![k].bar = bar]
    BY DEF Live!Publish, LiveBars
<1>3. LiveIsTyped /\ StreamsOf(streams) /\ \A q \in Live!Open : IsFollowedBy(streams, q, listeners[q].instruments)
    BY DEF LiveIInv
<1>4. /\ Live!Open' = Live!Open /\ listeners' = [q \in Live!Open' |-> listeners'[q]]
    BY <1>1 DEF Live!Open
<1>5. ASSUME NEW q \in Live!Open
      PROVE  /\ listeners'[q] \in [instruments : SUBSET FirstMembers, changed : SUBSET FirstMembers]
             /\ listeners'[q].instruments = listeners[q].instruments
             /\ listeners[q].changed \subseteq listeners'[q].changed
             /\ q \in streams[k].listeners => k \in listeners'[q].changed
    <2>1. listeners[q] \in [instruments : SUBSET FirstMembers, changed : SUBSET FirstMembers]
        BY <1>3 DEF LiveIsTyped
    <2> QED
        BY <1>1, <2>1
<1>6. /\ DOMAIN streams' = DOMAIN streams /\ streams' = [i \in DOMAIN streams' |-> streams'[i]]
      /\ \A i \in DOMAIN streams : /\ i # k => streams'[i] = streams[i]
                                   /\ streams'[i].listeners = streams[i].listeners
                                   /\ streams'[i].timer = streams[i].timer
                                   /\ streams'[i] \in [listeners : SUBSET Live!Open, bar : LiveBars, timer : BOOLEAN]
    BY <1>1, <1>2, <1>3 DEF StreamsOf
<1>7. LiveIsTyped'
    BY <1>1, <1>3, <1>4, <1>5 DEF LiveIsTyped, Live!Lists
<1>8. StreamsOf(streams)'
    BY <1>3, <1>4, <1>6 DEF StreamsOf
<1>9. ASSUME NEW q \in Live!Open' PROVE IsFollowedBy(streams, q, listeners[q].instruments)'
    BY <1>3, <1>4, <1>5, <1>6 DEF IsFollowedBy
<1>10. ASSUME NEW q \in Live!Open', NEW i \in FirstMembers
      PROVE  shown'[q][i] = Live!ReadBar(q, i)' \/ i \in listeners'[q].changed
    <2>1. shown[q][i] = Live!ReadBar(q, i) \/ i \in listeners[q].changed
        BY <1>4 DEF LiveIInv, Live!NoChangeIsMissed
    <2>2. CASE i = k /\ i \in listeners[q].instruments
        <3>1. q \in streams[k].listeners
            BY <1>3, <1>4, <2>2 DEF IsFollowedBy
        <3> QED
            BY <1>4, <1>5, <2>2, <3>1
    <2>3. CASE ~(i = k /\ i \in listeners[q].instruments)
        <3>1. Live!ReadBar(q, i)' = Live!ReadBar(q, i)
            BY <1>4, <1>5, <1>6, <2>3 DEF Live!ReadBar
        <3> QED
            BY <1>1, <1>4, <1>5, <2>1, <3>1
    <2> QED
        BY <2>2, <2>3
<1> QED
    BY <1>7, <1>8, <1>9, <1>10 DEF LiveIInv, Live!NoChangeIsMissed

\* A stream ends after its delay: no page follows it.
LEMMA StopStreamStep ==
    ASSUME IsFiniteSet(FirstMembers), LiveIInv, NEW k \in FirstMembers, Live!StopStream(k) PROVE LiveIInv'
<1>1. /\ k \in DOMAIN streams /\ streams[k].timer /\ streams' = Live!Without(streams, k)
      /\ UNCHANGED <<watchlist, changes, notified, listeners, shown>>
    BY DEF Live!StopStream
<1>2. LiveIsTyped /\ StreamsOf(streams) /\ \A q \in Live!Open : IsFollowedBy(streams, q, listeners[q].instruments)
    BY DEF LiveIInv
<1>3. /\ DOMAIN streams' = DOMAIN streams \ {k} /\ streams' = [i \in DOMAIN streams' |-> streams'[i]]
      /\ \A i \in DOMAIN streams' : streams'[i] = streams[i]
    BY <1>1 DEF Live!Without
<1>4. streams[k].listeners = {}
    BY <1>1, <1>2 DEF StreamsOf
<1>5. Live!Open' = Live!Open
    BY <1>1 DEF Live!Open
<1>6. LiveIsTyped'
    BY <1>1, <1>2, <1>5 DEF LiveIsTyped, Live!Lists
<1>7. StreamsOf(streams)'
    <2>1. IsFiniteSet(DOMAIN streams) /\ Cardinality(DOMAIN streams) \in Nat
        BY <1>2, FS_Subset, FS_CardinalityType DEF StreamsOf
    <2>2. Cardinality(DOMAIN streams') = Cardinality(DOMAIN streams) - 1
        BY <1>1, <1>3, <2>1, FS_RemoveElement
    <2>3. Cardinality(DOMAIN streams) <= MaxStreams /\ MaxStreams \in Nat
        BY <1>2, MarketAssumption DEF StreamsOf
    <2>4. Cardinality(DOMAIN streams') <= MaxStreams
        BY <2>1, <2>2, <2>3
    <2> QED
        BY <1>2, <1>3, <1>5, <2>4 DEF StreamsOf
<1>8. ASSUME NEW q \in Live!Open' PROVE IsFollowedBy(streams, q, listeners[q].instruments)'
    BY <1>1, <1>2, <1>3, <1>4, <1>5 DEF IsFollowedBy
<1>9. ASSUME NEW q \in Live!Open', NEW i \in FirstMembers
      PROVE  shown'[q][i] = Live!ReadBar(q, i)' \/ i \in listeners'[q].changed
    <2>1. shown[q][i] = Live!ReadBar(q, i) \/ i \in listeners[q].changed
        BY <1>5 DEF LiveIInv, Live!NoChangeIsMissed
    <2>2. i \in listeners[q].instruments => i \in DOMAIN streams /\ i # k
        BY <1>2, <1>4, <1>5 DEF IsFollowedBy
    <2>3. Live!ReadBar(q, i)' = Live!ReadBar(q, i)
        BY <1>1, <1>3, <2>2 DEF Live!ReadBar
    <2> QED
        BY <1>1, <2>1, <2>3
<1> QED
    BY <1>6, <1>7, <1>8, <1>9 DEF LiveIInv, Live!NoChangeIsMissed

\* Each step of the live bars keeps the invariant.
LEMMA LiveStep == IsFiniteSet(FirstMembers) /\ LiveIInv /\ (Live!Next \/ UNCHANGED live) => LiveIInv'
<1> SUFFICES ASSUME IsFiniteSet(FirstMembers), LiveIInv, Live!Next \/ UNCHANGED live PROVE LiveIInv'
    OBVIOUS
<1>1. CASE UNCHANGED live
    <2>1. Live!Open' = Live!Open
        BY <1>1 DEF live, Live!Open
    <2> QED
        BY <1>1, <2>1 DEF live, LiveIInv, LiveIsTyped, StreamsOf, IsFollowedBy, Live!NoChangeIsMissed, Live!ReadBar,
            Live!Lists
<1>2. CASE Live!ChangeWatchlist
    <2>1. /\ changes < MaxChanges /\ changes' = changes + 1 /\ watchlist' \in Live!Lists /\ notified' = Live!Open
          /\ UNCHANGED <<streams, listeners, shown>>
        BY <1>2 DEF Live!ChangeWatchlist
    <2>2. Live!Open' = Live!Open /\ Live!Lists' = Live!Lists
        BY <2>1 DEF Live!Open, Live!Lists
    <2>3. changes' \in 0 .. MaxChanges /\ changes \in 0 .. MaxChanges
        BY <2>1, MarketAssumption DEF LiveIInv, LiveIsTyped
    <2>4. LiveIsTyped'
        BY <2>1, <2>2, <2>3 DEF LiveIInv, LiveIsTyped
    <2> QED
        BY <2>1, <2>2, <2>4 DEF LiveIInv, StreamsOf, IsFollowedBy, Live!NoChangeIsMissed, Live!ReadBar
<1> QED
    BY <1>1, <1>2, FollowStep, OpenPageStep, SendStep, ClosePageStep, PublishStep, StopStreamStep DEF Live!Next

\* The first state: no page is open.
LEMMA LiveInit == ASSUME IsFiniteSet(FirstMembers), Init PROVE LiveIInv
<1> USE DEF Init, Live!Init
<1>1. listeners = <<>> /\ Live!Open = {} /\ streams = <<>> /\ DOMAIN streams = {}
    BY DEF Live!Open
<1>2. LiveIsTyped
    BY <1>1, MarketAssumption DEF LiveIsTyped, LiveBars
<1>3. StreamsOf(streams)
    BY <1>1, MarketAssumption, FS_EmptySet DEF StreamsOf
<1> QED
    BY <1>1, <1>2, <1>3 DEF LiveIInv, Live!NoChangeIsMissed

\* What the invariant says of the streams and of the pages.
LEMMA LiveIsTrue == LiveIInv => Live!LiveTypeOK /\ Live!FollowedIsStreamed /\ Live!NoChangeIsMissed
<1> SUFFICES ASSUME LiveIInv PROVE Live!LiveTypeOK /\ Live!FollowedIsStreamed /\ Live!NoChangeIsMissed
    OBVIOUS
<1>1. LiveIsTyped /\ StreamsOf(streams) /\ \A q \in Live!Open : IsFollowedBy(streams, q, listeners[q].instruments)
    BY DEF LiveIInv
<1>2. Live!LiveTypeOK
    BY <1>1 DEF LiveIsTyped, StreamsOf, Live!LiveTypeOK
<1>3. Live!FollowedIsStreamed
    BY <1>1, LiveCardinality DEF StreamsOf, IsFollowedBy, Live!FollowedIsStreamed
<1> QED
    BY <1>2, <1>3 DEF LiveIInv

-----------------------------------------------------------------------------
(* The account socket.                                                     *)

\* What the check of a connection says of its login. It needs the socket only while it is made.
CheckOfLogin ==
    [status |-> IF Account!FailedCondition = "none" THEN "passed" ELSE "failed", reason |-> Account!FailedCondition]
\* The monitor has the check of an earlier connection, or that of this login.
MonitorIsRight(m) ==
    /\ m = [number |-> m.number, check |-> m.check] /\ m.number \in 0 .. session_number
    /\ m.check.status \in {"disconnected", "passed", "failed"}
    /\ m.number = session_number => m.check = IF session_number = 0 THEN Account!Disconnected ELSE CheckOfLogin

BuildSteps == {"wait", "forex", "entries", "splits", "send", "fills", "orders"}
BuildParts == {"step", "of", "quiet", "orders", "check", "balance", "positions", "entries"}
IsBuild(b) ==
    /\ DOMAIN b = BuildParts
    /\ b.step \in BuildSteps /\ b.of \in 0 .. MaxConnections /\ b.quiet \in BOOLEAN
    /\ DOMAIN b.balance = {"base", "amount", "rate"} /\ DOMAIN b.balance.rate = {"source", "base", "of"}

AccountIsTyped ==
    /\ account_login \in FeedLogins /\ session_number \in 0 .. MaxConnections /\ is_up \in BOOLEAN
    /\ is_up => session_number > 0
    /\ open_orders \in Nat /\ fills \in Nat /\ open_orders + fills <= MaxFills /\ recorded_fills \in 0 .. fills
    /\ MonitorIsRight(monitor) /\ rate_reading.number \in 0 .. MaxConnections
    /\ IsBuild(build)

\* A build asks for a rate in one step only, and its rate is of its currency and of its connection.
RateIsRight(b) ==
    LET rate == b.balance.rate
    IN  /\ rate.base = b.balance.base
        /\ b.balance = Account!NoBalance \/ rate.of = b.of
        /\ rate.source = "base_currency_is_usd" <=> b.balance.base = "USD"
AsksInItsStep(b) == b.step = "forex" <=> b.balance.rate.source = "asked"

IsPassed == Account!CheckPaperAccount.status = "passed"
\* The first parts of a build that nothing disturbed are the state of the account.
StartIsCurrent(b) ==
    /\ b.of = session_number /\ b.check = Account!CheckPaperAccount /\ b.orders = -1
    /\ IsPassed => b.balance.base = Account!FindBaseCurrency
    /\ IsPassed /\ Account!FindBaseCurrency # "none" => b.balance.amount = fills
    /\ IsPassed => b.balance.rate.of = session_number
    /\ ~IsPassed => b.balance = Account!NoBalance
\* So are the parts that it has at its step.
PartsAreCurrent(b) ==
    b.quiet =>
        /\ b.of = session_number /\ b.check = Account!CheckPaperAccount
        /\ IsPassed => b.balance.base = Account!FindBaseCurrency
        /\ IsPassed /\ Account!FindBaseCurrency # "none" => b.balance.amount = fills
        /\ IsPassed => b.balance.rate.of = session_number
        /\ ~IsPassed => b.balance = Account!NoBalance
        /\ IsPassed /\ b.step \notin {"forex", "entries"} => b.entries = recorded_fills
        /\ b.step \in {"send", "fills", "orders", "wait"} => b.positions = IF IsPassed THEN fills ELSE 0
        /\ b.step # "wait" => b.orders = -1
        /\ b.orders # -1 => b.orders = IF IsPassed THEN open_orders ELSE 0
BuildIsRight(b) == IsBuild(b) /\ RateIsRight(b) /\ AsksInItsStep(b) /\ PartsAreCurrent(b)

AccountIInv == AccountIsTyped /\ BuildIsRight(build)

\* The monitor makes the check of a connection once, and what a build reads of it is the check of now.
LEMMA RefreshedIsRight ==
    ASSUME AccountIsTyped
    PROVE  /\ MonitorIsRight(Account!Refreshed) /\ Account!Refreshed.check = Account!CheckPaperAccount
           /\ Account!Passed <=> IsPassed
<1> USE DEF Account!Refreshed, MonitorIsRight
<1>1. /\ MonitorIsRight(monitor) /\ session_number \in Nat /\ is_up \in BOOLEAN /\ (is_up => session_number > 0)
    BY DEF AccountIsTyped
<1>2. CASE ~is_up
    <2>1. Account!CheckPaperAccount = Account!Disconnected
        BY <1>2 DEF Account!CheckPaperAccount
    <2>2. Account!Refreshed = [number |-> 0, check |-> Account!Disconnected]
        BY <1>2, <2>1
    <2>3. Account!Disconnected.status = "disconnected"
        BY DEF Account!Disconnected
    <2>4. session_number = 0 => monitor.check = Account!Disconnected
        BY <1>1
    <2> QED
        BY <1>1, <2>1, <2>2, <2>3 DEF Account!Passed, IsPassed
<1>3. CASE is_up
    <2>1. Account!CheckPaperAccount = CheckOfLogin /\ session_number # 0
        BY <1>1, <1>3 DEF Account!CheckPaperAccount, CheckOfLogin
    <2>2. CheckOfLogin.status \in {"disconnected", "passed", "failed"}
        BY DEF CheckOfLogin
    <2>3. CASE session_number = monitor.number
        <3>1. Account!Refreshed = monitor
            BY <1>3, <2>3
        <3> QED
            BY <1>1, <2>1, <2>3, <3>1 DEF Account!Passed, IsPassed
    <2>4. CASE session_number # monitor.number
        <3>1. Account!Refreshed = [number |-> session_number, check |-> CheckOfLogin]
            BY <1>3, <2>1, <2>4
        <3> QED
            BY <1>1, <2>1, <2>2, <3>1 DEF Account!Passed, IsPassed
    <2> QED
        BY <2>3, <2>4
<1> QED
    BY <1>1, <1>2, <1>3

\* A build that something disturbed forgets its amounts, and keeps its rate.
LEMMA KeptIsRight == ASSUME NEW b, BuildIsRight(b) PROVE BuildIsRight(Account!Kept(b))
<1> DEFINE k == Account!Kept(b)
<1>1. CASE b.quiet
    <2>1. k = b
        BY <1>1 DEF Account!Kept
    <2> QED
        BY <2>1
<1>2. CASE ~b.quiet /\ b.step = "wait"
    <2>1. k = Account!NoBuild
        BY <1>2 DEF Account!Kept
    <2> HIDE DEF k
    <2> USE DEF Account!NoBuild, Account!NoBalance
    <2>2. IsBuild(k)
        BY <2>1, MarketAssumption DEF IsBuild, BuildParts, BuildSteps
    <2>3. RateIsRight(k) /\ AsksInItsStep(k)
        BY <2>1 DEF RateIsRight, AsksInItsStep
    <2>4. PartsAreCurrent(k)
        BY <2>1 DEF PartsAreCurrent
    <2>5. BuildIsRight(k)
        BY <2>2, <2>3, <2>4 DEF BuildIsRight
    <2> QED
        BY <2>5 DEF k
<1>3. CASE ~b.quiet /\ b.step # "wait"
    <2>1. k = [b EXCEPT !.balance.amount = 0, !.positions = 0, !.entries = 0, !.orders = -1]
        BY <1>3 DEF Account!Kept
    <2>2. IsBuild(b) /\ RateIsRight(b) /\ AsksInItsStep(b)
        BY DEF BuildIsRight
    <2> HIDE DEF k
    <2>3. /\ IsBuild(k) /\ k.step = b.step /\ k.of = b.of /\ ~k.quiet
          /\ k.balance.rate = b.balance.rate /\ k.balance.base = b.balance.base
        BY <1>3, <2>1, <2>2 DEF IsBuild, BuildParts
    <2>4. b.balance = Account!NoBalance => k.balance = Account!NoBalance
        BY <2>1, <2>2 DEF IsBuild, Account!NoBalance
    <2>5. RateIsRight(k) /\ AsksInItsStep(k)
        BY <2>2, <2>3, <2>4 DEF RateIsRight, AsksInItsStep
    <2>6. PartsAreCurrent(k)
        BY <2>3 DEF PartsAreCurrent
    <2>7. BuildIsRight(k)
        BY <2>3, <2>5, <2>6 DEF BuildIsRight
    <2> QED
        BY <2>7 DEF k
<1> QED
    BY <1>1, <1>2, <1>3 DEF BuildIsRight, IsBuild

\* The build that reads the positions is ready.
LEMMA CompleteIsRight ==
    ASSUME AccountIsTyped, NEW b, IsBuild(b), RateIsRight(b), b.balance.rate.source # "asked",
           b.quiet => StartIsCurrent(b) /\ (IsPassed => b.entries = recorded_fills)
    PROVE  BuildIsRight(Account!Complete(b))
<1> DEFINE r == Account!Complete(b)
<1>1. r = [b EXCEPT !.step = "send", !.positions = IF IsPassed THEN fills ELSE 0]
    BY RefreshedIsRight DEF Account!Complete
<1> HIDE DEF r
<1>2. /\ IsBuild(r) /\ r.step = "send" /\ r.positions = (IF IsPassed THEN fills ELSE 0)
      /\ r.of = b.of /\ r.quiet = b.quiet /\ r.orders = b.orders /\ r.check = b.check /\ r.balance = b.balance
      /\ r.entries = b.entries
    BY <1>1 DEF IsBuild, BuildParts, BuildSteps
<1>3. RateIsRight(r) /\ AsksInItsStep(r)
    BY <1>2 DEF RateIsRight, AsksInItsStep
<1>4. PartsAreCurrent(r)
    BY <1>2 DEF PartsAreCurrent, StartIsCurrent
<1>5. BuildIsRight(r)
    BY <1>2, <1>3, <1>4 DEF BuildIsRight
<1> QED
    BY <1>5 DEF r

\* With a passed check the split checks come next, else the build is ready.
LEMMA SplitsAreRight ==
    ASSUME AccountIsTyped, NEW b, IsBuild(b), RateIsRight(b), b.balance.rate.source # "asked",
           b.quiet => StartIsCurrent(b) /\ (IsPassed => b.entries = recorded_fills)
    PROVE  BuildIsRight(Account!AskSplits(b))
<1> DEFINE r == Account!AskSplits(b)
<1>1. CASE ~IsPassed
    <2>1. r = Account!Complete(b)
        BY <1>1, RefreshedIsRight DEF Account!AskSplits
    <2> QED
        BY <2>1, CompleteIsRight
<1>2. CASE IsPassed
    <2>1. r = [b EXCEPT !.step = "splits"]
        BY <1>2, RefreshedIsRight DEF Account!AskSplits
    <2> HIDE DEF r
    <2>2. /\ IsBuild(r) /\ r.step = "splits" /\ r.of = b.of /\ r.quiet = b.quiet /\ r.orders = b.orders
          /\ r.check = b.check /\ r.balance = b.balance /\ r.entries = b.entries
        BY <2>1 DEF IsBuild, BuildParts, BuildSteps
    <2>3. RateIsRight(r) /\ AsksInItsStep(r)
        BY <2>2 DEF RateIsRight, AsksInItsStep
    <2>4. PartsAreCurrent(r)
        BY <2>2 DEF PartsAreCurrent, StartIsCurrent
    <2>5. BuildIsRight(r)
        BY <2>2, <2>3, <2>4 DEF BuildIsRight
    <2> QED
        BY <2>5 DEF r
<1> QED
    BY <1>1, <1>2

\* With a passed check the ledger comes next.
LEMMA EntriesAreRight ==
    ASSUME AccountIsTyped, NEW b, IsBuild(b), RateIsRight(b), b.balance.rate.source # "asked",
           b.quiet => StartIsCurrent(b)
    PROVE  BuildIsRight(Account!AskEntries(b))
<1> DEFINE r == Account!AskEntries(b)
<1>1. CASE ~IsPassed
    <2> DEFINE c == [b EXCEPT !.entries = -1]
    <2>1. r = Account!AskSplits(c)
        BY <1>1, RefreshedIsRight DEF Account!AskEntries
    <2>2. /\ IsBuild(c) /\ c.of = b.of /\ c.quiet = b.quiet /\ c.orders = b.orders
          /\ c.check = b.check /\ c.balance = b.balance
        BY DEF IsBuild, BuildParts
    <2> HIDE DEF c, r
    <2>3. RateIsRight(c)
        BY <2>2 DEF RateIsRight
    <2>4. c.quiet => StartIsCurrent(c)
        BY <2>2 DEF StartIsCurrent
    <2>5. BuildIsRight(r)
        BY <1>1, <2>1, <2>2, <2>3, <2>4, SplitsAreRight
    <2> QED
        BY <2>5 DEF r
<1>2. CASE IsPassed
    <2>1. r = [b EXCEPT !.step = "entries"]
        BY <1>2, RefreshedIsRight DEF Account!AskEntries
    <2> HIDE DEF r
    <2>2. /\ IsBuild(r) /\ r.step = "entries" /\ r.of = b.of /\ r.quiet = b.quiet /\ r.orders = b.orders
          /\ r.check = b.check /\ r.balance = b.balance
        BY <2>1 DEF IsBuild, BuildParts, BuildSteps
    <2>3. RateIsRight(r) /\ AsksInItsStep(r)
        BY <2>2 DEF RateIsRight, AsksInItsStep
    <2>4. PartsAreCurrent(r)
        BY <2>2 DEF PartsAreCurrent, StartIsCurrent
    <2>5. BuildIsRight(r)
        BY <2>2, <2>3, <2>4 DEF BuildIsRight
    <2> QED
        BY <2>5 DEF r
<1> QED
    BY <1>1, <1>2

\* What a step of the socket does: the new build, which forgets its amounts when something disturbed it, and the
\* refreshed check.
LEMMA BuildStep ==
    ASSUME AccountIsTyped, NEW b, BuildIsRight(b), Account!Build(b), recorded_fills' = recorded_fills,
           rate_reading'.number \in 0 .. MaxConnections
    PROVE  AccountIInv'
<1>1. /\ build' = Account!Kept(b) /\ monitor' = Account!Refreshed
      /\ account_login' = account_login /\ session_number' = session_number /\ is_up' = is_up
      /\ open_orders' = open_orders /\ fills' = fills
    BY DEF Account!Build, Account!accounts
<1>2. BuildIsRight(Account!Kept(b)) /\ MonitorIsRight(Account!Refreshed)
    BY KeptIsRight, RefreshedIsRight
<1>3. /\ Account!CheckPaperAccount' = Account!CheckPaperAccount /\ CheckOfLogin' = CheckOfLogin
      /\ Account!FindBaseCurrency' = Account!FindBaseCurrency /\ (IsPassed' <=> IsPassed)
    <2>1. Account!FailedCondition' = Account!FailedCondition
        BY <1>1 DEF Account!FailedCondition
    <2>2. Account!CheckPaperAccount' = Account!CheckPaperAccount /\ CheckOfLogin' = CheckOfLogin
        BY <1>1, <2>1 DEF Account!CheckPaperAccount, CheckOfLogin, Account!Disconnected
    <2>3. Account!FindBaseCurrency' = Account!FindBaseCurrency
        BY <1>1 DEF Account!FindBaseCurrency
    <2> QED
        BY <2>2, <2>3 DEF IsPassed
<1>4. BuildIsRight(build)'
    <2> DEFINE k == Account!Kept(b)
    <2> HIDE DEF k
    <2>1. build' = k /\ IsBuild(k) /\ RateIsRight(k) /\ AsksInItsStep(k) /\ PartsAreCurrent(k)
        BY <1>1, <1>2 DEF k, BuildIsRight
    <2>2. IsBuild(build)' /\ RateIsRight(build)' /\ AsksInItsStep(build)'
        BY <2>1 DEF IsBuild, RateIsRight, AsksInItsStep
    <2>3. PartsAreCurrent(build)'
        BY <1>1, <1>3, <2>1 DEF PartsAreCurrent
    <2> QED
        BY <2>2, <2>3 DEF BuildIsRight
<1>5. AccountIsTyped'
    <2>1. MonitorIsRight(monitor)'
        BY <1>1, <1>2, <1>3 DEF MonitorIsRight
    <2>2. IsBuild(build)'
        BY <1>4 DEF BuildIsRight
    <2> QED
        BY <1>1, <2>1, <2>2 DEF AccountIsTyped, FeedLogins
<1> QED
    BY <1>4, <1>5 DEF AccountIInv

\* A build begins with the check and the balance, or with the wait for a rate.
LEMMA StartBuildStep == ASSUME AccountIInv, Account!StartBuild PROVE AccountIInv'
<1>1. AccountIsTyped
    BY DEF AccountIInv
<1> DEFINE start == [Account!NoBuild EXCEPT !.step = "entries", !.quiet = TRUE, !.of = session_number,
                                            !.check = Account!Refreshed.check]
           b == Account!WithBalance(start)
           base == Account!FindBaseCurrency
<1>2. /\ Account!Build(IF b.step = "forex" THEN b ELSE Account!AskEntries(b))
      /\ recorded_fills' = recorded_fills /\ rate_reading' = rate_reading
    BY DEF Account!StartBuild
<1>3. /\ start.step = "entries" /\ start.quiet = TRUE /\ start.of = session_number /\ start.orders = -1
      /\ start.check = Account!CheckPaperAccount /\ start.balance = Account!NoBalance
      /\ DOMAIN start = BuildParts
    <2>1. Account!Refreshed.check = Account!CheckPaperAccount
        BY <1>1, RefreshedIsRight
    <2>2. start.step = "entries" /\ start.quiet = TRUE /\ start.of = session_number
        BY DEF Account!NoBuild
    <2>3. start.orders = -1 /\ start.balance = Account!NoBalance
        BY DEF Account!NoBuild
    <2>4. start.check = Account!Refreshed.check
        BY DEF Account!NoBuild
    <2>5. DOMAIN start = BuildParts
        BY DEF Account!NoBuild, BuildParts
    <2> QED
        BY <2>1, <2>2, <2>3, <2>4, <2>5
<1> HIDE DEF start
<1>4. session_number \in 0 .. MaxConnections
    BY <1>1 DEF AccountIsTyped
<1> DEFINE HasSource(c, amount, source) ==
                /\ c = [start EXCEPT !.balance = Account!Balance(base, amount, source, session_number)]
                /\ base # "none" => amount = fills
                /\ source # "asked" /\ (source = "base_currency_is_usd" <=> base = "USD")
<1>5. b.step = "forex" \/ ~IsPassed \/ \E amount, source : HasSource(b, amount, source)
    <2> SUFFICES ASSUME IsPassed PROVE b.step = "forex" \/ \E amount, source : HasSource(b, amount, source)
        OBVIOUS
    <2>1. CASE base = "none"
        <3>1. HasSource(b, 0, "none")
            BY <1>1, <2>1, RefreshedIsRight DEF Account!WithBalance
        <3> QED
            BY <3>1
    <2>2. CASE base = "USD"
        <3>1. HasSource(b, fills, "base_currency_is_usd")
            BY <1>1, <2>2, RefreshedIsRight DEF Account!WithBalance
        <3> QED
            BY <3>1
    <2>3. CASE base \notin {"none", "USD"} /\ Account!FindAccountExchangeRate
        <3>1. HasSource(b, fills, "account")
            BY <1>1, <2>3, RefreshedIsRight DEF Account!WithBalance
        <3> QED
            BY <3>1
    <2>4. CASE base \notin {"none", "USD"} /\ ~Account!FindAccountExchangeRate /\ Account!IsCached(base)
        <3>1. HasSource(b, fills, Account!ForexSource(rate_reading))
            <4>1. Account!ForexSource(rate_reading) \in {"ibkr_forex", "missing"}
                BY DEF Account!ForexSource
            <4> QED
                BY <1>1, <2>4, <4>1, RefreshedIsRight DEF Account!WithBalance, Account!IsCached
        <3> QED
            BY <3>1
    <2>5. CASE base \notin {"none", "USD"} /\ ~Account!FindAccountExchangeRate /\ ~Account!IsCached(base)
        <3>1. b = [start EXCEPT !.balance = Account!Balance(base, fills, "asked", session_number), !.step = "forex"]
            BY <1>1, <2>5, RefreshedIsRight DEF Account!WithBalance
        <3> HIDE DEF b
        <3> QED
            BY <1>3, <3>1 DEF BuildParts
    <2> QED
        BY <2>1, <2>2, <2>3, <2>4, <2>5
<1>6. b.step = "forex" \/ /\ IsBuild(b) /\ RateIsRight(b) /\ b.balance.rate.source # "asked" /\ StartIsCurrent(b)
                          /\ b.step = "entries"
    <2> SUFFICES ASSUME b.step # "forex"
                 PROVE  /\ IsBuild(b) /\ RateIsRight(b) /\ b.balance.rate.source # "asked" /\ StartIsCurrent(b)
                        /\ b.step = "entries"
        OBVIOUS
    <2>1. CASE ~IsPassed
        <3>1. b = [start EXCEPT !.balance = Account!NoBalance]
            BY <1>1, <2>1, RefreshedIsRight DEF Account!WithBalance
        <3> HIDE DEF b
        <3>2. /\ b.step = "entries" /\ b.quiet = TRUE /\ b.of = session_number /\ b.orders = -1
              /\ b.check = Account!CheckPaperAccount /\ b.balance = Account!NoBalance
              /\ DOMAIN b = BuildParts
            BY <1>3, <3>1 DEF BuildParts
        <3>3. /\ DOMAIN b.balance = {"base", "amount", "rate"} /\ DOMAIN b.balance.rate = {"source", "base", "of"}
              /\ b.balance.rate.source = "none"
            BY <3>2 DEF Account!NoBalance
        <3>4. IsBuild(b)
            BY <1>4, <3>2, <3>3 DEF IsBuild, BuildSteps
        <3>5. RateIsRight(b)
            BY <3>2 DEF RateIsRight, Account!NoBalance
        <3>6. StartIsCurrent(b)
            BY <2>1, <3>2 DEF StartIsCurrent
        <3> QED
            BY <3>2, <3>3, <3>4, <3>5, <3>6
    <2>2. CASE IsPassed
        <3>1. PICK amount, source : HasSource(b, amount, source)
            BY <1>5, <2>2
        <3> HIDE DEF b
        <3>2. /\ b.step = "entries" /\ b.quiet = TRUE /\ b.of = session_number /\ b.orders = -1
              /\ b.check = Account!CheckPaperAccount
              /\ b.balance = Account!Balance(base, amount, source, session_number)
              /\ DOMAIN b = BuildParts
            BY <1>3, <3>1 DEF BuildParts
        <3>3. /\ DOMAIN b.balance = {"base", "amount", "rate"} /\ DOMAIN b.balance.rate = {"source", "base", "of"}
              /\ b.balance.base = base /\ b.balance.amount = amount /\ b.balance.rate.source = source
              /\ b.balance.rate.base = base /\ b.balance.rate.of = session_number
            BY <3>2 DEF Account!Balance
        <3>4. IsBuild(b)
            BY <1>4, <3>2, <3>3 DEF IsBuild, BuildSteps
        <3>5. RateIsRight(b)
            BY <3>1, <3>2, <3>3 DEF RateIsRight
        <3>6. StartIsCurrent(b)
            BY <2>2, <3>1, <3>2, <3>3 DEF StartIsCurrent
        <3> QED
            BY <3>1, <3>2, <3>3, <3>4, <3>5, <3>6
    <2> QED
        BY <2>1, <2>2
<1>7. CASE b.step = "forex"
    <2>1. IsPassed /\ base # "USD" /\ base # "none" /\ b = [start EXCEPT !.balance = Account!Balance(base, fills, "asked", session_number), !.step = "forex"]
        <3>1. ASSUME NEW balance, b = [start EXCEPT !.balance = balance] PROVE FALSE
            <4> HIDE DEF b
            <4> QED
                BY <1>3, <1>7, <3>1
        <3> HIDE DEF base
        <3> QED
            BY <1>1, <3>1, RefreshedIsRight DEF Account!WithBalance, base
    <2> HIDE DEF b
    <2>2. /\ b.step = "forex" /\ b.quiet = TRUE /\ b.of = session_number /\ b.orders = -1
          /\ b.check = Account!CheckPaperAccount /\ b.balance = Account!Balance(base, fills, "asked", session_number)
          /\ DOMAIN b = BuildParts
        BY <1>3, <2>1
    <2>3. /\ b.balance = [base |-> base, amount |-> fills, rate |-> b.balance.rate]
          /\ b.balance.rate = [source |-> "asked", base |-> base, of |-> session_number]
        BY <2>2 DEF Account!Balance
    <2>4. IsBuild(b)
        BY <1>4, <2>2, <2>3 DEF IsBuild, BuildParts, BuildSteps
    <2>5. RateIsRight(b) /\ AsksInItsStep(b)
        BY <2>1, <2>2, <2>3 DEF RateIsRight, AsksInItsStep
    <2>6. PartsAreCurrent(b)
        BY <2>1, <2>2, <2>3 DEF PartsAreCurrent
    <2>7. BuildIsRight(b)
        BY <2>4, <2>5, <2>6 DEF BuildIsRight
    <2>8. rate_reading'.number \in 0 .. MaxConnections
        BY <1>1, <1>2 DEF AccountIsTyped
    <2> QED
        BY <1>1, <1>2, <1>7, <2>7, <2>8, BuildStep
<1>8. CASE b.step # "forex"
    <2> HIDE DEF b
    <2>1. BuildIsRight(Account!AskEntries(b))
        BY <1>1, <1>6, <1>8, EntriesAreRight
    <2>2. rate_reading'.number \in 0 .. MaxConnections
        BY <1>1, <1>2 DEF AccountIsTyped
    <2> QED
        BY <1>1, <1>2, <1>8, <2>1, <2>2, BuildStep
<1> QED
    BY <1>7, <1>8

\* The answer of IBKR is a rate of the currency and the connection of the build.
LEMMA GetRateStep == ASSUME AccountIInv, NEW answer, Account!GetRate(answer) PROVE AccountIInv'
<1>1. AccountIsTyped /\ IsBuild(build) /\ RateIsRight(build) /\ AsksInItsStep(build) /\ PartsAreCurrent(build)
    BY DEF AccountIInv, BuildIsRight
<1> DEFINE answered == [number |-> build.of, base |-> build.balance.base, answer |-> answer]
           b == [build EXCEPT !.balance.rate =
                    [source |-> Account!ForexSource(answered), base |-> answered.base, of |-> answered.number]]
<1>2. /\ build.step = "forex" /\ rate_reading' = answered /\ recorded_fills' = recorded_fills
      /\ Account!Build(Account!AskEntries(b))
    BY DEF Account!GetRate
<1>3. Account!ForexSource(answered) \in {"ibkr_forex", "missing"}
    BY DEF Account!ForexSource
<1>4. /\ b.step = "forex" /\ b.quiet = build.quiet /\ b.of = build.of /\ b.orders = build.orders
      /\ b.check = build.check /\ b.balance.base = build.balance.base /\ b.balance.amount = build.balance.amount
      /\ b.balance.rate = [source |-> Account!ForexSource(answered), base |-> build.balance.base, of |-> build.of]
      /\ IsBuild(b)
    BY <1>1, <1>2 DEF IsBuild, BuildParts, BuildSteps
<1>5. answered.number \in 0 .. MaxConnections
    BY <1>1 DEF IsBuild, BuildParts
<1> HIDE DEF answered, b
<1>6. build.balance.base # "USD" /\ build.balance # Account!NoBalance
    BY <1>1, <1>2 DEF RateIsRight, AsksInItsStep, Account!NoBalance
<1>7. RateIsRight(b) /\ b.balance.rate.source # "asked"
    BY <1>3, <1>4, <1>6 DEF RateIsRight
<1>8. b.quiet => StartIsCurrent(b)
    BY <1>1, <1>2, <1>4, <1>6 DEF PartsAreCurrent, StartIsCurrent
<1>9. BuildIsRight(Account!AskEntries(b))
    BY <1>1, <1>4, <1>7, <1>8, EntriesAreRight
<1>10. rate_reading'.number \in 0 .. MaxConnections
    BY <1>2, <1>5
<1> QED
    BY <1>1, <1>2, <1>9, <1>10, BuildStep

\* The entries of the ledger and the split checks.
LEMMA ReadStep == ASSUME AccountIInv, Account!ReadEntries \/ Account!ReadSplitChecks PROVE AccountIInv'
<1>1. AccountIsTyped /\ IsBuild(build) /\ RateIsRight(build) /\ AsksInItsStep(build) /\ PartsAreCurrent(build)
    BY DEF AccountIInv, BuildIsRight
<1>2. rate_reading' = rate_reading /\ recorded_fills' = recorded_fills
    BY DEF Account!ReadEntries, Account!ReadSplitChecks
<1>3. rate_reading'.number \in 0 .. MaxConnections
    BY <1>1, <1>2 DEF AccountIsTyped
<1>4. CASE Account!ReadEntries
    <2> DEFINE b == [build EXCEPT !.entries = recorded_fills]
    <2>1. build.step = "entries" /\ Account!Build(Account!AskSplits(b))
        BY <1>4 DEF Account!ReadEntries
    <2>2. /\ IsBuild(b) /\ b.step = "entries" /\ b.quiet = build.quiet /\ b.of = build.of /\ b.orders = build.orders
          /\ b.check = build.check /\ b.balance = build.balance /\ b.entries = recorded_fills
        BY <1>1, <2>1 DEF IsBuild, BuildParts
    <2> HIDE DEF b
    <2>3. RateIsRight(b) /\ b.balance.rate.source # "asked"
        BY <1>1, <2>1, <2>2 DEF RateIsRight, AsksInItsStep
    <2>4. b.quiet => StartIsCurrent(b) /\ (IsPassed => b.entries = recorded_fills)
        BY <1>1, <2>1, <2>2 DEF PartsAreCurrent, StartIsCurrent
    <2>5. BuildIsRight(Account!AskSplits(b))
        BY <1>1, <2>2, <2>3, <2>4, SplitsAreRight
    <2> QED
        BY <1>1, <1>2, <1>3, <2>1, <2>5, BuildStep
<1>5. CASE Account!ReadSplitChecks
    <2>1. build.step = "splits" /\ Account!Build(Account!Complete(build))
        BY <1>5 DEF Account!ReadSplitChecks
    <2>2. build.balance.rate.source # "asked"
        BY <1>1, <2>1 DEF AsksInItsStep
    <2>3. build.quiet => StartIsCurrent(build) /\ (IsPassed => build.entries = recorded_fills)
        BY <1>1, <2>1 DEF PartsAreCurrent, StartIsCurrent
    <2>4. BuildIsRight(Account!Complete(build))
        BY <1>1, <2>2, <2>3, CompleteIsRight
    <2> QED
        BY <1>1, <1>2, <1>3, <2>1, <2>4, BuildStep
<1> QED
    BY <1>4, <1>5

\* The account message goes to the page, and the orders follow.
LEMMA SendAccountStep ==
    ASSUME AccountIInv, NEW done \in BOOLEAN, Account!SendAccount(done) \/ Account!ReadOrders(done) PROVE AccountIInv'
<1>1. AccountIsTyped /\ IsBuild(build) /\ RateIsRight(build) /\ AsksInItsStep(build) /\ PartsAreCurrent(build)
    BY DEF AccountIInv, BuildIsRight
<1>2. rate_reading' = rate_reading /\ recorded_fills' = recorded_fills
    BY DEF Account!SendAccount, Account!ReadOrders
<1>3. rate_reading'.number \in 0 .. MaxConnections
    BY <1>1, <1>2 DEF AccountIsTyped
<1>4. PICK b : /\ Account!Build(b) /\ build.step \in {"send", "orders"} /\ b.step \in {"wait", "fills", "orders"}
               /\ IsBuild(b) /\ b.quiet = build.quiet /\ b.of = build.of /\ b.check = build.check
               /\ b.balance = build.balance /\ b.entries = build.entries /\ b.positions = build.positions
               /\ \/ b.orders = build.orders
                  \/ b.step = "wait" /\ b.orders \in {-1, IF IsPassed THEN open_orders ELSE 0}
    <2>1. CASE Account!SendAccount(done)
        <3> DEFINE s == IF ~done THEN "wait" ELSE IF Account!Passed THEN "fills" ELSE "orders"
                   b == [build EXCEPT !.step = s]
        <3>1. build.step = "send" /\ Account!Build(b) /\ s \in {"wait", "fills", "orders"}
            BY <2>1 DEF Account!SendAccount
        <3> HIDE DEF s
        <3>2. /\ b.step = s /\ IsBuild(b) /\ b.quiet = build.quiet /\ b.of = build.of /\ b.check = build.check
              /\ b.balance = build.balance /\ b.entries = build.entries /\ b.positions = build.positions
              /\ b.orders = build.orders
            BY <1>1, <3>1 DEF IsBuild, BuildParts, BuildSteps
        <3> HIDE DEF b
        <3> QED
            BY <3>1, <3>2
    <2>2. CASE Account!ReadOrders(done)
        <3> DEFINE n == IF ~done THEN -1 ELSE IF Account!Passed THEN open_orders ELSE 0
                   b == [build EXCEPT !.step = "wait", !.orders = n]
        <3>1. build.step = "orders" /\ Account!Build(b) /\ n \in {-1, IF IsPassed THEN open_orders ELSE 0}
            BY <1>1, <2>2, RefreshedIsRight DEF Account!ReadOrders
        <3> HIDE DEF n
        <3>2. /\ b.step = "wait" /\ IsBuild(b) /\ b.quiet = build.quiet /\ b.of = build.of /\ b.check = build.check
              /\ b.balance = build.balance /\ b.entries = build.entries /\ b.positions = build.positions
              /\ b.orders = n
            BY <1>1, <3>1 DEF IsBuild, BuildParts, BuildSteps
        <3> HIDE DEF b
        <3> QED
            BY <3>1, <3>2
    <2> QED
        BY <2>1, <2>2
<1>5. RateIsRight(b) /\ AsksInItsStep(b)
    BY <1>1, <1>4 DEF RateIsRight, AsksInItsStep
<1>6. PartsAreCurrent(b)
    BY <1>1, <1>4 DEF PartsAreCurrent
<1>7. BuildIsRight(b)
    BY <1>4, <1>5, <1>6 DEF BuildIsRight
<1> QED
    BY <1>1, <1>2, <1>3, <1>4, <1>7, BuildStep

\* A step outside of a build that disturbs it.
LEMMA DisturbKeeps == ASSUME AccountIInv, Account!Disturb PROVE BuildIsRight(build') /\ ~build'.quiet
<1>1. IsBuild(build) /\ RateIsRight(build) /\ AsksInItsStep(build)
    BY DEF AccountIInv, BuildIsRight
<1> DEFINE b == [build EXCEPT !.quiet = FALSE]
<1>2. build' = Account!Kept(b)
    BY DEF Account!Disturb
<1>3. /\ IsBuild(b) /\ ~b.quiet /\ b.step = build.step /\ b.of = build.of /\ b.balance = build.balance
    BY <1>1 DEF IsBuild, BuildParts
<1> HIDE DEF b
<1>4. RateIsRight(b) /\ AsksInItsStep(b) /\ PartsAreCurrent(b)
    BY <1>1, <1>3 DEF RateIsRight, AsksInItsStep, PartsAreCurrent
<1>5. BuildIsRight(Account!Kept(b))
    BY <1>3, <1>4, KeptIsRight DEF BuildIsRight
<1>6. CASE b.step # "wait"
    <2>1. Account!Kept(b) = [b EXCEPT !.balance.amount = 0, !.positions = 0, !.entries = 0, !.orders = -1]
        BY <1>3, <1>6 DEF Account!Kept
    <2>2. Account!Kept(b).quiet = b.quiet
        BY <1>3, <2>1 DEF IsBuild, BuildParts
    <2> QED
        BY <1>2, <1>3, <1>5, <2>2
<1>7. CASE b.step = "wait"
    <2>1. Account!Kept(b) = Account!NoBuild
        BY <1>3, <1>7 DEF Account!Kept
    <2>2. ~Account!NoBuild.quiet
        BY DEF Account!NoBuild
    <2> QED
        BY <1>2, <1>5, <2>1, <2>2
<1> QED
    BY <1>6, <1>7

\* A disturbed build needs no more than its rate.
LEMMA DisturbedIsRight == ASSUME AccountIInv, Account!Disturb PROVE BuildIsRight(build)' /\ IsBuild(build)'
<1>1. BuildIsRight(build') /\ ~build'.quiet
    BY DisturbKeeps
<1>2. IsBuild(build)' /\ RateIsRight(build)' /\ AsksInItsStep(build)'
    BY <1>1 DEF BuildIsRight, IsBuild, RateIsRight, AsksInItsStep
<1>3. PartsAreCurrent(build)'
    BY <1>1 DEF PartsAreCurrent
<1> QED
    BY <1>2, <1>3 DEF BuildIsRight

\* The socket records the fills that the ledger does not have. Entries that it read before are then old.
LEMMA RecordFillsStep == ASSUME AccountIInv, NEW answered \in BOOLEAN, Account!RecordFills(answered) PROVE AccountIInv'
<1>1. AccountIsTyped /\ IsBuild(build) /\ RateIsRight(build) /\ AsksInItsStep(build) /\ PartsAreCurrent(build)
    BY DEF AccountIInv, BuildIsRight
<1> DEFINE same == recorded_fills' = recorded_fills
           b == [build EXCEPT !.step = "orders", !.quiet = @ /\ same]
<1>2. /\ build.step = "fills" /\ Account!Build(b) /\ rate_reading' = rate_reading
      /\ recorded_fills' \in {fills, recorded_fills}
    BY DEF Account!RecordFills
<1>3. /\ IsBuild(b) /\ b.step = "orders" /\ b.of = build.of /\ b.orders = build.orders /\ b.check = build.check
      /\ b.balance = build.balance /\ b.positions = build.positions /\ b.entries = build.entries
      /\ b.quiet \in BOOLEAN
    <2>1. (build.quiet /\ same) \in BOOLEAN
        OBVIOUS
    <2> HIDE DEF same
    <2> QED
        BY <1>1, <2>1 DEF IsBuild, BuildParts, BuildSteps
<1>4. b.quiet => build.quiet /\ same
    BY <1>1 DEF IsBuild, BuildParts
<1> HIDE DEF b
<1>5. RateIsRight(b) /\ AsksInItsStep(b)
    BY <1>1, <1>2, <1>3 DEF RateIsRight, AsksInItsStep
<1>6. PartsAreCurrent(b)
    BY <1>1, <1>2, <1>3, <1>4 DEF PartsAreCurrent
<1>7. BuildIsRight(b)
    BY <1>3, <1>5, <1>6 DEF BuildIsRight
<1>8. rate_reading'.number \in 0 .. MaxConnections
    BY <1>1, <1>2 DEF AccountIsTyped
<1>9. CASE same
    BY <1>1, <1>2, <1>7, <1>8, <1>9, BuildStep
<1>10. CASE ~same
    <2>1. /\ build' = Account!Kept(b) /\ monitor' = Account!Refreshed
          /\ account_login' = account_login /\ session_number' = session_number /\ is_up' = is_up
          /\ open_orders' = open_orders /\ fills' = fills /\ recorded_fills' = fills
        BY <1>2, <1>10 DEF Account!Build, Account!accounts
    <2>2. BuildIsRight(Account!Kept(b)) /\ MonitorIsRight(Account!Refreshed) /\ ~Account!Kept(b).quiet
        <3>1. ~b.quiet
            BY <1>4, <1>10
        <3>2. Account!Kept(b) = [b EXCEPT !.balance.amount = 0, !.positions = 0, !.entries = 0, !.orders = -1]
            BY <1>3, <3>1 DEF Account!Kept
        <3>3. Account!Kept(b).quiet = b.quiet
            BY <1>3, <3>2 DEF IsBuild, BuildParts
        <3> QED
            BY <1>1, <1>7, <3>1, <3>3, KeptIsRight, RefreshedIsRight
    <2>3. BuildIsRight(build)' /\ IsBuild(build)'
        <3> DEFINE k == Account!Kept(b)
        <3> HIDE DEF k
        <3>1. build' = k /\ IsBuild(k) /\ RateIsRight(k) /\ AsksInItsStep(k) /\ ~k.quiet
            BY <2>1, <2>2 DEF k, BuildIsRight
        <3>2. IsBuild(build)' /\ RateIsRight(build)' /\ AsksInItsStep(build)'
            BY <3>1 DEF IsBuild, RateIsRight, AsksInItsStep
        <3>3. PartsAreCurrent(build)'
            BY <3>1 DEF PartsAreCurrent
        <3> QED
            BY <3>2, <3>3 DEF BuildIsRight
    <2>4. MonitorIsRight(monitor)'
        BY <2>1, <2>2 DEF MonitorIsRight, CheckOfLogin, Account!FailedCondition, Account!Disconnected
    <2>5. AccountIsTyped'
        BY <1>1, <1>8, <2>1, <2>3, <2>4 DEF AccountIsTyped, FeedLogins
    <2> QED
        BY <2>3, <2>5 DEF AccountIInv
<1> QED
    BY <1>9, <1>10

\* The same login has the same check and the same currency.
LEMMA LoginStays ==
    account_login' = account_login =>
        /\ Account!FailedCondition' = Account!FailedCondition
        /\ Account!FindBaseCurrency' = Account!FindBaseCurrency
<1>1. account_login' = account_login => Account!FailedCondition' = Account!FailedCondition
    BY DEF Account!FailedCondition
<1>2. account_login' = account_login => Account!FindBaseCurrency' = Account!FindBaseCurrency
    BY DEF Account!FindBaseCurrency
<1> QED
    BY <1>1, <1>2

\* The monitor alone, and the rate that another socket asked for.
LEMMA OthersStep ==
    ASSUME AccountIInv,
           \/ Account!KeepChecking \/ Account!OtherReading(Account!NoReading)
           \/ \E of \in 1 .. session_number, answer \in {"rate", "error"} :
                Account!OtherReading([number |-> of, base |-> Account!FindBaseCurrency, answer |-> answer])
    PROVE  AccountIInv'
<1>1. AccountIsTyped /\ BuildIsRight(build)
    BY DEF AccountIInv
<1>2. /\ account_login' = account_login /\ session_number' = session_number /\ is_up' = is_up
      /\ open_orders' = open_orders /\ fills' = fills /\ recorded_fills' = recorded_fills /\ build' = build
    BY DEF Account!KeepChecking, Account!OtherReading, Account!accounts
<1>3. MonitorIsRight(monitor')
    BY <1>1, RefreshedIsRight DEF Account!KeepChecking, Account!OtherReading, AccountIsTyped
<1>4. rate_reading'.number \in 0 .. MaxConnections
    <2>1. CASE Account!KeepChecking
        BY <1>1, <2>1 DEF Account!KeepChecking, AccountIsTyped
    <2>2. CASE Account!OtherReading(Account!NoReading)
        BY <2>2, MarketAssumption DEF Account!OtherReading, Account!NoReading
    <2>3. ASSUME NEW of \in 1 .. session_number, NEW answer,
                 Account!OtherReading([number |-> of, base |-> Account!FindBaseCurrency, answer |-> answer])
          PROVE  rate_reading'.number \in 0 .. MaxConnections
        <3>1. rate_reading'.number = of
            BY <2>3 DEF Account!OtherReading
        <3>2. session_number \in 0 .. MaxConnections /\ MaxConnections \in Nat
            BY <1>1, MarketAssumption DEF AccountIsTyped
        <3> QED
            BY <3>1, <3>2
    <2> QED
        BY <2>1, <2>2, <2>3
<1>5. Account!FailedCondition' = Account!FailedCondition /\ Account!FindBaseCurrency' = Account!FindBaseCurrency
    BY <1>2, LoginStays
<1>6. BuildIsRight(build)' /\ IsBuild(build)'
    <2>1. Account!CheckPaperAccount' = Account!CheckPaperAccount /\ (IsPassed' <=> IsPassed)
        BY <1>2, <1>5 DEF Account!CheckPaperAccount, IsPassed, Account!Disconnected
    <2>2. IsBuild(build)' /\ RateIsRight(build)' /\ AsksInItsStep(build)'
        BY <1>1, <1>2 DEF BuildIsRight, IsBuild, RateIsRight, AsksInItsStep
    <2>3. PartsAreCurrent(build)'
        BY <1>1, <1>2, <1>5, <2>1 DEF BuildIsRight, PartsAreCurrent
    <2> QED
        BY <2>2, <2>3 DEF BuildIsRight
<1>7. MonitorIsRight(monitor)'
    BY <1>2, <1>3, <1>5 DEF MonitorIsRight, CheckOfLogin
<1>8. AccountIsTyped'
    BY <1>1, <1>2, <1>4, <1>6, <1>7 DEF AccountIsTyped, FeedLogins
<1> QED
    BY <1>6, <1>8 DEF AccountIInv

\* What IB Gateway, the account and the other sockets do disturbs the build.
LEMMA OutsideStep ==
    ASSUME AccountIInv,
           \/ Account!OtherRecords \/ Account!LoseConnection \/ Account!LinkComesBack \/ Account!PlaceOrder
           \/ Account!Fill \/ \E new_login \in FeedLogins : Account!Connect(new_login)
    PROVE  AccountIInv'
<1>1. AccountIsTyped
    BY DEF AccountIInv
<1>2. Account!Disturb /\ monitor' = monitor /\ rate_reading' = rate_reading
    BY DEF Account!OtherRecords, Account!LoseConnection, Account!LinkComesBack, Account!PlaceOrder, Account!Fill,
        Account!Connect, Account!Outside
<1>3. BuildIsRight(build)' /\ IsBuild(build)'
    BY <1>2, DisturbedIsRight
<1>4. MaxConnections \in Nat /\ session_number \in 0 .. MaxConnections
    BY <1>1, MarketAssumption DEF AccountIsTyped
<1>5. CASE \E new_login \in FeedLogins : Account!Connect(new_login)
    <2>1. /\ account_login' \in FeedLogins /\ is_up' = TRUE /\ session_number' = session_number + 1
          /\ session_number < MaxConnections
          /\ UNCHANGED <<open_orders, fills, recorded_fills>>
        BY <1>5 DEF Account!Connect, Account!Outside
    <2>2. session_number' \in 0 .. MaxConnections /\ session_number' > 0
        BY <1>4, <2>1
    <2>3. MonitorIsRight(monitor)'
        BY <1>1, <1>2, <1>4, <2>1 DEF AccountIsTyped, MonitorIsRight
    <2>4. AccountIsTyped'
        BY <1>1, <1>2, <1>3, <2>1, <2>2, <2>3 DEF AccountIsTyped, FeedLogins
    <2> QED
        BY <1>3, <2>4 DEF AccountIInv
<1>6. CASE Account!OtherRecords \/ Account!LoseConnection \/ Account!LinkComesBack \/ Account!PlaceOrder \/ Account!Fill
    <2>1. /\ account_login' = account_login /\ session_number' = session_number /\ is_up' \in BOOLEAN
          /\ is_up' => session_number > 0
        <3>1. (is_up \in BOOLEAN /\ (is_up => session_number > 0)) /\ session_number \in Nat
            BY <1>1 DEF AccountIsTyped
        <3>2. CASE Account!LoseConnection
            BY <3>2 DEF Account!LoseConnection
        <3>3. CASE Account!LinkComesBack
            BY <3>3 DEF Account!LinkComesBack
        <3>4. CASE Account!OtherRecords
            BY <3>1, <3>4 DEF Account!OtherRecords, Account!accounts
        <3>5. CASE Account!PlaceOrder \/ Account!Fill
            BY <3>1, <3>5 DEF Account!PlaceOrder, Account!Fill
        <3> QED
            BY <1>6, <3>2, <3>3, <3>4, <3>5
    <2>2. /\ open_orders' \in Nat /\ fills' \in Nat /\ open_orders' + fills' <= MaxFills
          /\ recorded_fills' \in 0 .. fills'
        <3>1. /\ open_orders \in Nat /\ fills \in Nat /\ open_orders + fills <= MaxFills /\ recorded_fills \in 0 .. fills
              /\ MaxFills \in Nat
            BY <1>1, MarketAssumption DEF AccountIsTyped
        <3>2. CASE Account!Fill
            <4>1. open_orders > 0 /\ open_orders' = open_orders - 1 /\ fills' = fills + 1 /\ recorded_fills' = recorded_fills
                BY <3>2 DEF Account!Fill, Account!Outside
            <4> QED
                BY <3>1, <4>1
        <3>3. CASE Account!PlaceOrder
            <4>1. /\ open_orders + fills < MaxFills /\ open_orders' = open_orders + 1 /\ fills' = fills
                  /\ recorded_fills' = recorded_fills
                BY <3>3 DEF Account!PlaceOrder, Account!Outside
            <4> QED
                BY <3>1, <4>1
        <3>4. CASE Account!OtherRecords
            BY <3>1, <3>4 DEF Account!OtherRecords, Account!accounts
        <3>5. CASE Account!LoseConnection \/ Account!LinkComesBack
            BY <3>1, <3>5 DEF Account!LoseConnection, Account!LinkComesBack, Account!Outside
        <3> QED
            BY <1>6, <3>2, <3>3, <3>4, <3>5
    <2>3. Account!FailedCondition' = Account!FailedCondition
        BY <2>1 DEF Account!FailedCondition
    <2>4. MonitorIsRight(monitor)'
        BY <1>1, <1>2, <2>1, <2>3 DEF AccountIsTyped, MonitorIsRight, CheckOfLogin, Account!Disconnected
    <2>5. AccountIsTyped'
        BY <1>1, <1>2, <1>3, <2>1, <2>2, <2>4 DEF AccountIsTyped, FeedLogins
    <2> QED
        BY <1>3, <2>5 DEF AccountIInv
<1> QED
    BY <1>5, <1>6

\* Each step of the account socket and around it keeps the invariant.
LEMMA AccountStep == AccountIInv /\ (Account!Next \/ UNCHANGED accounts) => AccountIInv'
<1> SUFFICES ASSUME AccountIInv, Account!Next \/ UNCHANGED accounts PROVE AccountIInv'
    OBVIOUS
<1>1. CASE UNCHANGED accounts
    <2>1. /\ Account!FailedCondition' = Account!FailedCondition /\ Account!FindBaseCurrency' = Account!FindBaseCurrency
        BY <1>1 DEF accounts, Account!FailedCondition, Account!FindBaseCurrency
    <2>2. Account!CheckPaperAccount' = Account!CheckPaperAccount /\ CheckOfLogin' = CheckOfLogin
        BY <1>1, <2>1 DEF accounts, Account!CheckPaperAccount, Account!Disconnected, CheckOfLogin
    <2>3. AccountIsTyped /\ BuildIsRight(build)
        BY DEF AccountIInv
    <2>4. AccountIsTyped'
        BY <1>1, <2>2, <2>3 DEF accounts, AccountIsTyped, MonitorIsRight, IsBuild, FeedLogins, Account!Disconnected
    <2>5. BuildIsRight(build)'
        BY <1>1, <2>1, <2>2, <2>3 DEF accounts, BuildIsRight, IsBuild, RateIsRight, AsksInItsStep, PartsAreCurrent, IsPassed
    <2> QED
        BY <2>4, <2>5 DEF AccountIInv
<1>2. CASE Account!Next
    BY <1>2, StartBuildStep, GetRateStep, ReadStep, SendAccountStep, RecordFillsStep, OthersStep, OutsideStep
    DEF Account!Next
<1> QED
    BY <1>1, <1>2

\* The first state: no connection yet.
LEMMA AccountInit == Init => AccountIInv
<1> SUFFICES ASSUME Init PROVE AccountIInv
    OBVIOUS
<1>1. /\ account_login \in FeedLogins /\ session_number = 0 /\ is_up = FALSE /\ open_orders = 0 /\ fills = 0
      /\ recorded_fills = 0 /\ monitor = [number |-> 0, check |-> Account!Disconnected]
      /\ rate_reading = Account!NoReading /\ build = Account!NoBuild
    BY DEF Init, Account!Init
<1>2. MaxConnections \in Nat /\ MaxFills \in Nat
    BY MarketAssumption
<1> USE DEF Account!NoBuild, Account!NoBalance
<1>3. IsBuild(build)
    BY <1>1, <1>2 DEF IsBuild, BuildParts, BuildSteps
<1>4. RateIsRight(build) /\ AsksInItsStep(build) /\ PartsAreCurrent(build)
    BY <1>1 DEF RateIsRight, AsksInItsStep, PartsAreCurrent
<1>5. MonitorIsRight(monitor)
    BY <1>1 DEF MonitorIsRight, Account!Disconnected
<1>6. AccountIsTyped
    <2>1. rate_reading.number = 0
        BY <1>1 DEF Account!NoReading
    <2>2. session_number \in 0 .. MaxConnections /\ rate_reading.number \in 0 .. MaxConnections
        BY <1>1, <1>2, <2>1
    <2>3. /\ open_orders \in Nat /\ fills \in Nat /\ open_orders + fills <= MaxFills /\ recorded_fills \in 0 .. fills
        BY <1>1, <1>2
    <2> QED
        BY <1>1, <1>3, <1>5, <2>2, <2>3 DEF AccountIsTyped
<1> QED
    BY <1>3, <1>4, <1>6 DEF AccountIInv, BuildIsRight

\* What the invariant says of the messages.
LEMMA MessagesAreTrue ==
    AccountIInv => Account!FeedTypeOK /\ Account!QuietMessageIsCurrent /\ Account!BalanceHasItsRate
<1> SUFFICES ASSUME AccountIInv
             PROVE  Account!FeedTypeOK /\ Account!QuietMessageIsCurrent /\ Account!BalanceHasItsRate
    OBVIOUS
<1>1. AccountIsTyped /\ IsBuild(build) /\ RateIsRight(build) /\ AsksInItsStep(build) /\ PartsAreCurrent(build)
    BY DEF AccountIInv, BuildIsRight
<1>2. Account!FeedTypeOK
    <2>1. open_orders \in 0 .. MaxFills /\ fills \in 0 .. MaxFills
        BY <1>1, MarketAssumption DEF AccountIsTyped
    <2>2. monitor.number \in 0 .. MaxConnections
        BY <1>1, MarketAssumption DEF AccountIsTyped, MonitorIsRight
    <2> QED
        BY <1>1, <2>1, <2>2 DEF AccountIsTyped, MonitorIsRight, IsBuild, BuildSteps, Account!FeedTypeOK
<1>3. Account!QuietMessageIsCurrent
    BY <1>1 DEF PartsAreCurrent, IsPassed, Account!QuietMessageIsCurrent
<1>4. Account!BalanceHasItsRate
    BY <1>1 DEF RateIsRight, AsksInItsStep, Account!BalanceHasItsRate
<1> QED
    BY <1>2, <1>3, <1>4

-----------------------------------------------------------------------------
(* The change sockets of the pages, and LiveInv.                           *)

PageProofs == INSTANCE PageFeed_proofs WITH Pages <- ChangePages, Watched <- [p \in ChangePages |-> Tables],
    socket <- page_socket, shown <- page_rows

\* The change feed of this module is the one that PageFeed_proofs is about.
LEMMA PagesAreProved == (Feed!Init <=> PageProofs!Init) /\ (Feed!Next <=> PageProofs!Next)
<1> USE DEF Feed!page_vars, Feed!socket_vars, PageProofs!page_vars, PageProofs!socket_vars, Feed!NoRows,
            PageProofs!NoRows
<1>1. Feed!Init <=> PageProofs!Init
    BY DEF Feed!Init, PageProofs!Init
<1>2. Feed!Next <=> PageProofs!Next
    BY DEF
        Feed!Next, Feed!Change, Feed!ConnectionIsLost, Feed!LossIsSeen, Feed!SetSignals, Feed!Listen, Feed!Receive,
        Feed!ReadNow, Feed!OpenSocket, Feed!LoseSockets, Feed!CloseSocket, Feed!WebRestarts, Feed!WakePush,
        Feed!HeartbeatIsDue, Feed!SendMessage, Feed!GetChanged, Feed!ReadRows, Feed!ReadEnds, Feed!GetAnswer,
        Feed!ReadFails, Feed!PageStep, Feed!Fault,
        PageProofs!Next, PageProofs!Change, PageProofs!ConnectionIsLost, PageProofs!LossIsSeen,
        PageProofs!SetSignals, PageProofs!Listen, PageProofs!Receive, PageProofs!ReadNow, PageProofs!OpenSocket,
        PageProofs!LoseSockets, PageProofs!CloseSocket, PageProofs!WebRestarts, PageProofs!WakePush,
        PageProofs!HeartbeatIsDue, PageProofs!SendMessage, PageProofs!GetChanged, PageProofs!ReadRows,
        PageProofs!ReadEnds, PageProofs!GetAnswer, PageProofs!ReadFails, PageProofs!PageStep, PageProofs!Fault
<1> QED
    BY <1>1, <1>2

\* A step of another part changes nothing of the pages.
LEMMA PageSteps == [Next]_vars => [PageProofs!Next]_(PageProofs!vars)
<1> SUFFICES ASSUME [Next]_vars PROVE [PageProofs!Next]_(PageProofs!vars)
    OBVIOUS
<1>1. Feed!Next \/ UNCHANGED pages
    BY DEF Next, MarketStep, vars
<1>2. UNCHANGED pages => UNCHANGED PageProofs!vars
    BY DEF pages, PageProofs!vars, PageProofs!socket_vars, PageProofs!page_vars
<1> QED
    BY <1>1, <1>2, PagesAreProved

\* The invariant of the change feed, in each behavior of the composition.
LEMMA PageInvariant == Spec => []PageProofs!FeedInv
<1>1. [p \in ChangePages |-> Tables] \in [ChangePages -> SUBSET Tables]
    OBVIOUS
<1>2. Init => PageProofs!FeedInv
    BY PagesAreProved, PageProofs!FeedInit DEF Init
<1>3. PageProofs!FeedInv /\ [Next]_vars => PageProofs!FeedInv'
    BY <1>1, PageSteps, PageProofs!FeedInvStep
<1> QED
    BY <1>2, <1>3, PTL DEF Spec

\* LiveInv for every set of pages, instruments and tables and every bound: the streams are those that the pages follow,
\* within their limit, and no page keeps an old bar (live_daily_bars.py); a page with old rows has a read before it
\* (table_changes.py); a message of the account socket that nothing disturbed is the state of the account, and no
\* message has a rate of another login (account_socket.py).
THEOREM PagesAreConsistent == ASSUME IsFiniteSet(FirstMembers) PROVE Spec => []LiveInv
<1>1. Init => LiveIInv /\ AccountIInv
    BY LiveInit, AccountInit
<1>2. LiveIInv /\ AccountIInv /\ [Next]_vars => LiveIInv' /\ AccountIInv'
    <2>1. [Next]_vars => (Live!Next \/ UNCHANGED live) /\ (Account!Next \/ UNCHANGED accounts)
        BY DEF Next, MarketStep, vars, market
    <2> QED
        BY <2>1, LiveStep, AccountStep
<1>3. LiveIInv /\ AccountIInv /\ PageProofs!FeedInv => LiveInv
    <2>1. PageProofs!FeedInv => Feed!TypeOK /\ Feed!NoChangeIsLost
        BY DEF PageProofs!FeedInv, PageProofs!TypeOK, PageProofs!NoChangeIsLost, PageProofs!IsCurrent,
            PageProofs!ReadComes, Feed!TypeOK, Feed!NoChangeIsLost, Feed!IsCurrent, Feed!ReadComes
    <2> QED
        BY <2>1, LiveIsTrue, MessagesAreTrue DEF LiveInv
<1> QED
    BY <1>1, <1>2, <1>3, PageInvariant, PTL DEF Spec

-----------------------------------------------------------------------------
(* The bar store.                                                          *)

Steps == {"idle", "evidence", "read", "convert", "save", "summary", "upsert"}
StoreIsTyped ==
    /\ today \in 1 .. Days /\ lastUpdate \in 0 .. Days /\ stopped \in 0 .. Days
    /\ bars \in [1 .. Days -> {"none", "old", "new"}]
    /\ saved \subseteq 1 .. Days /\ split \in BOOLEAN /\ split_waiting \in 0 .. Days + 1 /\ summary \in 0 .. Days
    /\ lock \in Charts \cup {"free"}
    /\ job = [r \in Store!Readers |-> job[r]]
    /\ chartSaves \in [1 .. Days -> Nat]
    /\ connected \in BOOLEAN
ReadJob(r) ==
    /\ DOMAIN job[r] = {"at", "todo", "got", "form", "read"} /\ job[r].at \in Steps
    /\ job[r].todo \subseteq 1 .. today - 1 /\ job[r].todo \subseteq 1 .. Days /\ job[r].read \in 0 .. Days
    /\ job[r].got \subseteq 1 .. Days
    /\ job[r].at \in {"convert", "save"} => job[r].got = Store!FirstRange(job[r].todo) \ Holidays
    /\ job[r].at = "save" => job[r].form = [d \in job[r].got |-> Store!Convert(d)]
    /\ job[r].at \in {"idle", "summary", "upsert"} => job[r].todo = {}
    /\ job[r].at = "idle" => job[r] = Store!Idle
    /\ r = "update" => job[r].at # "evidence"

\* The fill lock lets one chart read, and the update reads alone.
ReadersAreAlone ==
    /\ \A c \in Charts : lock = c <=> job[c] # Store!Idle
    /\ job["update"] # Store!Idle => lock = "free"

\* What the saved ranges say.
RangesAreTrue ==
    /\ \A d \in saved : d < today /\ (d \in Holidays \/ bars[d] # "none")
    /\ \A d \in 1 .. Days : bars[d] # "none" => d < today
    /\ \A d \in 1 .. Days : chartSaves[d] <= 1 /\ (chartSaves[d] = 1 => d \in saved)
    /\ \A c \in Charts : job[c].todo \cap saved = {}

\* A reader that did not compare a stored day with IBKR yet.
IsBeforeEvidence(r) == job[r].at \in {"idle", "evidence"} \/ (r = "update" /\ job[r].at = "read")
\* Before the split of IBKR each bar has its own form. After it the stored bars are all in the old form until a reader
\* finds the evidence; then the split waits, with old bars before its day and new ones from it on, until the
\* confirmation makes all of them new.
FormsAreTrue ==
    /\ split => ExDate <= today
    /\ ~split => split_waiting = 0 /\ \A d \in Store!Stored : bars[d] = IF d >= ExDate THEN "new" ELSE "old"
    /\ split /\ split_waiting = 0 =>
        \/ \A d \in Store!Stored : bars[d] = "new"
        \/ /\ \A d \in Store!Stored : bars[d] = "old"
           /\ \A r \in Store!Readers : IsBeforeEvidence(r)
    /\ split /\ split_waiting # 0 =>
        /\ split_waiting - 1 \in Store!Stored
        /\ \A d \in Store!Stored : bars[d] = IF d < split_waiting THEN "old" ELSE "new"

StoreIInv ==
    /\ StoreIsTyped /\ (\A r \in Store!Readers : ReadJob(r))
    /\ ReadersAreAlone /\ RangesAreTrue /\ FormsAreTrue

\* The largest of some days.
LEMMA LargestOf ==
    ASSUME NEW n \in Nat, NEW S, S \subseteq 1 .. n, S # {}
    PROVE  Store!Max(S) \in S /\ \A d \in S : d <= Store!Max(S)
<1> DEFINE T == {k \in Nat : n - k \in S}
<1>1. T # {} /\ T \subseteq Nat
    <2>1. PICK d \in S : TRUE
        OBVIOUS
    <2>2. n - d \in Nat /\ n - (n - d) = d
        BY <2>1
    <2>3. n - d \in T
        BY <2>1, <2>2
    <2> QED
        BY <2>3
<1>2. PICK k \in T : \A m \in T : k <= m
    BY <1>1, SmallestOf
<1>3. n - k \in S
    BY <1>2
<1>4. ASSUME NEW d \in S PROVE d <= n - k
    <2>1. n - d \in Nat /\ n - (n - d) = d
        OBVIOUS
    <2>2. n - d \in T
        BY <2>1
    <2>3. k <= n - d /\ k \in Nat /\ d \in Nat
        BY <1>2, <2>2
    <2> QED
        BY <2>3
<1>5. \E x \in S : \A d \in S : x >= d
    <2>1. \A d \in S : n - k >= d
        BY <1>3, <1>4
    <2> QED
        BY <1>3, <2>1
<1>6. Store!Max(S) \in S /\ \A d \in S : Store!Max(S) >= d
    BY <1>5 DEF Store!Max
<1>7. \A d \in S : d \in Int
    OBVIOUS
<1> QED
    BY <1>6, <1>7

\* The last stored day.
LEMMA LastStoredIs ==
    ASSUME StoreIInv
    PROVE  /\ Store!Stored \subseteq 1 .. Days /\ Store!LastStored \in 0 .. Days
           /\ Store!Stored = {} => Store!LastStored = 0
           /\ Store!Stored # {} => Store!LastStored \in Store!Stored /\ \A d \in Store!Stored : d <= Store!LastStored
<1>1. Days \in Nat /\ Store!Stored \subseteq 1 .. Days
    BY MarketAssumption DEF Store!Stored, Store!Day
<1>2. CASE Store!Stored = {}
    BY <1>1, <1>2 DEF Store!LastStored
<1>3. CASE Store!Stored # {}
    <2>1. Store!LastStored = Store!Max(Store!Stored)
        BY <1>3 DEF Store!LastStored
    <2>2. Store!LastStored \in Store!Stored /\ \A d \in Store!Stored : d <= Store!LastStored
        BY <1>1, <1>3, <2>1, LargestOf
    <2> QED
        BY <1>1, <1>3, <2>2
<1> QED
    BY <1>2, <1>3

\* The comparison of the last stored day with IBKR gives the forms of all stored days.
LEMMA EvidenceIsTrue ==
    ASSUME StoreIInv
    PROVE  /\ Store!Evidence \in 0 .. Days + 1
           /\ ~split => Store!Evidence = 0
           /\ split /\ Store!Evidence = 0 => \A d \in Store!Stored : bars[d] = "new"
           /\ split /\ Store!Evidence # 0 =>
                /\ Store!Evidence - 1 \in Store!Stored
                /\ \A d \in Store!Stored : bars[d] = IF d < Store!Evidence THEN "old" ELSE "new"
<1> DEFINE lastDay == Store!LastStored
<1>1. /\ Days \in Nat /\ split_waiting \in 0 .. Days + 1 /\ split \in BOOLEAN /\ FormsAreTrue
      /\ Store!Stored \subseteq 1 .. Days /\ lastDay \in 0 .. Days
      /\ Store!Stored = {} => lastDay = 0
      /\ Store!Stored # {} => lastDay \in Store!Stored /\ \A d \in Store!Stored : d <= lastDay
    BY MarketAssumption, LastStoredIs DEF StoreIInv, StoreIsTyped
<1>2. lastDay # 0 => Store!Stored # {}
    BY <1>1
<1> HIDE DEF lastDay
<1> DEFINE found == lastDay # 0 /\ bars[lastDay] # Store!IbkrForm(lastDay) /\ split_waiting <= lastDay
<1>3. Store!Evidence = IF found THEN lastDay + 1 ELSE split_waiting
    BY DEF Store!Evidence, lastDay
<1>4. split => Store!IbkrForm(lastDay) = "new"
    BY DEF Store!IbkrForm
<1>5. ~split => ~found
    BY <1>1, <1>2 DEF FormsAreTrue, Store!IbkrForm
<1>6. CASE ~split
    BY <1>1, <1>3, <1>5, <1>6 DEF FormsAreTrue
<1>7. CASE split /\ split_waiting = 0
    <2>1. CASE \A d \in Store!Stored : bars[d] = "new"
        BY <1>1, <1>2, <1>3, <1>4, <1>7, <2>1
    <2>2. CASE (\A d \in Store!Stored : bars[d] = "old") /\ Store!Stored # {}
        <3>1. found
            BY <1>1, <1>4, <1>7, <2>2
        <3>2. Store!Evidence = lastDay + 1
            BY <1>3, <3>1
        <3>3. lastDay + 1 \in 0 .. Days + 1 /\ lastDay + 1 # 0 /\ (lastDay + 1) - 1 = lastDay
            BY <1>1
        <3>4. \A d \in Store!Stored : d < lastDay + 1
            BY <1>1
        <3> QED
            BY <1>1, <1>7, <2>2, <3>2, <3>3, <3>4
    <2> QED
        BY <1>1, <1>7, <2>1, <2>2 DEF FormsAreTrue
<1>8. CASE split /\ split_waiting # 0
    <2>1. /\ split_waiting - 1 \in Store!Stored
          /\ \A d \in Store!Stored : bars[d] = IF d < split_waiting THEN "old" ELSE "new"
        BY <1>1, <1>8 DEF FormsAreTrue
    <2>2. ~found
        <3>1. lastDay \in Store!Stored
            BY <1>1, <2>1
        <3> QED
            BY <1>1, <1>4, <1>8, <2>1, <3>1
    <2> QED
        BY <1>1, <1>3, <1>8, <2>1, <2>2
<1> QED
    BY <1>1, <1>6, <1>7, <1>8

\* A received bar gets the form that the stored bars have.
LEMMA ConvertIsTrue ==
    ASSUME StoreIInv, NEW d \in 1 .. Days
    PROVE  /\ ~split => Store!Convert(d) = IF d >= ExDate THEN "new" ELSE "old"
           /\ split /\ split_waiting = 0 => Store!Convert(d) = "new"
           /\ split /\ split_waiting # 0 => Store!Convert(d) = IF d < split_waiting THEN "old" ELSE "new"
<1>1. /\ Days \in Nat /\ split_waiting \in 0 .. Days + 1 /\ split \in BOOLEAN /\ FormsAreTrue
      /\ Store!Stored \subseteq 1 .. Days
    BY MarketAssumption, LastStoredIs DEF StoreIInv, StoreIsTyped
<1>2. CASE split_waiting = 0
    <2>1. ~(d < split_waiting)
        BY <1>2
    <2>2. Store!Convert(d) = Store!IbkrForm(d)
        BY <2>1 DEF Store!Convert
    <2> QED
        BY <1>1, <1>2, <2>2 DEF Store!IbkrForm
<1>3. CASE split_waiting # 0
    <2> DEFINE earlier == {e \in Store!Stored : e < split_waiting}
    <2>1. /\ split /\ split_waiting - 1 \in Store!Stored
          /\ \A e \in Store!Stored : bars[e] = IF e < split_waiting THEN "old" ELSE "new"
        BY <1>1, <1>3 DEF FormsAreTrue
    <2>2. split_waiting - 1 \in earlier /\ earlier \subseteq 1 .. Days
        <3>1. split_waiting - 1 < split_waiting
            BY <1>1
        <3> QED
            BY <1>1, <2>1, <3>1
    <2>3. Store!Max(earlier) \in earlier
        BY <1>1, <2>2, LargestOf
    <2>4. bars[Store!Max(earlier)] = "old"
        BY <2>1, <2>3
    <2>5. Store!Convert(d) = IF d < split_waiting THEN "old" ELSE Store!IbkrForm(d)
        BY <2>2, <2>4 DEF Store!Convert
    <2> QED
        BY <2>1, <2>5 DEF Store!IbkrForm
<1> QED
    BY <1>1, <1>2, <1>3 DEF FormsAreTrue

\* The chart requests are not the daily bar update, and none of them is the free lock.
LEMMA ChartsAreOthers == Days \in Nat /\ 1 <= Days /\ ExDate \in Nat /\ "update" \notin Charts /\ "free" \notin Charts
BY MarketAssumption

\* At one time one reader works.
LEMMA OneReaderWorks ==
    ASSUME StoreIInv, NEW r \in Store!Readers, job[r] # Store!Idle
    PROVE  /\ \A s \in Store!Readers \ {r} : job[s] = Store!Idle
           /\ lock = IF r = "update" THEN "free" ELSE r
<1>1. CASE r = "update"
    <2>1. lock = "free"
        BY <1>1 DEF StoreIInv, ReadersAreAlone
    <2>2. ASSUME NEW s \in Charts PROVE job[s] = Store!Idle
        BY <2>1, ChartsAreOthers DEF StoreIInv, ReadersAreAlone
    <2> QED
        BY <1>1, <2>1, <2>2 DEF Store!Readers, Store!Update
<1>2. CASE r \in Charts
    <2>1. lock = r /\ r # "free" /\ r # "update"
        BY <1>2, ChartsAreOthers DEF StoreIInv, ReadersAreAlone
    <2>2. job["update"] = Store!Idle
        BY <2>1 DEF StoreIInv, ReadersAreAlone
    <2>3. ASSUME NEW s \in Charts, s # r PROVE job[s] = Store!Idle
        BY <2>1, <2>3 DEF StoreIInv, ReadersAreAlone
    <2> QED
        BY <2>1, <2>2, <2>3 DEF Store!Readers, Store!Update
<1> QED
    BY <1>1, <1>2 DEF Store!Readers, Store!Update

\* An idle reader.
LEMMA IdleReader == ASSUME NEW r, job[r] = Store!Idle, Days \in Nat PROVE ReadJob(r) /\ job[r].at = "idle"
BY DEF ReadJob, Store!Idle, Steps

\* A reader that a step leaves idle has a good job.
LEMMA IdleReaderNext == ASSUME NEW r, job'[r] = Store!Idle, Days \in Nat PROVE ReadJob(r)' /\ job'[r].at = "idle"
BY DEF ReadJob, Store!Idle, Steps

\* A step of one reader while the others are idle.
LEMMA OneReaderSteps ==
    ASSUME StoreIInv, NEW r \in Store!Readers, NEW new, job' = [job EXCEPT ![r] = new],
           \A s \in Store!Readers \ {r} : job[s] = Store!Idle,
           lock' = IF new = Store!Idle \/ r = "update" THEN "free" ELSE r
    PROVE  /\ ReadersAreAlone' /\ lock' \in Charts \cup {"free"}
           /\ job'[r] = new /\ job' = [s \in Store!Readers |-> job'[s]]
           /\ \A s \in Store!Readers \ {r} : job'[s] = Store!Idle /\ ReadJob(s)'
<1>1. job' = [s \in Store!Readers |-> IF s = r THEN new ELSE job[s]]
    BY DEF StoreIInv, StoreIsTyped
<1>2. job'[r] = new /\ job' = [s \in Store!Readers |-> job'[s]]
    BY <1>1
<1>3. ASSUME NEW s \in Store!Readers, s # r PROVE job'[s] = Store!Idle /\ ReadJob(s)'
    BY <1>1, <1>3, IdleReaderNext, ChartsAreOthers
<1>4. r \in Charts \/ r = "update"
    BY DEF Store!Readers, Store!Update
<1>5. ASSUME NEW c \in Charts PROVE lock' = c <=> job'[c] # Store!Idle
    <2>1. c \in Store!Readers /\ c # "free" /\ c # "update"
        BY ChartsAreOthers DEF Store!Readers
    <2> QED
        BY <1>2, <1>3, <2>1
<1>6. job'["update"] # Store!Idle => lock' = "free"
    BY <1>2, <1>3 DEF Store!Readers, Store!Update
<1>7. ReadersAreAlone'
    BY <1>5, <1>6 DEF ReadersAreAlone, Store!Idle
<1> QED
    BY <1>2, <1>3, <1>4, <1>7

\* The forms of the stored bars while the bars do not change.
LEMMA FormsStay ==
    ASSUME FormsAreTrue, bars' = bars, split' = split, split_waiting' = split_waiting, today' >= today,
           today \in Int, today' \in Int, ExDate \in Nat,
           \A s \in Store!Readers : IsBeforeEvidence(s) => IsBeforeEvidence(s)'
    PROVE  FormsAreTrue'
<1>1. Store!Stored' = Store!Stored
    BY DEF Store!Stored
<1>2. split' => ExDate <= today'
    BY DEF FormsAreTrue
<1>3. ~split' => split_waiting' = 0 /\ \A d \in Store!Stored' : bars'[d] = IF d >= ExDate THEN "new" ELSE "old"
    BY <1>1 DEF FormsAreTrue
<1>4. split' /\ split_waiting' = 0 =>
        \/ \A d \in Store!Stored' : bars'[d] = "new"
        \/ /\ \A d \in Store!Stored' : bars'[d] = "old"
           /\ \A r \in Store!Readers : IsBeforeEvidence(r)'
    BY <1>1 DEF FormsAreTrue
<1>5. split' /\ split_waiting' # 0 =>
        /\ split_waiting' - 1 \in Store!Stored'
        /\ \A d \in Store!Stored' : bars'[d] = IF d < split_waiting' THEN "old" ELSE "new"
    BY <1>1 DEF FormsAreTrue
<1> QED
    BY <1>2, <1>3, <1>4, <1>5 DEF FormsAreTrue, Store!Readers, Store!Update

\* The stored forms stay true when the recorded evidence becomes what the bars
\* show.
LEMMA FormsAreFound ==
    ASSUME StoreIInv, bars' = bars, split' = split, split_waiting' = Store!Evidence, today' = today
    PROVE  FormsAreTrue' /\ split_waiting' \in 0 .. Days + 1
<1>1. Store!Stored' = Store!Stored
    BY DEF Store!Stored
<1>2. split' => ExDate <= today'
    BY DEF StoreIInv, FormsAreTrue
<1>3. ~split' => split_waiting' = 0 /\ \A d \in Store!Stored' : bars'[d] = IF d >= ExDate THEN "new" ELSE "old"
    BY <1>1, EvidenceIsTrue DEF StoreIInv, FormsAreTrue
<1>4. split' /\ split_waiting' = 0 => \A d \in Store!Stored' : bars'[d] = "new"
    BY <1>1, EvidenceIsTrue
<1>5. split' /\ split_waiting' # 0 =>
        /\ split_waiting' - 1 \in Store!Stored'
        /\ \A d \in Store!Stored' : bars'[d] = IF d < split_waiting' THEN "old" ELSE "new"
    BY <1>1, EvidenceIsTrue
<1>6. FormsAreTrue'
    BY <1>2, <1>3, <1>4, <1>5 DEF FormsAreTrue, Store!Readers, Store!Update
<1> QED
    BY <1>6, EvidenceIsTrue

\* A request of a chart keeps the store invariant.
LEMMA RequestChartStep == ASSUME StoreIInv, NEW c \in Charts, Store!RequestChart(c) PROVE StoreIInv'
<1>1. PICK first \in 1 .. today - 1, last \in 1 .. today - 1 :
        job' = [job EXCEPT ![c] = [Store!Idle EXCEPT !.at = "evidence", !.todo = first .. last \ saved]]
    BY DEF Store!RequestChart
<1> DEFINE missing == first .. last \ saved
           new == [Store!Idle EXCEPT !.at = "evidence", !.todo = missing]
<1>2. /\ lock = "free" /\ lock' = c /\ job["update"] = Store!Idle
      /\ UNCHANGED <<today, split, chartSaves, bars, saved, split_waiting, summary, connected, drops, lastUpdate,
                     stopped>>
    BY DEF Store!RequestChart, Store!Quiet, Store!Update, Store!store, Store!link, Store!schedule
<1>3. c \in Store!Readers /\ c # "update" /\ c # "free" /\ today \in 1 .. Days /\ Days \in Nat
    BY ChartsAreOthers DEF Store!Readers, StoreIInv, StoreIsTyped
<1>4. /\ job' = [job EXCEPT ![c] = new] /\ new.at = "evidence" /\ new.todo = missing /\ new.got = {} /\ new.read = 0
      /\ DOMAIN new = {"at", "todo", "got", "form", "read"} /\ new # Store!Idle
    BY <1>1 DEF Store!Idle
<1>5. ASSUME NEW s \in Store!Readers PROVE job[s] = Store!Idle
    BY <1>2, ChartsAreOthers DEF StoreIInv, ReadersAreAlone, Store!Readers, Store!Update
<1>6. missing \subseteq 1 .. today - 1 /\ missing \subseteq 1 .. Days /\ missing \cap saved = {}
    BY <1>3
<1> HIDE DEF missing, new
<1>7. /\ ReadersAreAlone' /\ lock' \in Charts \cup {"free"}
      /\ job'[c] = new /\ job' = [s \in Store!Readers |-> job'[s]]
      /\ \A s \in Store!Readers \ {c} : job'[s] = Store!Idle /\ ReadJob(s)'
    BY <1>2, <1>3, <1>4, <1>5, OneReaderSteps
<1>8. ReadJob(c)'
    BY <1>2, <1>3, <1>4, <1>6, <1>7 DEF ReadJob, Steps
<1>9. StoreIsTyped'
    BY <1>2, <1>7 DEF StoreIInv, StoreIsTyped, Store!Readers, Store!Update
<1>10. RangesAreTrue'
    BY <1>2, <1>3, <1>4, <1>6, <1>7 DEF StoreIInv, RangesAreTrue, Store!Idle, Store!Readers
<1>11. FormsAreTrue'
    <2>1. ASSUME NEW s \in Store!Readers PROVE IsBeforeEvidence(s)'
        BY <1>4, <1>7 DEF IsBeforeEvidence, Store!Idle
    <2> QED
        BY <1>2, <1>3, <2>1, ChartsAreOthers, FormsStay DEF StoreIInv
<1> QED
    BY <1>7, <1>8, <1>9, <1>10, <1>11 DEF StoreIInv, Store!Readers, Store!Update

\* The state of a reader after a step that keeps the days and the bars.
ReaderStepKeeps(r, new) ==
    /\ job' = [job EXCEPT ![r] = new]
    /\ DOMAIN new = {"at", "todo", "got", "form", "read"}
    /\ UNCHANGED <<today, bars, saved, split, chartSaves>>
    /\ connected' \in BOOLEAN /\ lastUpdate' \in 0 .. Days /\ stopped' \in 0 .. Days /\ summary' \in 0 .. Days
    /\ new.todo = {} \/ new.todo = job[r].todo

\* A step of one reader that saves nothing keeps the store invariant.
LEMMA ReaderStep ==
    ASSUME StoreIInv, NEW r \in Store!Readers, job[r] # Store!Idle, NEW new, ReaderStepKeeps(r, new),
           lock' = IF new = Store!Idle THEN IF lock = r THEN "free" ELSE lock ELSE lock,
           FormsAreTrue' /\ split_waiting' \in 0 .. Days + 1, job'[r] = new => ReadJob(r)'
    PROVE  StoreIInv'
<1> USE DEF ReaderStepKeeps
<1>1. /\ (\A s \in Store!Readers \ {r} : job[s] = Store!Idle)
      /\ lock = IF r = "update" THEN "free" ELSE r
    BY OneReaderWorks
<1>2. today \in 1 .. Days /\ Days \in Nat /\ "free" \notin Charts /\ "update" \notin Charts
    BY ChartsAreOthers DEF StoreIInv, StoreIsTyped
<1>3. lock' = IF new = Store!Idle \/ r = "update" THEN "free" ELSE r
    BY <1>1, <1>2
<1>4. /\ ReadersAreAlone' /\ lock' \in Charts \cup {"free"}
      /\ job'[r] = new /\ job' = [s \in Store!Readers |-> job'[s]]
      /\ \A s \in Store!Readers \ {r} : job'[s] = Store!Idle /\ ReadJob(s)'
    BY <1>1, <1>3, OneReaderSteps
<1>5. StoreIsTyped'
    BY <1>4 DEF StoreIInv, StoreIsTyped, Store!Readers, Store!Update
<1>6. RangesAreTrue'
    <2>1. ASSUME NEW s \in Charts PROVE job'[s].todo \cap saved' = {}
        <3>1. CASE s = r
            BY <1>4, <3>1 DEF StoreIInv, RangesAreTrue
        <3>2. CASE s # r
            BY <1>4, <3>2 DEF Store!Idle, Store!Readers
        <3> QED
            BY <3>1, <3>2
    <2> QED
        BY <2>1 DEF StoreIInv, RangesAreTrue
<1> QED
    BY <1>4, <1>5, <1>6 DEF StoreIInv, Store!Readers, Store!Update

\* Facts of a reader that works.
LEMMA WorkingReader ==
    ASSUME StoreIInv, NEW r \in Store!Readers, job[r].at # "idle"
    PROVE  /\ job[r] # Store!Idle /\ DOMAIN job[r] = {"at", "todo", "got", "form", "read"} /\ ReadJob(r)
           /\ today \in 1 .. Days /\ Days \in Nat /\ lastUpdate \in 0 .. Days /\ stopped \in 0 .. Days
           /\ connected \in BOOLEAN /\ summary \in 0 .. Days /\ split_waiting \in 0 .. Days + 1
           /\ FormsAreTrue /\ r \in DOMAIN job
BY ChartsAreOthers DEF Store!Idle, StoreIInv, ReadJob, StoreIsTyped

\* A step that a reader does after the comparison, while the stored bars stay, keeps what they have for forms.
LEMMA LaterStepKeepsForms ==
    ASSUME StoreIInv, NEW r \in Store!Readers, NEW new, job' = [job EXCEPT ![r] = new],
           ~IsBeforeEvidence(r) \/ new.at = "idle",
           UNCHANGED <<today, bars, split, split_waiting>>
    PROVE  FormsAreTrue'
<1>1. r \in DOMAIN job /\ today \in Int /\ ExDate \in Nat
    BY ChartsAreOthers DEF StoreIInv, StoreIsTyped
<1>2. ASSUME NEW s \in Store!Readers, IsBeforeEvidence(s) PROVE IsBeforeEvidence(s)'
    <2>1. CASE s = r
        BY <1>1, <1>2, <2>1 DEF IsBeforeEvidence
    <2>2. CASE s # r
        BY <1>1, <1>2, <2>2 DEF IsBeforeEvidence
    <2> QED
        BY <2>1, <2>2
<1>3. FormsAreTrue /\ today' >= today /\ today' \in Int
    BY <1>1 DEF StoreIInv
<1> QED
    BY <1>1, <1>2, <1>3, FormsStay

\* Reading a range from IBKR keeps the store invariant.
LEMMA ReadFromIbkrStep == ASSUME StoreIInv, NEW r \in Store!Readers, Store!ReadFromIbkr(r) PROVE StoreIInv'
<1> DEFINE part_ == Store!FirstRange(job[r].todo) \ Holidays
           new == [job[r] EXCEPT !.at = "convert", !.got = part_]
<1>1. /\ job' = [job EXCEPT ![r].at = "convert", ![r].got = part_] /\ job[r].at = "read"
      /\ split_waiting' = IF r = "update" THEN Store!Evidence ELSE split_waiting
      /\ UNCHANGED <<today, bars, saved, summary, split, lock, chartSaves, connected, drops, lastUpdate, stopped>>
    BY DEF Store!ReadFromIbkr, Store!link, Store!schedule, Store!Update
<1>2. /\ job[r] # Store!Idle /\ DOMAIN job[r] = {"at", "todo", "got", "form", "read"} /\ ReadJob(r)
      /\ today \in 1 .. Days /\ Days \in Nat /\ lastUpdate \in 0 .. Days /\ stopped \in 0 .. Days
      /\ connected \in BOOLEAN /\ summary \in 0 .. Days /\ split_waiting \in 0 .. Days + 1
      /\ FormsAreTrue /\ r \in DOMAIN job
    BY <1>1, WorkingReader
<1>3. part_ \subseteq job[r].todo
    BY DEF Store!FirstRange
<1>4. /\ new.at = "convert" /\ new.todo = job[r].todo /\ new.got = part_ /\ new.read = job[r].read
      /\ DOMAIN new = {"at", "todo", "got", "form", "read"}
    BY <1>2
<1>5. job' = [job EXCEPT ![r] = new]
    BY <1>1, <1>2
<1> HIDE DEF new
<1>6. new # Store!Idle
    BY <1>4 DEF Store!Idle
<1>7. job'[r] = new => ReadJob(r)'
    <2> SUFFICES ASSUME job'[r] = new PROVE ReadJob(r)'
        OBVIOUS
    <2>1. part_ \subseteq 1 .. Days
        BY <1>2, <1>3 DEF ReadJob
    <2> QED
        BY <1>1, <1>2, <1>4, <1>6, <2>1 DEF ReadJob, Steps, Store!FirstRange
<1>8. FormsAreTrue' /\ split_waiting' \in 0 .. Days + 1
    <2>1. CASE r = "update"
        BY <1>1, <2>1, FormsAreFound
    <2>2. CASE r # "update"
        <3>1. ~IsBeforeEvidence(r)
            BY <1>1, <2>2 DEF IsBeforeEvidence
        <3>2. UNCHANGED <<today, bars, split, split_waiting>>
            BY <1>1, <2>2
        <3> QED
            BY <1>2, <1>5, <3>1, <3>2, LaterStepKeepsForms
    <2> QED
        BY <2>1, <2>2
<1>9. ReaderStepKeeps(r, new)
    BY <1>1, <1>2, <1>4, <1>5 DEF ReaderStepKeeps
<1> QED
    BY <1>1, <1>2, <1>6, <1>7, <1>8, <1>9, ReaderStep

\* The evidence check of a chart keeps the store invariant.
LEMMA CheckEvidenceStep == ASSUME StoreIInv, NEW c \in Charts, Store!CheckEvidence(c) PROVE StoreIInv'
<1> DEFINE new == [job[c] EXCEPT !.at = "read"]
<1>1. /\ job' = [job EXCEPT ![c].at = "read"] /\ job[c].at = "evidence" /\ split_waiting' = Store!Evidence
      /\ UNCHANGED <<today, bars, saved, summary, split, lock, chartSaves, connected, drops, lastUpdate, stopped>>
      /\ c \in Store!Readers
    BY DEF Store!CheckEvidence, Store!link, Store!schedule, Store!Readers
<1>2. /\ job[c] # Store!Idle /\ DOMAIN job[c] = {"at", "todo", "got", "form", "read"} /\ ReadJob(c)
      /\ today \in 1 .. Days /\ Days \in Nat /\ lastUpdate \in 0 .. Days /\ stopped \in 0 .. Days
      /\ connected \in BOOLEAN /\ summary \in 0 .. Days /\ split_waiting \in 0 .. Days + 1
      /\ FormsAreTrue /\ c \in DOMAIN job
    BY <1>1, WorkingReader
<1>3. /\ new.at = "read" /\ new.todo = job[c].todo /\ new.got = job[c].got /\ new.read = job[c].read
      /\ DOMAIN new = {"at", "todo", "got", "form", "read"}
    BY <1>2
<1>4. job' = [job EXCEPT ![c] = new]
    BY <1>1, <1>2
<1> HIDE DEF new
<1>5. new # Store!Idle
    BY <1>3 DEF Store!Idle
<1>6. job'[c] = new => ReadJob(c)'
    BY <1>1, <1>2, <1>3, <1>5 DEF ReadJob, Steps
<1>7. FormsAreTrue' /\ split_waiting' \in 0 .. Days + 1
    BY <1>1, FormsAreFound
<1>8. ReaderStepKeeps(c, new)
    BY <1>1, <1>2, <1>3, <1>4 DEF ReaderStepKeeps
<1> QED
    BY <1>1, <1>2, <1>5, <1>6, <1>7, <1>8, ReaderStep

\* Converting the bars read to the stored form keeps the store invariant.
LEMMA ToStoredFormStep == ASSUME StoreIInv, NEW r \in Store!Readers, Store!ToStoredForm(r) PROVE StoreIInv'
<1> DEFINE form_ == [d \in job[r].got |-> Store!Convert(d)]
           new == [job[r] EXCEPT !.at = "save", !.form = form_]
<1>1. /\ job' = [job EXCEPT ![r].at = "save", ![r].form = form_] /\ job[r].at = "convert"
      /\ UNCHANGED <<today, bars, saved, split, split_waiting, summary, lock, chartSaves, connected, drops, lastUpdate,
                     stopped>>
    BY DEF Store!ToStoredForm, Store!link, Store!schedule, Store!store
<1>2. /\ job[r] # Store!Idle /\ DOMAIN job[r] = {"at", "todo", "got", "form", "read"} /\ ReadJob(r)
      /\ today \in 1 .. Days /\ Days \in Nat /\ lastUpdate \in 0 .. Days /\ stopped \in 0 .. Days
      /\ connected \in BOOLEAN /\ summary \in 0 .. Days /\ split_waiting \in 0 .. Days + 1
      /\ FormsAreTrue /\ r \in DOMAIN job
    BY <1>1, WorkingReader
<1>3. /\ new.at = "save" /\ new.todo = job[r].todo /\ new.got = job[r].got /\ new.read = job[r].read
      /\ new.form = form_ /\ DOMAIN new = {"at", "todo", "got", "form", "read"}
    BY <1>2
<1>4. job' = [job EXCEPT ![r] = new]
    BY <1>1, <1>2
<1>5. \A d : Store!Convert(d)' = Store!Convert(d)
    BY <1>1 DEF Store!Convert, Store!IbkrForm, Store!Stored
<1> HIDE DEF new
<1>6. new # Store!Idle
    BY <1>3 DEF Store!Idle
<1>7. job'[r] = new => ReadJob(r)'
    BY <1>1, <1>2, <1>3, <1>5, <1>6 DEF ReadJob, Steps, Store!FirstRange
<1>8. FormsAreTrue'
    <2>1. ~IsBeforeEvidence(r)
        BY <1>1 DEF IsBeforeEvidence
    <2> QED
        BY <1>1, <1>4, <2>1, LaterStepKeepsForms
<1>9. ReaderStepKeeps(r, new)
    BY <1>1, <1>2, <1>3, <1>4 DEF ReaderStepKeeps
<1> QED
    BY <1>1, <1>2, <1>6, <1>7, <1>8, <1>9, ReaderStep

\* Reading the last stored bars keeps the store invariant.
LEMMA ReadLastBarsStep == ASSUME StoreIInv, NEW r \in Store!Readers, Store!ReadLastBars(r) PROVE StoreIInv'
<1> DEFINE new == [job[r] EXCEPT !.at = "upsert", !.read = Store!LastStored]
<1>1. /\ job' = [job EXCEPT ![r].at = "upsert", ![r].read = Store!LastStored] /\ job[r].at = "summary"
      /\ UNCHANGED <<today, bars, saved, split, split_waiting, summary, lock, chartSaves, connected, drops, lastUpdate,
                     stopped>>
    BY DEF Store!ReadLastBars, Store!link, Store!schedule, Store!store
<1>2. /\ job[r] # Store!Idle /\ DOMAIN job[r] = {"at", "todo", "got", "form", "read"} /\ ReadJob(r)
      /\ today \in 1 .. Days /\ Days \in Nat /\ lastUpdate \in 0 .. Days /\ stopped \in 0 .. Days
      /\ connected \in BOOLEAN /\ summary \in 0 .. Days /\ split_waiting \in 0 .. Days + 1
      /\ FormsAreTrue /\ r \in DOMAIN job
    BY <1>1, WorkingReader
<1>3. /\ new.at = "upsert" /\ new.todo = job[r].todo /\ new.got = job[r].got /\ new.read = Store!LastStored
      /\ DOMAIN new = {"at", "todo", "got", "form", "read"}
    BY <1>2
<1>4. job' = [job EXCEPT ![r] = new]
    BY <1>1, <1>2
<1> HIDE DEF new
<1>5. new # Store!Idle
    BY <1>3 DEF Store!Idle
<1>6. job'[r] = new => ReadJob(r)'
    <2>1. Store!LastStored \in 0 .. Days
        BY LastStoredIs
    <2> QED
        BY <1>1, <1>2, <1>3, <1>5, <2>1 DEF ReadJob, Steps
<1>7. FormsAreTrue'
    <2>1. ~IsBeforeEvidence(r)
        BY <1>1 DEF IsBeforeEvidence
    <2> QED
        BY <1>1, <1>4, <2>1, LaterStepKeepsForms
<1>8. ReaderStepKeeps(r, new)
    BY <1>1, <1>2, <1>3, <1>4 DEF ReaderStepKeeps
<1> QED
    BY <1>1, <1>2, <1>5, <1>6, <1>7, <1>8, ReaderStep

\* The end of a read. A chart also ends at a lost connection, and the update stops.
LEMMA ReadEnds ==
    ASSUME StoreIInv, NEW r \in Store!Readers, job[r].at # "idle", job' = [job EXCEPT ![r] = Store!Idle],
           lock' = IF lock = r THEN "free" ELSE lock,
           UNCHANGED <<today, bars, saved, split, split_waiting, chartSaves, connected>>,
           lastUpdate' \in {0, lastUpdate}, stopped' \in {stopped, today}, summary' \in {summary, job[r].read}
    PROVE  StoreIInv'
<1>1. /\ job[r] # Store!Idle /\ ReadJob(r)
      /\ today \in 1 .. Days /\ Days \in Nat /\ lastUpdate \in 0 .. Days /\ stopped \in 0 .. Days
      /\ connected \in BOOLEAN /\ summary \in 0 .. Days /\ split_waiting \in 0 .. Days + 1
      /\ r \in DOMAIN job
    BY WorkingReader
<1>2. job'[r] = Store!Idle => ReadJob(r)'
    BY <1>1, IdleReaderNext
<1>3. Store!Idle.at = "idle" /\ Store!Idle.todo = {} /\ DOMAIN Store!Idle = {"at", "todo", "got", "form", "read"}
    BY DEF Store!Idle
<1>4. FormsAreTrue'
    BY <1>1, <1>3, LaterStepKeepsForms
<1>5. ReaderStepKeeps(r, Store!Idle)
    <2>1. summary' \in 0 .. Days /\ stopped' \in 0 .. Days /\ lastUpdate' \in 0 .. Days
        BY <1>1 DEF ReadJob
    <2> QED
        BY <1>1, <1>3, <2>1 DEF ReaderStepKeeps
<1> QED
    BY <1>1, <1>2, <1>4, <1>5, ReaderStep

\* The steps that end a job keep the store invariant.
LEMMA EndSteps ==
    ASSUME StoreIInv,
           \/ \E r \in Store!Readers : Store!WriteSummary(r)
           \/ \E c \in Charts : Store!ChartFails(c)
           \/ Store!UpdateStops
    PROVE  StoreIInv'
<1>1. ASSUME NEW r \in Store!Readers, Store!WriteSummary(r) PROVE StoreIInv'
    BY <1>1, ReadEnds DEF Store!WriteSummary, Store!link, Store!schedule
<1>2. ASSUME NEW c \in Charts, Store!ChartFails(c) PROVE StoreIInv'
    <2>1. c \in Store!Readers /\ job[c].at # "idle"
        BY <1>2 DEF Store!ChartFails, Store!Readers
    <2> QED
        BY <1>2, <2>1, ReadEnds DEF Store!ChartFails, Store!link, Store!schedule, Store!store
<1>3. ASSUME Store!UpdateStops PROVE StoreIInv'
    <2>1. "update" \in Store!Readers /\ job["update"].at = "read" /\ lock # "update"
        BY <1>3, ChartsAreOthers DEF Store!UpdateStops, Store!Readers, Store!Update, StoreIInv, StoreIsTyped
    <2> QED
        BY <1>3, <2>1, ReadEnds DEF Store!UpdateStops, Store!link, Store!store, Store!Update
<1> QED
    BY <1>1, <1>2, <1>3

\* The start of the daily update keeps the store invariant.
LEMMA StartUpdateStep == ASSUME StoreIInv, Store!StartUpdate PROVE StoreIInv'
<1> DEFINE start == IF Store!Stored = {} THEN 1 ELSE Store!LastStored
           new == [Store!Idle EXCEPT !.at = "read", !.todo = start .. today - 1]
<1>1. /\ job["update"] = Store!Idle /\ \A c \in Charts : job[c] = Store!Idle
      /\ lastUpdate' = today
      /\ job' = IF connected /\ start < today THEN [job EXCEPT !["update"] = new] ELSE job
      /\ UNCHANGED <<today, bars, saved, split, split_waiting, summary, lock, chartSaves, stopped, connected, drops>>
    BY DEF Store!StartUpdate, Store!Quiet, Store!store, Store!link, Store!Update
<1>2. /\ new.at = "read" /\ new.todo = start .. today - 1 /\ new.got = {} /\ new.read = 0
      /\ DOMAIN new = {"at", "todo", "got", "form", "read"}
    BY DEF Store!Idle
<1>3. start \in 1 .. Days /\ today \in 1 .. Days /\ Days \in Nat
    BY LastStoredIs, ChartsAreOthers DEF StoreIInv, StoreIsTyped
<1>4. start .. today - 1 \subseteq 1 .. today - 1 /\ start .. today - 1 \subseteq 1 .. Days
    BY <1>3
<1>5. "update" \in Store!Readers /\ \A s \in Store!Readers : job[s] = Store!Idle
    BY <1>1 DEF Store!Readers, Store!Update
<1> HIDE DEF new, start
<1>6. new # Store!Idle
    BY <1>2 DEF Store!Idle
<1>7. lock = "free"
    <2>1. ASSUME lock \in Charts PROVE FALSE
        BY <1>1, <2>1 DEF StoreIInv, ReadersAreAlone
    <2> QED
        BY <2>1 DEF StoreIInv, StoreIsTyped
<1>8. CASE job' = [job EXCEPT !["update"] = new]
    <2>1. /\ ReadersAreAlone' /\ lock' \in Charts \cup {"free"}
          /\ job'["update"] = new /\ job' = [s \in Store!Readers |-> job'[s]]
          /\ \A s \in Store!Readers \ {"update"} : job'[s] = Store!Idle /\ ReadJob(s)'
        BY <1>1, <1>5, <1>7, <1>8, OneReaderSteps
    <2>2. ReadJob("update")'
        BY <1>1, <1>2, <1>3, <1>4, <1>6, <2>1 DEF ReadJob, Steps
    <2>3. StoreIsTyped'
        BY <1>1, <1>3, <2>1 DEF StoreIInv, StoreIsTyped, Store!Readers, Store!Update
    <2>4. RangesAreTrue'
        <3>1. ASSUME NEW s \in Charts PROVE job'[s].todo \cap saved' = {}
            BY <2>1, ChartsAreOthers DEF Store!Idle, Store!Readers
        <3> QED
            BY <1>1, <3>1 DEF StoreIInv, RangesAreTrue
    <2>5. FormsAreTrue'
        <3>1. ASSUME NEW s \in Store!Readers PROVE IsBeforeEvidence(s)'
            BY <1>2, <2>1 DEF IsBeforeEvidence, Store!Idle
        <3> QED
            BY <1>1, <1>3, <3>1, ChartsAreOthers, FormsStay DEF StoreIInv
    <2> QED
        BY <2>1, <2>2, <2>3, <2>4, <2>5 DEF StoreIInv, Store!Readers, Store!Update
<1>9. CASE job' = job
    <2>1. ASSUME NEW s \in Store!Readers PROVE job'[s] = Store!Idle /\ ReadJob(s)'
        BY <1>3, <1>5, <1>9, IdleReaderNext
    <2>2. StoreIsTyped' /\ ReadersAreAlone' /\ RangesAreTrue'
        <3>1. StoreIsTyped'
            <4>1. job' = [r \in Store!Readers |-> job'[r]]
                BY <1>9 DEF StoreIInv, StoreIsTyped, Store!Readers, Store!Update
            <4>2. chartSaves' \in [1 .. Days -> Nat] /\ bars' \in [1 .. Days -> {"none", "old", "new"}]
                BY <1>1 DEF StoreIInv, StoreIsTyped
            <4>3. today' \in 1 .. Days /\ lastUpdate' \in 0 .. Days
                BY <1>1, <1>3
            <4> QED
                BY <1>1, <1>3, <4>1, <4>2, <4>3 DEF StoreIInv, StoreIsTyped, Store!Readers, Store!Update
        <3>2. ReadersAreAlone'
            BY <1>1, <1>9 DEF StoreIInv, ReadersAreAlone, Store!Idle
        <3>3. RangesAreTrue'
            BY <1>1, <1>9 DEF StoreIInv, RangesAreTrue
        <3> QED
            BY <3>1, <3>2, <3>3
    <2>3. FormsAreTrue'
        <3>1. ASSUME NEW s \in Store!Readers PROVE IsBeforeEvidence(s)'
            BY <2>1 DEF IsBeforeEvidence, Store!Idle
        <3> QED
            BY <1>1, <1>3, <3>1, ChartsAreOthers, FormsStay DEF StoreIInv
    <2> QED
        BY <2>1, <2>2, <2>3 DEF StoreIInv, Store!Readers, Store!Update
<1> QED
    BY <1>1, <1>8, <1>9

\* Saving one range with its bars keeps the store invariant: saved ranges are
\* true and have one form.
LEMMA SaveStep == ASSUME StoreIInv, NEW r \in Store!Readers, Store!Save(r) PROVE StoreIInv'
<1> DEFINE saving == Store!FirstRange(job[r].todo)
           rest == job[r].todo \ saving
           new == [Store!Idle EXCEPT !.at = IF rest = {} THEN "summary" ELSE "read", !.todo = rest]
           form_ == [d \in job[r].got |-> Store!Convert(d)]
<1>1. /\ job[r].at = "save" /\ saved' = saved \cup saving /\ job' = [job EXCEPT ![r] = new]
      /\ bars' = [d \in 1 .. Days |-> IF d \in job[r].got THEN job[r].form[d] ELSE bars[d]]
      /\ chartSaves' = [d \in 1 .. Days |->
            IF r # "update" /\ d \in saving THEN chartSaves[d] + 1 ELSE chartSaves[d]]
      /\ UNCHANGED <<today, split, split_waiting, summary, lock, lastUpdate, stopped, connected, drops>>
    BY DEF Store!Save, Store!RangeToSave, Store!Day, Store!link, Store!schedule, Store!Update
<1>2. /\ job[r] # Store!Idle /\ ReadJob(r)
      /\ today \in 1 .. Days /\ Days \in Nat /\ split_waiting \in 0 .. Days + 1
      /\ FormsAreTrue /\ r \in DOMAIN job
    BY <1>1, WorkingReader
<1>3. /\ (new.at = "summary" /\ rest = {}) \/ new.at = "read"
      /\ new.todo = rest /\ new.got = {} /\ new.read = 0
      /\ DOMAIN new = {"at", "todo", "got", "form", "read"}
    BY DEF Store!Idle
<1>4. /\ job[r].got = saving \ Holidays /\ job[r].form = form_ /\ job[r].got \subseteq 1 .. Days
      /\ job[r].todo \subseteq 1 .. today - 1 /\ job[r].todo \subseteq 1 .. Days
    BY <1>1, <1>2 DEF ReadJob
<1>5. saving \subseteq job[r].todo
    BY DEF Store!FirstRange
<1> HIDE DEF new, saving
<1>6. new # Store!Idle /\ new.at # "idle" /\ new.at # "evidence"
    BY <1>3 DEF Store!Idle
<1>7. (\A s \in Store!Readers \ {r} : job[s] = Store!Idle) /\ lock = IF r = "update" THEN "free" ELSE r
    BY <1>2, OneReaderWorks
<1>8. /\ ReadersAreAlone' /\ lock' \in Charts \cup {"free"}
      /\ job'[r] = new /\ job' = [s \in Store!Readers |-> job'[s]]
      /\ \A s \in Store!Readers \ {r} : job'[s] = Store!Idle /\ ReadJob(s)'
    BY <1>1, <1>6, <1>7, OneReaderSteps
<1>9. ReadJob(r)'
    <2>1. rest \subseteq 1 .. today - 1 /\ rest \subseteq 1 .. Days
        BY <1>4
    <2> HIDE DEF rest
    <2> QED
        BY <1>1, <1>2, <1>3, <1>6, <1>8, <2>1 DEF ReadJob, Steps
<1>10. ASSUME NEW d \in 1 .. Days
       PROVE  /\ d \in job[r].got => bars'[d] = Store!Convert(d) /\ Store!Convert(d) \in {"old", "new"}
              /\ d \notin job[r].got => bars'[d] = bars[d]
    <2>1. Store!Convert(d) \in {"old", "new"}
        BY ConvertIsTrue DEF StoreIInv, StoreIsTyped
    <2> QED
        BY <1>1, <1>4, <2>1
<1>11. StoreIsTyped'
    <2>1. bars' \in [1 .. Days -> {"none", "old", "new"}]
        BY <1>1, <1>10 DEF StoreIInv, StoreIsTyped
    <2>2. chartSaves' \in [1 .. Days -> Nat]
        BY <1>1 DEF StoreIInv, StoreIsTyped
    <2>3. saved' \subseteq 1 .. Days
        BY <1>1, <1>4, <1>5 DEF StoreIInv, StoreIsTyped
    <2> QED
        BY <1>1, <1>8, <2>1, <2>2, <2>3 DEF StoreIInv, StoreIsTyped, Store!Readers, Store!Update
<1>12. RangesAreTrue'
    <2>1. ASSUME NEW d \in saved' PROVE d < today' /\ (d \in Holidays \/ bars'[d] # "none")
        <3>1. CASE d \in saving
            BY <1>1, <1>2, <1>4, <1>5, <1>10, <3>1
        <3>2. CASE d \in saved
            BY <1>1, <1>10, <3>2 DEF StoreIInv, StoreIsTyped, RangesAreTrue
        <3> QED
            BY <1>1, <3>1, <3>2
    <2>2. ASSUME NEW d \in 1 .. Days, bars'[d] # "none" PROVE d < today'
        <3>1. CASE d \in job[r].got
            BY <1>1, <1>2, <1>4, <1>5, <3>1
        <3>2. CASE d \notin job[r].got
            BY <1>1, <1>10, <2>2, <3>2 DEF StoreIInv, RangesAreTrue
        <3> QED
            BY <3>1, <3>2
    <2>3. ASSUME NEW d \in 1 .. Days PROVE chartSaves'[d] <= 1 /\ (chartSaves'[d] = 1 => d \in saved')
        <3>1. chartSaves[d] \in Nat /\ chartSaves[d] <= 1 /\ (chartSaves[d] = 1 => d \in saved)
            BY DEF StoreIInv, StoreIsTyped, RangesAreTrue
        <3>2. CASE r # "update" /\ d \in saving
            <4>1. d \notin saved
                BY <1>5, <3>2 DEF StoreIInv, RangesAreTrue, Store!Readers, Store!Update
            <4> QED
                BY <1>1, <3>1, <3>2, <4>1
        <3>3. CASE ~(r # "update" /\ d \in saving)
            BY <1>1, <3>1, <3>3
        <3> QED
            BY <3>2, <3>3
    <2>4. ASSUME NEW s \in Charts PROVE job'[s].todo \cap saved' = {}
        <3>1. CASE s = r
            BY <1>1, <1>3, <1>8, <3>1 DEF StoreIInv, RangesAreTrue
        <3>2. CASE s # r
            BY <1>8, <3>2 DEF Store!Idle, Store!Readers
        <3> QED
            BY <3>1, <3>2
    <2> QED
        BY <2>1, <2>2, <2>3, <2>4 DEF RangesAreTrue
<1>13. Store!Stored \subseteq Store!Stored' /\ Store!Stored' \subseteq 1 .. Days
       /\ \A d \in Store!Stored' : d \in job[r].got \/ d \in Store!Stored
    <2>1. ASSUME NEW d \in Store!Stored PROVE d \in Store!Stored'
        BY <1>10 DEF Store!Stored, Store!Day
    <2>2. ASSUME NEW d \in Store!Stored' PROVE d \in 1 .. Days /\ (d \in job[r].got \/ d \in Store!Stored)
        BY <1>10 DEF Store!Stored, Store!Day
    <2> QED
        BY <2>1, <2>2
<1>14. FormsAreTrue'
    <2>1. split' => ExDate <= today'
        BY <1>1, <1>2 DEF FormsAreTrue
    <2>2. ~split' => split_waiting' = 0 /\ \A d \in Store!Stored' : bars'[d] = IF d >= ExDate THEN "new" ELSE "old"
        <3> SUFFICES ASSUME ~split
                     PROVE  split_waiting = 0 /\ \A d \in Store!Stored' : bars'[d] = IF d >= ExDate THEN "new" ELSE "old"
            BY <1>1
        <3>1. ASSUME NEW d \in Store!Stored' PROVE bars'[d] = IF d >= ExDate THEN "new" ELSE "old"
            <4>1. Store!Convert(d) = IF d >= ExDate THEN "new" ELSE "old"
                BY <1>13, ConvertIsTrue
            <4> QED
                BY <1>2, <1>10, <1>13, <4>1 DEF FormsAreTrue
        <3> QED
            BY <1>2, <3>1 DEF FormsAreTrue
    <2>3. split' /\ split_waiting' = 0 => \A d \in Store!Stored' : bars'[d] = "new"
        <3> SUFFICES ASSUME split, split_waiting = 0, NEW d \in Store!Stored' PROVE bars'[d] = "new"
            BY <1>1
        <3>1. Store!Convert(d) = "new"
            BY <1>13, ConvertIsTrue
        <3>2. ~IsBeforeEvidence(r)
            BY <1>1 DEF IsBeforeEvidence
        <3>3. \A e \in Store!Stored : bars[e] = "new"
            BY <1>2, <3>2 DEF FormsAreTrue
        <3> QED
            BY <1>10, <1>13, <3>1, <3>3
    <2>4. split' /\ split_waiting' # 0 =>
            /\ split_waiting' - 1 \in Store!Stored'
            /\ \A d \in Store!Stored' : bars'[d] = IF d < split_waiting' THEN "old" ELSE "new"
        <3> SUFFICES ASSUME split, split_waiting # 0
                     PROVE  /\ split_waiting - 1 \in Store!Stored'
                            /\ \A d \in Store!Stored' : bars'[d] = IF d < split_waiting THEN "old" ELSE "new"
            BY <1>1
        <3>1. /\ split_waiting - 1 \in Store!Stored
              /\ \A d \in Store!Stored : bars[d] = IF d < split_waiting THEN "old" ELSE "new"
            BY <1>2 DEF FormsAreTrue
        <3>2. ASSUME NEW d \in Store!Stored' PROVE bars'[d] = IF d < split_waiting THEN "old" ELSE "new"
            <4>1. Store!Convert(d) = IF d < split_waiting THEN "old" ELSE "new"
                BY <1>13, ConvertIsTrue
            <4> QED
                BY <1>10, <1>13, <3>1, <4>1
        <3> QED
            BY <1>13, <3>1, <3>2
    <2> QED
        BY <2>1, <2>2, <2>3, <2>4 DEF FormsAreTrue, Store!Readers, Store!Update
<1> QED
    BY <1>8, <1>9, <1>11, <1>12, <1>14 DEF StoreIInv, Store!Readers, Store!Update

\* The day, the connection, and the change of the bars at IBKR.
LEMMA StoreOutsideStep ==
    ASSUME StoreIInv,
           \/ Store!NewDay
           \/ Store!LoseConnection
           \/ Store!Reconnect
           \/ UNCHANGED store
    PROVE  StoreIInv'
<1>1. /\ UNCHANGED <<bars, saved, split, split_waiting, summary, lock, job, chartSaves, lastUpdate, stopped>>
      /\ today' = today \/ (today < Days /\ today' = today + 1)
      /\ connected' \in BOOLEAN
    BY DEF Store!NewDay, Store!LoseConnection, Store!Reconnect, store, Store!store, Store!link, Store!schedule,
        StoreIInv, StoreIsTyped
<1>2. today \in 1 .. Days /\ today' \in 1 .. Days /\ Days \in Nat /\ today <= today'
    BY <1>1, ChartsAreOthers DEF StoreIInv, StoreIsTyped
<1>3. StoreIsTyped'
    BY <1>1, <1>2 DEF StoreIInv, StoreIsTyped, Store!Readers, Store!Update
<1>4. ReadersAreAlone'
    BY <1>1 DEF StoreIInv, ReadersAreAlone, Store!Idle
<1>5. RangesAreTrue'
    <2>1. ASSUME NEW d \in 1 .. Days, d < today PROVE d < today'
        BY <1>2, <2>1
    <2> QED
        BY <1>1, <2>1 DEF StoreIInv, StoreIsTyped, RangesAreTrue
<1>6. FormsAreTrue'
    <2>1. \A s \in Store!Readers : IsBeforeEvidence(s) => IsBeforeEvidence(s)'
        BY <1>1 DEF IsBeforeEvidence
    <2> QED
        BY <1>1, <1>2, <2>1, ChartsAreOthers, FormsStay DEF StoreIInv
<1>7. ASSUME NEW r \in Store!Readers PROVE ReadJob(r)'
    <2>1. ReadJob(r)
        BY DEF StoreIInv
    <2>2. \A d : Store!Convert(d)' = Store!Convert(d)
        BY <1>1 DEF Store!Convert, Store!IbkrForm, Store!Stored
    <2>3. 1 .. today - 1 \subseteq 1 .. today' - 1
        <3>1. ASSUME NEW n \in Int, NEW k \in Int, n <= k PROVE 1 .. n - 1 \subseteq 1 .. k - 1
            BY <3>1
        <3>2. today \in Int /\ today' \in Int
            BY <1>2
        <3> QED
            BY <1>2, <3>1, <3>2
    <2> QED
        BY <1>1, <2>1, <2>2, <2>3 DEF ReadJob, Store!FirstRange, Store!Idle
<1> QED
    BY <1>3, <1>4, <1>5, <1>6, <1>7 DEF StoreIInv, Store!Readers, Store!Update

\* A split at IBKR keeps the store invariant, as no job is between its read and
\* its save.
LEMMA SplitAtIbkrStep == ASSUME StoreIInv, Store!SplitAtIbkr PROVE StoreIInv'
<1>1. /\ today = ExDate /\ ~split /\ split' = TRUE /\ \A r \in Store!Readers : job[r] = Store!Idle
      /\ UNCHANGED <<today, bars, saved, split_waiting, summary, lock, job, chartSaves, connected, drops, lastUpdate,
                     stopped>>
    BY DEF Store!SplitAtIbkr, Store!Quiet, Store!store, Store!link, Store!schedule
<1>2. ASSUME NEW r \in Store!Readers PROVE ReadJob(r)' /\ IsBeforeEvidence(r)'
    BY <1>1, ChartsAreOthers, IdleReaderNext DEF IsBeforeEvidence
<1>3. StoreIsTyped' /\ ReadersAreAlone' /\ RangesAreTrue'
    <2>1. StoreIsTyped'
        BY <1>1 DEF StoreIInv, StoreIsTyped, Store!Readers, Store!Update
    <2>2. ReadersAreAlone'
        BY <1>1 DEF StoreIInv, ReadersAreAlone, Store!Idle
    <2>3. RangesAreTrue'
        BY <1>1 DEF StoreIInv, RangesAreTrue
    <2> QED
        BY <2>1, <2>2, <2>3
<1>4. FormsAreTrue'
    <2>1. split_waiting' = 0 /\ \A d \in Store!Stored : bars[d] = IF d >= ExDate THEN "new" ELSE "old"
        BY <1>1 DEF StoreIInv, FormsAreTrue
    <2>2. ASSUME NEW d \in Store!Stored PROVE bars[d] = "old"
        <3>1. d \in 1 .. Days /\ d < ExDate /\ ExDate \in Nat
            BY <1>1, ChartsAreOthers DEF Store!Stored, Store!Day, StoreIInv, RangesAreTrue
        <3>2. ~(d >= ExDate)
            BY <3>1
        <3> QED
            BY <2>1, <3>2
    <2>3. Store!Stored' = Store!Stored /\ ExDate <= today'
        BY <1>1, ChartsAreOthers DEF Store!Stored
    <2> QED
        BY <1>1, <1>2, <2>1, <2>2, <2>3 DEF FormsAreTrue, Store!Readers, Store!Update
<1> QED
    BY <1>2, <1>3, <1>4 DEF StoreIInv, Store!Readers, Store!Update

\* A confirmation divides the old bars, all of them before the day of the waiting split.
LEMMA ConfirmStep == ASSUME StoreIInv, Store!Confirm PROVE StoreIInv'
<1>1. /\ split_waiting # 0 /\ split_waiting' = 0 /\ \A r \in Store!Readers : job[r] = Store!Idle
      /\ bars' = [d \in 1 .. Days |-> IF d < split_waiting THEN Store!Divided(bars[d]) ELSE bars[d]]
      /\ summary' = Store!LastStored
      /\ UNCHANGED <<today, saved, split, lock, job, chartSaves, connected, drops, lastUpdate, stopped>>
    BY DEF Store!Confirm, Store!Quiet, Store!link, Store!schedule, Store!Day
<1>2. split /\ \A d \in Store!Stored : bars[d] = IF d < split_waiting THEN "old" ELSE "new"
    BY <1>1 DEF StoreIInv, FormsAreTrue, StoreIsTyped
<1>3. ASSUME NEW d \in 1 .. Days PROVE bars'[d] = IF bars[d] = "none" THEN "none" ELSE "new"
    <2>1. bars[d] # "none" => bars[d] = IF d < split_waiting THEN "old" ELSE "new"
        BY <1>2 DEF Store!Stored, Store!Day
    <2> QED
        BY <1>1, <2>1 DEF Store!Divided
<1>4. ASSUME NEW r \in Store!Readers PROVE ReadJob(r)'
    BY <1>1, ChartsAreOthers, IdleReaderNext
<1>5. StoreIsTyped'
    <2>1. bars' \in [1 .. Days -> {"none", "old", "new"}]
        BY <1>1, <1>3
    <2>2. summary' \in 0 .. Days /\ split_waiting' \in 0 .. Days + 1
        BY <1>1, LastStoredIs, ChartsAreOthers
    <2> QED
        BY <1>1, <2>1, <2>2 DEF StoreIInv, StoreIsTyped, Store!Readers, Store!Update
<1>6. ReadersAreAlone'
    BY <1>1 DEF StoreIInv, ReadersAreAlone, Store!Idle
<1>7. RangesAreTrue'
    BY <1>1, <1>3 DEF StoreIInv, StoreIsTyped, RangesAreTrue
<1>8. FormsAreTrue'
    <2>1. \A d \in Store!Stored' : bars'[d] = "new"
        BY <1>3 DEF Store!Stored, Store!Day
    <2>2. split' /\ split_waiting' = 0 /\ ExDate <= today'
        BY <1>1, <1>2 DEF StoreIInv, FormsAreTrue
    <2> QED
        BY <2>1, <2>2 DEF FormsAreTrue, Store!Readers, Store!Update
<1> QED
    BY <1>4, <1>5, <1>6, <1>7, <1>8 DEF StoreIInv, Store!Readers, Store!Update

\* Each step of the bar store keeps the store invariant.
LEMMA StoreStep == StoreIInv /\ (Store!Next \/ UNCHANGED store) => StoreIInv'
<1> SUFFICES ASSUME StoreIInv, Store!Next \/ UNCHANGED store PROVE StoreIInv'
    OBVIOUS
<1>1. ASSUME NEW r \in Store!Readers, Store!ReadStep(r) PROVE StoreIInv'
    BY <1>1, ReadFromIbkrStep, ToStoredFormStep, SaveStep, ReadLastBarsStep, EndSteps DEF Store!ReadStep
<1>2. ASSUME NEW c \in Charts,
             Store!RequestChart(c) \/ Store!CheckEvidence(c) \/ Store!ReadStep(c) \/ Store!ChartFails(c)
      PROVE  StoreIInv'
    <2>1. c \in Store!Readers
        BY DEF Store!Readers
    <2> QED
        BY <1>1, <1>2, <2>1, RequestChartStep, CheckEvidenceStep, EndSteps
<1>3. ASSUME Store!UpdateStep PROVE StoreIInv'
    <2>1. Store!Update \in Store!Readers
        BY DEF Store!Readers
    <2> QED
        BY <1>1, <1>3, <2>1, StartUpdateStep, EndSteps DEF Store!UpdateStep
<1> QED
    BY <1>2, <1>3, StoreOutsideStep, SplitAtIbkrStep, ConfirmStep DEF Store!Next

\* The store invariant holds at the start.
LEMMA StoreInit == Init => StoreIInv
<1> SUFFICES ASSUME Init PROVE StoreIInv
    OBVIOUS
<1>1. /\ today = 1 /\ bars = [d \in 1 .. Days |-> "none"] /\ saved = {} /\ split = FALSE /\ split_waiting = 0
      /\ summary = 0 /\ lock = "free" /\ job = [r \in Store!Readers |-> Store!Idle]
      /\ chartSaves = [d \in 1 .. Days |-> 0] /\ connected = TRUE /\ lastUpdate = 0 /\ stopped = 0
    BY DEF Init, Store!Init, Store!Day
<1>2. StoreIsTyped
    <2>1. bars \in [1 .. Days -> {"none", "old", "new"}] /\ chartSaves \in [1 .. Days -> Nat]
        BY <1>1
    <2>2. job = [r \in Store!Readers |-> job[r]]
        BY <1>1
    <2>3. today \in 1 .. Days /\ 0 \in 0 .. Days /\ 0 \in 0 .. Days + 1
        BY <1>1, ChartsAreOthers
    <2> QED
        BY <1>1, <2>1, <2>2, <2>3 DEF StoreIsTyped
<1>3. \A r \in Store!Readers : ReadJob(r)
    BY <1>1, ChartsAreOthers, IdleReader
<1>4. ReadersAreAlone
    BY <1>1, ChartsAreOthers DEF ReadersAreAlone, Store!Readers, Store!Update
<1>5. RangesAreTrue
    BY <1>1 DEF RangesAreTrue
<1>6. FormsAreTrue
    BY <1>1 DEF FormsAreTrue, Store!Stored, Store!Day
<1> QED
    BY <1>2, <1>3, <1>4, <1>5, <1>6 DEF StoreIInv

\* The store invariant contains the three properties the run checks.
LEMMA StoreIsTrue == StoreIInv => Store!BarsTypeOK /\ Store!SavedRangesAreTrue /\ Store!StoredBarsHaveOneForm
<1> SUFFICES ASSUME StoreIInv PROVE Store!BarsTypeOK /\ Store!SavedRangesAreTrue /\ Store!StoredBarsHaveOneForm
    OBVIOUS
<1>1. Store!BarsTypeOK
    <2>1. bars \in [1 .. Days -> {"none", "old", "new", "divided twice"}]
        BY DEF StoreIInv, StoreIsTyped
    <2>2. \A r \in Store!Readers : job[r].todo \subseteq 1 .. Days /\ job[r].got \subseteq 1 .. Days
        BY DEF StoreIInv, ReadJob
    <2> QED
        BY <2>1, <2>2 DEF Store!BarsTypeOK, Store!Day, StoreIInv, StoreIsTyped
<1>2. Store!SavedRangesAreTrue
    BY DEF Store!SavedRangesAreTrue, Store!Day, StoreIInv, RangesAreTrue
<1>3. Store!StoredBarsHaveOneForm
    <2>1. FormsAreTrue /\ split_waiting \in 0 .. Days + 1 /\ Store!Stored \subseteq 1 .. Days
        BY LastStoredIs DEF StoreIInv, StoreIsTyped
    <2> SUFFICES ASSUME NEW d \in Store!Stored, NEW e \in Store!Stored,
                        d < (IF split_waiting = 0 THEN ExDate ELSE split_waiting),
                        e < (IF split_waiting = 0 THEN ExDate ELSE split_waiting)
                 PROVE  bars[d] = bars[e]
        BY DEF Store!StoredBarsHaveOneForm
    <2>2. CASE ~split
        <3>1. d < ExDate /\ e < ExDate
            BY <2>1, <2>2 DEF FormsAreTrue
        <3>2. ~(d >= ExDate) /\ ~(e >= ExDate)
            BY <2>1, <3>1, ChartsAreOthers
        <3> QED
            BY <2>1, <2>2, <3>2 DEF FormsAreTrue
    <2>3. CASE split /\ split_waiting = 0
        BY <2>1, <2>3 DEF FormsAreTrue
    <2>4. CASE split /\ split_waiting # 0
        BY <2>1, <2>4 DEF FormsAreTrue
    <2> QED
        BY <2>2, <2>3, <2>4
<1> QED
    BY <1>1, <1>2, <1>3

-----------------------------------------------------------------------------
(* The Databento bars.                                                     *)

\* A bar of a day that each stock split of `by` divided once.
Form(d, by) == [x \in 2 .. MaxDay |-> IF x \in by /\ d < x THEN 1 ELSE 0]
AreDivided(b, by) == b = [d \in DOMAIN b |-> Form(d, by)]
HoursAreDivided(h, by) == h = [d \in DOMAIN h |-> [price |-> Form(d, by), open |-> Form(d, by)]]
RowStates == {"none", "waiting", "both_evidences", "bar_evidence", "import_check", "import_rejected"}
ImportFields == {"at", "days", "found", "end", "hourly"}

BarsAreInForm ==
    /\ DOMAIN stored \subseteq 1 .. MaxDay
    /\ AreDivided(stored, Databento!Applied(rows))
    /\ DOMAIN hours \subseteq DOMAIN stored
    /\ HoursAreDivided(hours, Databento!Applied(rows))
    /\ rows \in [2 .. MaxDay -> RowStates]

\* An import knows the applied stock splits of the moment in which it adjusts its bars; they stay until it saves.
ImportIsInForm ==
    \/ import = Databento!Idle
    \/ /\ DOMAIN import = ImportFields /\ import.at \in {"linked", "adjusted"} /\ import.end \in Nat
       /\ DOMAIN import.days \subseteq 1 .. MaxDay
       /\ import.at = "linked" => import.days = [d \in DOMAIN import.days |-> Databento!Raw]
       /\ import.at = "adjusted" => AreDivided(import.days, Databento!Applied(rows))

\* While a read holds the row of the check, no import moves the end of the check.
ChecksInOrder ==
    /\ market_day \in Nat /\ check_end \in Nat /\ read_end \in Nat /\ checked_end \in Nat
    /\ checked_end <= read_end /\ read_end <= check_end
    /\ no_answers \in 0 .. 1
    /\ reading # Databento!Idle => reading.end = check_end /\ (import # Databento!Idle => import.end = 0)

DatabentoIInv == BarsAreInForm /\ ImportIsInForm /\ ChecksInOrder

\* Raw bars divided once have the form of that division.
LEMMA RawBarsDivided ==
    ASSUME NEW D, NEW by
    PROVE  Databento!Divide([d \in D |-> Databento!Raw], by) = [d \in D |-> Form(d, by)]
<1> DEFINE raw == [d \in D |-> Databento!Raw]
<1>1. ASSUME NEW d \in D
      PROVE  [x \in 2 .. MaxDay |-> raw[d][x] + IF x \in by /\ d < x THEN 1 ELSE 0] = Form(d, by)
    <2>1. ASSUME NEW x \in 2 .. MaxDay PROVE raw[d][x] = 0
        BY DEF Databento!Raw, Databento!ExDays
    <2> QED
        BY <2>1 DEF Form
<1>2. Databento!Divide(raw, by) =
        [d \in D |-> [x \in 2 .. MaxDay |-> raw[d][x] + IF x \in by /\ d < x THEN 1 ELSE 0]]
    BY DEF Databento!Divide, Databento!ExDays
<1> HIDE DEF raw
<1>3. Databento!Divide(raw, by) = [d \in D |-> Form(d, by)]
    BY <1>1, <1>2
<1> QED
    BY <1>3 DEF raw

\* Bars that the stock splits of `old` divided once, divided for other ones.
LEMMA BarsDividedAgain ==
    ASSUME NEW bars_, NEW before, NEW new, before \cap new = {},
           AreDivided(bars_, before)
    PROVE  /\ AreDivided(Databento!Divide(bars_, new), before \cup new)
           /\ DOMAIN Databento!Divide(bars_, new) = DOMAIN bars_
<1>1. ASSUME NEW d \in DOMAIN bars_
      PROVE  [x \in 2 .. MaxDay |-> bars_[d][x] + IF x \in new /\ d < x THEN 1 ELSE 0] = Form(d, before \cup new)
    <2>1. ASSUME NEW x \in 2 .. MaxDay
          PROVE  bars_[d][x] + (IF x \in new /\ d < x THEN 1 ELSE 0) = IF x \in before \cup new /\ d < x THEN 1 ELSE 0
        <3>1. bars_[d] = Form(d, before)
            BY DEF AreDivided
        <3>2. bars_[d][x] = IF x \in before /\ d < x THEN 1 ELSE 0
            BY <3>1 DEF Form
        <3>3. CASE x \in new
            BY <3>2, <3>3
        <3>4. CASE x \notin new
            BY <3>2, <3>4
        <3> QED
            BY <3>3, <3>4
    <2> QED
        BY <2>1 DEF Form
<1>2. Databento!Divide(bars_, new) =
        [d \in DOMAIN bars_ |-> [x \in 2 .. MaxDay |-> bars_[d][x] + IF x \in new /\ d < x THEN 1 ELSE 0]]
    BY DEF Databento!Divide, Databento!ExDays
<1>3. Databento!Divide(bars_, new) = [d \in DOMAIN bars_ |-> Form(d, before \cup new)]
    BY <1>1, <1>2
<1> QED
    BY <1>3 DEF AreDivided

\* Hours divided for some splits, divided for other ones, are divided for both.
LEMMA HoursDividedAgain ==
    ASSUME NEW hours_, NEW before, NEW new, before \cap new = {},
           HoursAreDivided(hours_, before)
    PROVE  /\ HoursAreDivided(Databento!DivideHours(hours_, new), before \cup new)
           /\ DOMAIN Databento!DivideHours(hours_, new) = DOMAIN hours_
<1>1. ASSUME NEW d \in DOMAIN hours_
      PROVE  /\ Databento!Divide([e \in {d} |-> hours_[d].price], new)[d] = Form(d, before \cup new)
             /\ Databento!Divide([e \in {d} |-> hours_[d].open], new)[d] = Form(d, before \cup new)
    <2> DEFINE one == [e \in {d} |-> Form(e, before)]
    <2>1. hours_[d].price = Form(d, before) /\ hours_[d].open = Form(d, before)
        BY DEF HoursAreDivided
    <2>2. [e \in {d} |-> hours_[d].price] = one /\ [e \in {d} |-> hours_[d].open] = one
        BY <2>1
    <2>3. AreDivided(one, before) /\ DOMAIN one = {d}
        BY DEF AreDivided
    <2> HIDE DEF one
    <2>4. AreDivided(Databento!Divide(one, new), before \cup new) /\ DOMAIN Databento!Divide(one, new) = {d}
        BY <2>3, BarsDividedAgain
    <2> QED
        BY <2>2, <2>4 DEF AreDivided
<1>2. Databento!DivideHours(hours_, new) =
        [d \in DOMAIN hours_ |-> [price |-> Form(d, before \cup new), open |-> Form(d, before \cup new)]]
    BY <1>1 DEF Databento!DivideHours
<1> QED
    BY <1>2 DEF HoursAreDivided

\* The later of two days.
LEMMA LaterOf == ASSUME NEW a \in Nat, NEW b \in Nat PROVE Databento!Max({a, b}) = IF a >= b THEN a ELSE b
<1>1. \E x \in {a, b} : \A y \in {a, b} : x >= y
    OBVIOUS
<1>2. Databento!Max({a, b}) \in {a, b} /\ \A y \in {a, b} : Databento!Max({a, b}) >= y
    BY <1>1 DEF Databento!Max
<1> QED
    BY <1>2

\* The stock splits that a check applies have no row that is applied already.
LEMMA ChangeKeepsForm ==
    ASSUME BarsAreInForm, NEW new, Databento!ChangeStoredBars(new), rows' \in [2 .. MaxDay -> RowStates],
           Databento!Applied(rows') = Databento!Applied(rows) \cup new, Databento!Applied(rows) \cap new = {}
    PROVE  BarsAreInForm'
<1>1. AreDivided(stored', Databento!Applied(rows) \cup new) /\ DOMAIN stored' = DOMAIN stored
    BY BarsDividedAgain DEF BarsAreInForm, Databento!ChangeStoredBars
<1>2. HoursAreDivided(hours', Databento!Applied(rows) \cup new) /\ DOMAIN hours' = DOMAIN hours
    BY HoursDividedAgain DEF BarsAreInForm, Databento!ChangeStoredBars
<1>4. Databento!Applied(rows)' = Databento!Applied(rows) \cup new
    BY DEF Databento!Applied, Databento!ExDays
<1> QED
    BY <1>1, <1>2, <1>4 DEF BarsAreInForm

\* The checks of detections and the applied splits keep the Databento
\* invariant.
LEMMA CheckSteps ==
    ASSUME DatabentoIInv,
           \/ \E rejected \in SUBSET Databento!ExDays : Databento!CheckImportDetections(rejected)
           \/ \E x \in Databento!ExDays : Databento!ApplyStockSplit(x)
           \/ Databento!Apply
    PROVE  DatabentoIInv'
<1> USE DEF Databento!ExDays
<1>1. ASSUME NEW rejected \in SUBSET (2 .. MaxDay), Databento!CheckImportDetections(rejected) PROVE BarsAreInForm'
    <2> DEFINE waiting_ == {x \in 2 .. MaxDay : rows[x] = "waiting"}
               new == waiting_ \ rejected
    <2>1. /\ rows' = [x \in 2 .. MaxDay |-> IF x \in rejected THEN "import_rejected"
                                            ELSE IF x \in waiting_ THEN "import_check" ELSE rows[x]]
          /\ rejected \subseteq waiting_ /\ Databento!ChangeStoredBars(new)
        BY <1>1 DEF Databento!CheckImportDetections
    <2>2. rows' \in [2 .. MaxDay -> RowStates]
        BY <2>1 DEF DatabentoIInv, BarsAreInForm, AreDivided, HoursAreDivided, RowStates
    <2>3. Databento!Applied(rows') = Databento!Applied(rows) \cup new /\ Databento!Applied(rows) \cap new = {}
        BY <2>1 DEF Databento!Applied
    <2> HIDE DEF new
    <2> QED
        BY <2>1, <2>2, <2>3, ChangeKeepsForm DEF DatabentoIInv
<1>2. ASSUME NEW x \in 2 .. MaxDay, Databento!ApplyStockSplit(x) PROVE BarsAreInForm'
    <2>1. rows' = [rows EXCEPT ![x] = "both_evidences"] /\ rows[x] = "none" /\ Databento!ChangeStoredBars({x})
          /\ rows \in [2 .. MaxDay -> RowStates]
        BY <1>2 DEF Databento!ApplyStockSplit, DatabentoIInv, BarsAreInForm, AreDivided, HoursAreDivided
    <2>2. rows' \in [2 .. MaxDay -> RowStates]
        BY <2>1 DEF RowStates
    <2>3. Databento!Applied(rows') = Databento!Applied(rows) \cup {x} /\ Databento!Applied(rows) \cap {x} = {}
        BY <2>1 DEF Databento!Applied
    <2> QED
        BY <2>1, <2>2, <2>3, ChangeKeepsForm DEF DatabentoIInv
<1>3. ASSUME Databento!Apply PROVE BarsAreInForm'
    <2>1. PICK proven \in SUBSET {x \in 2 .. MaxDay : rows[x] = "none"},
               waiting_ \in SUBSET {x \in 2 .. MaxDay : rows[x] = "none"} :
            /\ rows' = [x \in 2 .. MaxDay |-> IF x \in proven THEN "bar_evidence"
                                              ELSE IF x \in waiting_ THEN "waiting" ELSE rows[x]]
            /\ Databento!ChangeStoredBars(proven)
        BY <1>3 DEF Databento!Apply
    <2>2. rows' \in [2 .. MaxDay -> RowStates]
        BY <2>1 DEF DatabentoIInv, BarsAreInForm, AreDivided, HoursAreDivided, RowStates
    <2>3. Databento!Applied(rows') = Databento!Applied(rows) \cup proven /\ Databento!Applied(rows) \cap proven = {}
        BY <2>1 DEF Databento!Applied
    <2> QED
        BY <2>1, <2>2, <2>3, ChangeKeepsForm DEF DatabentoIInv
<1>4. import = Databento!Idle /\ UNCHANGED import
    BY DEF Databento!CheckImportDetections, Databento!ApplyStockSplit, Databento!Apply, Databento!LockIsFree
<1>5. ChecksInOrder'
    BY <1>4 DEF Databento!CheckImportDetections, Databento!ApplyStockSplit, Databento!Apply, Databento!NeedsApply,
        Databento!checkVars, DatabentoIInv, ChecksInOrder, Databento!Idle
<1>6. ImportIsInForm'
    BY <1>4 DEF ImportIsInForm, AreDivided, HoursAreDivided, Databento!Idle
<1>7. BarsAreInForm'
    BY <1>1, <1>2, <1>3
<1> QED
    BY <1>5, <1>6, <1>7 DEF DatabentoIInv

\* A new day, and each end of the read from IBKR, keep the Databento invariant.
LEMMA ReadSteps ==
    ASSUME DatabentoIInv,
           \/ Databento!NewDay
           \/ Databento!StartRead
           \/ \E answered \in BOOLEAN : Databento!EndRead(answered)
           \/ \E counted \in BOOLEAN : Databento!ReadFails(counted)
           \/ UNCHANGED databento
    PROVE  DatabentoIInv'
<1>1. UNCHANGED <<stored, hours, rows, import>>
    BY DEF Databento!NewDay, Databento!StartRead, Databento!EndRead, Databento!ReadFails, databento
<1>2. BarsAreInForm' /\ ImportIsInForm'
    BY <1>1 DEF DatabentoIInv, BarsAreInForm, AreDivided, HoursAreDivided, ImportIsInForm, Databento!Applied,
        Databento!ExDays, Databento!Idle, Databento!Raw
<1>3. ChecksInOrder'
    <2>1. CASE Databento!NewDay
        BY <1>1, <2>1 DEF Databento!NewDay, Databento!checkVars, DatabentoIInv, ChecksInOrder, Databento!Idle
    <2>2. CASE Databento!StartRead
        BY <1>1, <2>2 DEF Databento!StartRead, DatabentoIInv, ChecksInOrder, Databento!Idle
    <2>3. ASSUME NEW answered \in BOOLEAN, Databento!EndRead(answered) PROVE ChecksInOrder'
        BY <1>1, <2>3 DEF Databento!EndRead, DatabentoIInv, ChecksInOrder, Databento!Idle
    <2>4. ASSUME NEW counted \in BOOLEAN, Databento!ReadFails(counted) PROVE ChecksInOrder'
        BY <1>1, <2>4 DEF Databento!ReadFails, DatabentoIInv, ChecksInOrder, Databento!Idle,
            Databento!MaxNoAnswerTries
    <2>5. CASE UNCHANGED databento
        BY <2>5 DEF databento, DatabentoIInv, ChecksInOrder, Databento!Idle
    <2> QED
        BY <2>1, <2>2, <2>3, <2>4, <2>5
<1> QED
    BY <1>2, <1>3 DEF DatabentoIInv

\* What an import finds gets rows that wait, so it applies no stock split.
LEMMA RecordedIsNotApplied ==
    ASSUME NEW r \in [2 .. MaxDay -> RowStates], NEW found
    PROVE  /\ Databento!RecordStockSplits(r, found) \in [2 .. MaxDay -> RowStates]
           /\ Databento!Applied(Databento!RecordStockSplits(r, found)) = Databento!Applied(r)
<1> DEFINE close(x) == \E y \in Databento!Applied(r) : y < x /\ y >= x - Databento!MatchDays
           next == Databento!RecordStockSplits(r, found)
<1>1. next = [x \in 2 .. MaxDay |-> IF x \in found /\ r[x] = "none" /\ ~close(x) THEN "waiting" ELSE r[x]]
    BY DEF Databento!RecordStockSplits, Databento!ExDays
<1> HIDE DEF close, next
<1>2. next \in [2 .. MaxDay -> RowStates]
    BY <1>1 DEF RowStates
<1>3. Databento!Applied(next) = Databento!Applied(r)
    BY <1>1 DEF Databento!Applied, Databento!ExDays
<1> QED
    BY <1>2, <1>3 DEF next

\* The start of an import keeps the Databento invariant.
LEMMA StartImportStep ==
    ASSUME DatabentoIInv, NEW first \in 1 .. MaxDay, NEW last \in 1 .. MaxDay, NEW still_trades \in BOOLEAN,
           NEW hourly \in BOOLEAN, Databento!StartImport(first, last, still_trades, hourly)
    PROVE  DatabentoIInv'
<1>1. PICK found :
        /\ import = Databento!Idle /\ (still_trades => reading = Databento!Idle)
        /\ import' = [at |-> "linked", days |-> [d \in first .. last |-> Databento!Raw], found |-> found,
                      end |-> IF still_trades THEN last + 1 ELSE 0, hourly |-> hourly]
        /\ UNCHANGED <<market_day, stored, hours, rows, check_end, read_end, checked_end, has_closes, closes, reading,
                       no_answers>>
    BY DEF Databento!StartImport, Databento!LockIsFree, Databento!checkVars
<1>2. BarsAreInForm'
    BY <1>1 DEF DatabentoIInv, BarsAreInForm, AreDivided, HoursAreDivided, Databento!Applied, Databento!ExDays
<1>3. DOMAIN [d \in first .. last |-> Databento!Raw] \subseteq 1 .. MaxDay
    <2>1. MaxDay \in Nat
        BY MarketAssumption
    <2> QED
        BY <2>1
<1>4. ImportIsInForm'
    BY <1>1, <1>3 DEF ImportIsInForm, AreDivided, HoursAreDivided, ImportFields, Databento!Raw
<1>5. ChecksInOrder'
    BY <1>1 DEF DatabentoIInv, ChecksInOrder, Databento!Idle
<1> QED
    BY <1>2, <1>4, <1>5 DEF DatabentoIInv

\* The adjustment, the save and the failure of an import keep the Databento
\* invariant.
LEMMA ImportSteps ==
    ASSUME DatabentoIInv, Databento!AdjustImportBars \/ Databento!Save \/ Databento!ImportFails
    PROVE  DatabentoIInv'
<1> DEFINE applied == Databento!Applied(rows)
<1>1. CASE Databento!AdjustImportBars
    <2>1. /\ import.at = "linked"
          /\ import' = [import EXCEPT !.at = "adjusted", !.days = Databento!Divide(import.days, applied)]
          /\ UNCHANGED <<market_day, stored, hours, rows, check_end, read_end, checked_end, has_closes, closes, reading,
                         no_answers>>
        BY <1>1 DEF Databento!AdjustImportBars, Databento!checkVars
    <2>2. /\ DOMAIN import = ImportFields /\ import.end \in Nat /\ DOMAIN import.days \subseteq 1 .. MaxDay
          /\ import.days = [d \in DOMAIN import.days |-> Databento!Raw] /\ import # Databento!Idle
        BY <2>1 DEF DatabentoIInv, ImportIsInForm, AreDivided, HoursAreDivided, Databento!Idle
    <2>3. Databento!Divide(import.days, applied) = [d \in DOMAIN import.days |-> Form(d, applied)]
        BY <2>2, RawBarsDivided
    <2>4. /\ import'.at = "adjusted" /\ import'.end = import.end /\ DOMAIN import' = ImportFields
          /\ import'.days = [d \in DOMAIN import.days |-> Form(d, applied)]
        BY <2>1, <2>2, <2>3 DEF ImportFields
    <2>5. Databento!Applied(rows)' = applied
        BY <2>1 DEF Databento!Applied, Databento!ExDays
    <2>6. BarsAreInForm'
        BY <2>1, <2>5 DEF DatabentoIInv, BarsAreInForm, AreDivided, HoursAreDivided
    <2>7. ImportIsInForm'
        BY <2>2, <2>4, <2>5 DEF ImportIsInForm, AreDivided, HoursAreDivided
    <2>8. ChecksInOrder'
        BY <2>1, <2>2, <2>4 DEF DatabentoIInv, ChecksInOrder, Databento!Idle
    <2> QED
        BY <2>6, <2>7, <2>8 DEF DatabentoIInv
<1>2. CASE Databento!ImportFails
    <2>1. import' = Databento!Idle /\ UNCHANGED <<market_day, stored, hours, rows, check_end, read_end, checked_end,
                                                 has_closes, closes, reading, no_answers>>
        BY <1>2 DEF Databento!ImportFails, Databento!checkVars
    <2>2. BarsAreInForm'
        BY <2>1 DEF DatabentoIInv, BarsAreInForm, AreDivided, HoursAreDivided, Databento!Applied, Databento!ExDays
    <2>3. ImportIsInForm' /\ ChecksInOrder'
        BY <2>1 DEF DatabentoIInv, ImportIsInForm, AreDivided, HoursAreDivided, ChecksInOrder, Databento!Idle
    <2> QED
        BY <2>2, <2>3 DEF DatabentoIInv
<1>3. CASE Databento!Save
    <2> DEFINE firstHours == [d \in DOMAIN import.days |-> [price |-> import.days[d], open |-> import.days[d]]]
    <2>1. /\ import.at = "adjusted" /\ import' = Databento!Idle
          /\ stored' = Databento!Over(import.days, stored)
          /\ hours' \in {hours, Databento!Over(firstHours, hours)}
          /\ rows' = Databento!RecordStockSplits(rows, import.found)
          /\ check_end' = Databento!Max({check_end, import.end})
          /\ UNCHANGED <<market_day, read_end, checked_end, has_closes, closes, reading, no_answers>>
        BY <1>3 DEF Databento!Save
    <2>2. /\ import.end \in Nat /\ DOMAIN import.days \subseteq 1 .. MaxDay /\ import # Databento!Idle
          /\ import.days = [d \in DOMAIN import.days |-> Form(d, applied)]
        BY <2>1 DEF DatabentoIInv, ImportIsInForm, AreDivided, HoursAreDivided, Databento!Idle
    <2>3. /\ DOMAIN stored \subseteq 1 .. MaxDay /\ DOMAIN hours \subseteq DOMAIN stored
          /\ stored = [d \in DOMAIN stored |-> Form(d, applied)]
          /\ hours = [d \in DOMAIN hours |-> [price |-> Form(d, applied), open |-> Form(d, applied)]]
          /\ rows \in [2 .. MaxDay -> RowStates]
        BY DEF DatabentoIInv, BarsAreInForm, AreDivided, HoursAreDivided
    <2>4. rows' \in [2 .. MaxDay -> RowStates] /\ Databento!Applied(rows)' = applied
        <3>1. rows' \in [2 .. MaxDay -> RowStates] /\ Databento!Applied(rows') = applied
            BY <2>1, <2>3, RecordedIsNotApplied
        <3> QED
            BY <3>1 DEF Databento!Applied, Databento!ExDays
    <2> HIDE DEF applied
    <2>5. stored' = [d \in DOMAIN import.days \cup DOMAIN stored |-> Form(d, applied)]
        <3>1. \A d \in DOMAIN import.days : import.days[d] = Form(d, applied)
            BY <2>2
        <3>2. \A d \in DOMAIN stored : stored[d] = Form(d, applied)
            BY <2>3
        <3> QED
            BY <2>1, <3>1, <3>2 DEF Databento!Over
    <2>6. hours' = [d \in DOMAIN hours' |-> [price |-> Form(d, applied), open |-> Form(d, applied)]]
          /\ DOMAIN hours' \subseteq DOMAIN import.days \cup DOMAIN stored
        <3>1. CASE hours' = hours
            BY <2>3, <3>1
        <3>2. CASE hours' = Databento!Over(firstHours, hours)
            <4>1. DOMAIN firstHours = DOMAIN import.days
                OBVIOUS
            <4>2. \A d \in DOMAIN import.days : firstHours[d] = [price |-> Form(d, applied), open |-> Form(d, applied)]
                BY <2>2
            <4>3. \A d \in DOMAIN hours : hours[d] = [price |-> Form(d, applied), open |-> Form(d, applied)]
                BY <2>3
            <4> HIDE DEF firstHours
            <4>4. hours' = [d \in DOMAIN import.days \cup DOMAIN hours |->
                                [price |-> Form(d, applied), open |-> Form(d, applied)]]
                BY <3>2, <4>1, <4>2, <4>3 DEF Databento!Over
            <4> QED
                BY <2>3, <4>4
        <3> QED
            BY <2>1, <3>1, <3>2
    <2>7. BarsAreInForm'
        BY <2>2, <2>3, <2>4, <2>5, <2>6 DEF BarsAreInForm, AreDivided, HoursAreDivided
    <2>8. ImportIsInForm'
        BY <2>1 DEF ImportIsInForm, AreDivided, HoursAreDivided, Databento!Idle
    <2>9. ChecksInOrder'
        <3>1. check_end \in Nat /\ (reading # Databento!Idle => reading.end = check_end /\ import.end = 0)
            BY <2>2 DEF DatabentoIInv, ChecksInOrder
        <3>2. check_end' = IF check_end >= import.end THEN check_end ELSE import.end
            BY <2>1, <2>2, <3>1, LaterOf
        <3> QED
            <4>1. CASE reading = Databento!Idle
                <5>1. check_end' \in Nat /\ check_end <= check_end'
                    BY <2>2, <3>1, <3>2
                <5>2. /\ read_end \in Nat /\ checked_end \in Nat /\ checked_end <= read_end /\ read_end <= check_end
                      /\ market_day \in Nat /\ no_answers \in 0 .. 1
                    BY DEF DatabentoIInv, ChecksInOrder
                <5>3. read_end <= check_end'
                    BY <3>1, <5>1, <5>2
                <5>4. reading' = Databento!Idle
                    BY <2>1, <4>1
                <5> QED
                    BY <2>1, <5>1, <5>2, <5>3, <5>4 DEF ChecksInOrder, Databento!Idle
            <4>2. CASE reading # Databento!Idle
                <5>1. check_end' = check_end
                    BY <3>1, <3>2, <4>2
                <5> QED
                    BY <2>1, <5>1 DEF DatabentoIInv, ChecksInOrder, Databento!Idle
            <4> QED
                BY <4>1, <4>2
    <2> QED
        BY <2>7, <2>8, <2>9 DEF DatabentoIInv
<1> QED
    BY <1>1, <1>2, <1>3

\* An import of hours keeps the Databento invariant.
LEMMA ImportHoursStep ==
    ASSUME DatabentoIInv, NEW first \in 1 .. MaxDay, NEW last \in 1 .. MaxDay, Databento!ImportHours(first, last)
    PROVE  DatabentoIInv'
<1> DEFINE applied == Databento!Applied(rows)
           firstHours == [d \in first .. last |->
                            [price |-> Databento!Divide([e \in {d} |-> Databento!Raw], applied)[d],
                             open |-> stored[d]]]
<1>1. /\ first .. last \subseteq DOMAIN stored /\ hours' = Databento!Over(firstHours, hours)
      /\ UNCHANGED <<market_day, stored, rows, import, check_end, read_end, checked_end, has_closes, closes, reading,
                     no_answers>>
    BY DEF Databento!ImportHours, Databento!checkVars
<1>2. /\ DOMAIN stored \subseteq 1 .. MaxDay /\ DOMAIN hours \subseteq DOMAIN stored
      /\ stored = [d \in DOMAIN stored |-> Form(d, applied)]
      /\ hours = [d \in DOMAIN hours |-> [price |-> Form(d, applied), open |-> Form(d, applied)]]
      /\ rows \in [2 .. MaxDay -> RowStates]
    BY DEF DatabentoIInv, BarsAreInForm, AreDivided, HoursAreDivided
<1>3. Databento!Applied(rows)' = applied
    BY <1>1 DEF Databento!Applied, Databento!ExDays
<1> HIDE DEF applied
<1>4. ASSUME NEW d \in first .. last
      PROVE  firstHours[d] = [price |-> Form(d, applied), open |-> Form(d, applied)]
    <2>1. Databento!Divide([e \in {d} |-> Databento!Raw], applied) = [e \in {d} |-> Form(e, applied)]
        BY RawBarsDivided
    <2>2. stored[d] = Form(d, applied)
        BY <1>1, <1>2
    <2> QED
        BY <2>1, <2>2
<1>5. DOMAIN firstHours = first .. last
    OBVIOUS
<1>6. \A d \in DOMAIN hours : hours[d] = [price |-> Form(d, applied), open |-> Form(d, applied)]
    BY <1>2
<1> HIDE DEF firstHours
<1>7. hours' = [d \in first .. last \cup DOMAIN hours |-> [price |-> Form(d, applied), open |-> Form(d, applied)]]
    BY <1>1, <1>4, <1>5, <1>6 DEF Databento!Over
<1>8. BarsAreInForm'
    BY <1>1, <1>2, <1>3, <1>7 DEF BarsAreInForm, AreDivided, HoursAreDivided
<1>9. ImportIsInForm' /\ ChecksInOrder'
    BY <1>1, <1>3 DEF DatabentoIInv, ImportIsInForm, AreDivided, ChecksInOrder, Databento!Idle, Databento!Raw,
        Databento!ExDays
<1> QED
    BY <1>8, <1>9 DEF DatabentoIInv

\* Each step keeps the Databento invariant.
LEMMA DatabentoStep == DatabentoIInv /\ (Databento!Next \/ UNCHANGED databento) => DatabentoIInv'
BY CheckSteps, ReadSteps, StartImportStep, ImportSteps, ImportHoursStep DEF Databento!Next

\* The Databento invariant holds at the start.
LEMMA DatabentoInit == Init => DatabentoIInv
<1> SUFFICES ASSUME Init PROVE DatabentoIInv
    OBVIOUS
<1>1. Databento!Init
    BY DEF Init
<1>2. BarsAreInForm
    BY <1>1 DEF Databento!Init, BarsAreInForm, AreDivided, HoursAreDivided, Databento!ExDays, RowStates
<1>3. ImportIsInForm /\ ChecksInOrder
    BY <1>1 DEF Databento!Init, ImportIsInForm, AreDivided, HoursAreDivided, ChecksInOrder
<1> QED
    BY <1>2, <1>3 DEF DatabentoIInv

\* The Databento invariant contains the two properties the run checks.
LEMMA DatabentoIsTrue == DatabentoIInv => Databento!DatabentoTypeOK /\ Databento!BarsAreDividedOnce
<1> SUFFICES ASSUME DatabentoIInv PROVE Databento!DatabentoTypeOK /\ Databento!BarsAreDividedOnce
    OBVIOUS
<1>1. Databento!DatabentoTypeOK
    BY DEF Databento!DatabentoTypeOK, DatabentoIInv, BarsAreInForm, AreDivided, HoursAreDivided, ImportIsInForm,
        ChecksInOrder, Databento!ExDays, Databento!Idle, RowStates, Databento!MaxNoAnswerTries
<1>2. Databento!Divide([d \in DOMAIN stored |-> Databento!Raw], Databento!Applied(rows)) =
        [d \in DOMAIN stored |-> Form(d, Databento!Applied(rows))]
    BY RawBarsDivided
<1>3. Databento!BarsAreDividedOnce
    BY <1>2 DEF Databento!BarsAreDividedOnce, DatabentoIInv, BarsAreInForm, AreDivided, HoursAreDivided
<1> QED
    BY <1>1, <1>3

-----------------------------------------------------------------------------
\* What is stored across a stock split: one split changes the ledger at most once; the saved ranges have their bars, and
\* the stored IBKR bars before the ex-date one form; each Databento bar is divided once for each applied stock split.
THEOREM StoreIsConsistent == ASSUME IsFiniteSet(Tests) PROVE Spec => []StoreInv
<1>1. Init => StoreIInv /\ DatabentoIInv
    BY StoreInit, DatabentoInit
<1>2. StoreIInv /\ DatabentoIInv /\ [Next]_vars => (StoreIInv /\ DatabentoIInv)'
    <2> SUFFICES ASSUME StoreIInv, DatabentoIInv, [Next]_vars PROVE StoreIInv' /\ DatabentoIInv'
        OBVIOUS
    <2>1. Store!Next \/ UNCHANGED store
        BY DEF Next, MarketStep, vars, market
    <2>2. Databento!Next \/ UNCHANGED databento
        BY DEF Next, MarketStep, vars, market
    <2> QED
        BY <2>1, <2>2, StoreStep, DatabentoStep
<1>3. (Split!SplitTypeOK /\ Split!SplitIsAppliedOnce) /\ StoreIInv /\ DatabentoIInv => StoreInv
    BY StoreIsTrue, DatabentoIsTrue DEF StoreInv
<1>4. Spec => [](Split!SplitTypeOK /\ Split!SplitIsAppliedOnce)
    BY SplitsAreAppliedOnce
<1> QED
    BY <1>1, <1>2, <1>3, <1>4, PTL DEF Spec
-----------------------------------------------------------------------------
(* The stock splits of the checked days.                                   *)

\* The sum of the divisions of a bar is the sum that Sums is about.
LEMMA DivisionsAre == ASSUME NEW bar PROVE Databento!Divisions(bar) = SumFunction(bar)
BY DEF Databento!Divisions, Databento!SumFunction, Databento!SumFunctionOnSet, Databento!FoldFunctionOnSet,
    Databento!MapThenFoldSet, SumFunction, SumFunctionOnSet, FoldFunctionOnSet, MapThenFoldSet

\* The form of a bar has a count of divisions.
LEMMA FormIsCounted == ASSUME NEW d, NEW by PROVE Databento!Divisions(Form(d, by)) \in Int
<1>1. IsFiniteSet(2 .. MaxDay)
    BY MarketAssumption, FS_Interval
<1>2. Form(d, by) \in [2 .. MaxDay -> Int]
    BY DEF Form
<1> QED
    BY <1>1, <1>2, SumIsWhole, DivisionsAre

\* The count of the instance is the one of the library.
LEMMA CountIs == ASSUME NEW S PROVE Databento!Cardinality(S) = Cardinality(S)
BY DEF Databento!Cardinality, Cardinality

\* The splits after a day, up to another one.
SplitsIn(a, b) == {x \in Splits : a < x /\ x <= b}

\* They can be counted.
LEMMA SplitsAreCounted ==
    ASSUME NEW a \in Int, NEW b \in Int
    PROVE  IsFiniteSet(SplitsIn(a, b)) /\ Cardinality(SplitsIn(a, b)) \in Nat
<1>1. SplitsIn(a, b) \in SUBSET (a .. b)
    BY MarketAssumption DEF SplitsIn
<1>2. IsFiniteSet(SplitsIn(a, b))
    BY <1>1, FS_Interval, FS_Subset
<1> QED
    BY <1>2, FS_CardinalityType

\* On the day of a stock split, the price halves once.
LEMMA PriceHalves == ASSUME NEW s \in Splits PROVE Databento!Halvings(s - 1, s) = 1
<1>1. {x \in Splits \cup Gaps : s - 1 < x /\ x <= s} = {s}
    BY MarketAssumption
<1> QED
    BY <1>1, CountIs, FS_Singleton DEF Databento!Halvings

\* The bars on the two sides of a split without an applied row have the same divisions.
LEMMA SameDivisions ==
    ASSUME BarsAreInForm, NEW s \in Splits, {s - 1, s} \subseteq DOMAIN stored, rows[s] = "none"
    PROVE  stored[s - 1] = stored[s] /\ Databento!Divisions(stored[s]) \in Int
<1> DEFINE by == Databento!Applied(rows)
<1>1. s \notin by /\ s \in Int
    BY MarketAssumption DEF Databento!Applied
<1> HIDE DEF by
<1>2. \A d \in DOMAIN stored : stored[d] = Form(d, by)
    BY DEF BarsAreInForm, AreDivided, by
<1>3. Form(s - 1, by) = Form(s, by)
    <2>1. ASSUME NEW x \in 2 .. MaxDay PROVE (x \in by /\ s - 1 < x) <=> (x \in by /\ s < x)
        BY <1>1
    <2> QED
        BY <2>1 DEF Form
<1> QED
    BY <1>2, <1>3, FormIsCounted

\* The detection rule finds each stock split without a row between two days that it looks at.
LEMMA RuleDetects ==
    ASSUME BarsAreInForm, NEW s \in Splits, NEW prices, prices \subseteq DOMAIN stored, {s - 1, s} \subseteq prices,
           rows[s] = "none"
    PROVE  s \in Databento!Detected(Databento!Restrict(stored, prices))
<1> DEFINE looked == Databento!Restrict(stored, prices)
<1>1. DOMAIN looked = prices /\ looked[s - 1] = stored[s - 1] /\ looked[s] = stored[s]
    BY DEF Databento!Restrict
<1>2. stored[s - 1] = stored[s] /\ Databento!Divisions(stored[s]) \in Int
    BY SameDivisions
<1>3. Databento!Divisions(looked[s - 1]) - Databento!Divisions(looked[s]) = 0
    BY <1>1, <1>2
<1>4. s \in 2 .. MaxDay
    <2>1. s \in Nat /\ MaxDay \in Nat
        BY MarketAssumption
    <2>2. s - 1 \in 1 .. MaxDay /\ s \in 1 .. MaxDay
        BY DEF BarsAreInForm
    <2> QED
        BY <2>1, <2>2
<1> HIDE DEF looked
<1>5. Databento!Halvings(s - 1, s) - (Databento!Divisions(looked[s - 1]) - Databento!Divisions(looked[s])) = 1
    BY <1>3, PriceHalves
<1>6. s \in Databento!Detected(looked)
    BY <1>1, <1>4, <1>5 DEF Databento!Detected, Databento!ExDays
<1> QED
    BY <1>6 DEF looked

\* The day before, when it has a close too, is the one that the close ratio of a day is compared with.
LEMMA DayBeforeIs ==
    ASSUME NEW days_, days_ \subseteq Nat, NEW s \in Int, s - 1 \in days_
    PROVE  Databento!PreviousOf(s, days_) = s - 1
<1> DEFINE before == {p \in days_ : p < s}
<1>1. s - 1 \in before /\ \A y \in before : s - 1 >= y
    OBVIOUS
<1>2. \A y \in before : y \in Int
    OBVIOUS
<1> HIDE DEF before
<1>3. Databento!Max(before) \in before /\ \A y \in before : Databento!Max(before) >= y
    BY <1>1 DEF Databento!Max
<1>4. Databento!Max(before) = s - 1
    BY <1>1, <1>2, <1>3
<1> QED
    BY <1>4 DEF Databento!PreviousOf, before

\* The close ratio has a step on a stock split that it shows.
LEMMA RatioHasStep ==
    ASSUME BarsAreInForm, NEW s \in Splits, {s - 1, s} \subseteq DOMAIN stored, rows[s] = "none",
           \A d \in DOMAIN closes : closes[d] \in Nat, Databento!IsShown(s)
    PROVE  Databento!Ratio(s - 1) - Databento!Ratio(s) # 0
<1> DEFINE before == SplitsIn(s - 1, closes[s - 1])
           further == SplitsIn(s, closes[s - 1])
           after == SplitsIn(s, closes[s])
<1>1. s \in Int /\ closes[s - 1] \in Nat /\ closes[s] \in Nat /\ s <= closes[s - 1]
      /\ ~\E t \in Splits : closes[s - 1] < t /\ t <= closes[s]
    BY MarketAssumption DEF Databento!IsShown
<1>2. IsFiniteSet(further) /\ Cardinality(further) \in Nat /\ Cardinality(after) \in Nat
      /\ Cardinality(before) \in Nat
    <2>1. s - 1 \in Int /\ s \in Int /\ closes[s - 1] \in Int /\ closes[s] \in Int
        BY <1>1
    <2> QED
        BY <2>1, SplitsAreCounted
<1>3. before = further \cup {s} /\ s \notin further
    BY <1>1, MarketAssumption DEF SplitsIn
<1>4. after \subseteq further
    BY <1>1, MarketAssumption DEF SplitsIn
<1>5. Cardinality(before) = Cardinality(further) + 1
    BY <1>2, <1>3, FS_AddElement
<1>6. Cardinality(after) <= Cardinality(further)
    BY <1>2, <1>4, FS_Subset
<1>7. stored[s - 1] = stored[s] /\ Databento!Divisions(stored[s]) \in Int
    BY SameDivisions
<1>8. /\ Databento!Ratio(s - 1) = Cardinality(before) - Databento!Divisions(stored[s])
      /\ Databento!Ratio(s) = Cardinality(after) - Databento!Divisions(stored[s])
    BY <1>7, CountIs DEF Databento!Ratio, SplitsIn
<1> HIDE DEF before, further, after
<1> QED
    BY <1>2, <1>5, <1>6, <1>7, <1>8

\* Thus a check finds it, with the price gap or without.
LEMMA StepIsFound ==
    ASSUME BarsAreInForm, NEW s \in Splits, NEW prices, prices \subseteq DOMAIN stored, {s - 1, s} \subseteq prices,
           rows[s] = "none", \A d \in DOMAIN closes : closes[d] \in Nat, Databento!IsShown(s)
    PROVE  s \in Databento!FoundSteps(prices, TRUE) \cup Databento!FoundSteps(prices, FALSE)
<1> DEFINE overlap == prices \cap DOMAIN closes
<1>1. {s - 1, s} \subseteq overlap /\ overlap \subseteq Nat /\ s \in Int
    <2>1. s \in Int
        BY MarketAssumption
    <2>2. {s - 1, s} \subseteq overlap
        BY DEF Databento!IsShown
    <2>3. 1 .. MaxDay \subseteq Nat
        OBVIOUS
    <2> QED
        BY <2>1, <2>2, <2>3 DEF BarsAreInForm
<1> HIDE DEF overlap
<1>2. Databento!PreviousOf(s, overlap) = s - 1
    BY <1>1, DayBeforeIs
<1>3. Databento!StepAt(s, overlap) # 0
    <2>1. Databento!Ratio(s - 1) - Databento!Ratio(s) # 0
        BY RatioHasStep
    <2> QED
        BY <1>2, <2>1 DEF Databento!StepAt
<1>4. s - 1 < s
    BY <1>1
<1>5. Databento!HasPriceGap(s, Databento!StepAt(s, overlap), prices) \in BOOLEAN
    BY DEF Databento!HasPriceGap
<1> QED
    BY <1>1, <1>3, <1>4, <1>5 DEF Databento!FoundSteps, overlap

\* The first and the last of some days are days of them.
LEMMA FirstAndLast ==
    ASSUME NEW D, D \subseteq 1 .. MaxDay, D # {}
    PROVE  /\ Databento!Min(D) \in D /\ \A y \in D : Databento!Min(D) <= y
           /\ Databento!Max(D) \in D /\ \A y \in D : Databento!Max(D) >= y
<1>1. D \subseteq Nat /\ \A y \in D : y \in Int
    OBVIOUS
<1>2. \E x \in D : \A y \in D : x <= y
    BY <1>1, SmallestOf
<1>3. \E x \in D : \A y \in D : x >= y
    <2>1. MaxDay \in Nat
        BY MarketAssumption
    <2> QED
        BY <1>1, <2>1, LargestOf
<1>4. Databento!Min(D) \in D /\ \A y \in D : Databento!Min(D) <= y
    BY <1>2 DEF Databento!Min
<1>5. Databento!Max(D) \in D /\ \A y \in D : Databento!Max(D) >= y
    BY <1>3 DEF Databento!Max
<1> QED
    BY <1>4, <1>5

-----------------------------------------------------------------------------
\* The stored days leave no day out, the checked days end with a stored day, and an import starts at one of the stored
\* days or on the day after them: the days that it adds come after all of them.
DaysGoForward ==
    /\ \A d, e \in DOMAIN stored : d .. e \subseteq DOMAIN stored
    /\ check_end > 0 => check_end - 1 \in DOMAIN stored
    /\ import # Databento!Idle =>
        \E a, b \in 1 .. MaxDay :
            /\ a <= b /\ DOMAIN import.days = a .. b /\ import.end \in {0, b + 1}
            /\ DOMAIN stored # {} => \E m, n \in DOMAIN stored : m <= a /\ a <= n + 1

\* What a read knows: its days are the stored ones from its start to the end of the check, and after an answer each of the
\* days that the next one reads again has a close, from a day that is not in the future.
ReadKnowsDays ==
    /\ has_closes \in BOOLEAN
    /\ \A d \in DOMAIN closes : closes[d] \in Nat /\ closes[d] <= market_day
    /\ reading # Databento!Idle =>
        read_end < check_end /\ reading.days = Databento!StoredPrices(Databento!FindReadStart(read_end))
    /\ has_closes => \A d \in DOMAIN stored : read_end - Margin <= d /\ d < read_end => d \in DOMAIN closes

\* The stock splits between two stored days that a check looked at.
CheckedPairs == {s \in Databento!StoredPairs : s < checked_end}

\* One whose day before has a close, and its own day not, has a row or is too old for a next read; one that the closes
\* show has a row or is one of the days that the next check looks at again; without a close each one has a row.
PairsAreChecked ==
    /\ \A s \in CheckedPairs :
        s - 1 \in DOMAIN closes /\ s \notin DOMAIN closes => Databento!HasRow(s) \/ s < read_end - Margin
    /\ \A s \in CheckedPairs :
        Databento!IsShown(s) =>
            Databento!HasRow(s) \/ (checked_end < check_end /\ checked_end - Margin <= s - 1)
    /\ DOMAIN closes = {} => ~has_closes /\ \A s \in CheckedPairs : Databento!HasRow(s)

HiddenIInv == DatabentoIInv /\ DaysGoForward /\ ReadKnowsDays /\ PairsAreChecked

\* A row stays: a check confirms or rejects it.
LEMMA RowsStay ==
    ASSUME DatabentoIInv, Databento!Next
    PROVE  \A s : Databento!HasRow(s) => Databento!HasRow(s)'
<1>1. \A x \in 2 .. MaxDay : rows[x] # "none" => rows'[x] # "none"
    <2> SUFFICES ASSUME NEW x \in 2 .. MaxDay, rows[x] # "none" PROVE rows'[x] # "none"
        OBVIOUS
    <2>1. rows \in [2 .. MaxDay -> RowStates]
        BY DEF DatabentoIInv, BarsAreInForm
    <2>2. CASE UNCHANGED rows
        BY <2>2
    <2>3. CASE Databento!Save
        BY <2>3 DEF Databento!Save, Databento!RecordStockSplits, Databento!ExDays
    <2>4. ASSUME NEW rejected \in SUBSET Databento!ExDays, Databento!CheckImportDetections(rejected)
          PROVE  rows'[x] # "none"
        BY <2>4 DEF Databento!CheckImportDetections, Databento!ExDays
    <2>5. ASSUME NEW y \in Databento!ExDays, Databento!ApplyStockSplit(y) PROVE rows'[x] # "none"
        BY <2>1, <2>5 DEF Databento!ApplyStockSplit
    <2>6. CASE Databento!Apply
        BY <2>6 DEF Databento!Apply, Databento!ExDays
    <2>7. UNCHANGED rows \/ Databento!Save \/ Databento!Apply
          \/ (\E rejected \in SUBSET Databento!ExDays : Databento!CheckImportDetections(rejected))
          \/ (\E y \in Databento!ExDays : Databento!ApplyStockSplit(y))
        BY DEF Databento!Next, Databento!NewDay, Databento!StartImport, Databento!AdjustImportBars,
            Databento!ImportFails, Databento!ImportHours, Databento!StartRead, Databento!EndRead, Databento!ReadFails
    <2> QED
        BY <2>2, <2>3, <2>4, <2>5, <2>6, <2>7
<1> QED
    BY <1>1 DEF Databento!HasRow, Databento!ExDays

\* The steps that change nothing of what a check knows.
IsQuiet ==
    /\ UNCHANGED <<check_end, read_end, checked_end, has_closes, closes>>
    /\ DOMAIN stored' = DOMAIN stored
    /\ market_day <= market_day'
    /\ \/ reading' \in {reading, Databento!Idle}
       \/ read_end < check_end /\ reading'.days = Databento!StoredPrices(Databento!FindReadStart(read_end))
    /\ \/ import' \in {import, Databento!Idle}
       \/ import # Databento!Idle /\ DOMAIN import'.days = DOMAIN import.days /\ import'.end = import.end
       \/ \E a, b \in 1 .. MaxDay :
            /\ a <= b /\ DOMAIN import'.days = a .. b /\ import'.end \in {0, b + 1}
            /\ DOMAIN stored # {} => \E m, n \in DOMAIN stored : m <= a /\ a <= n + 1

\* All but four steps are quiet.
LEMMA QuietSteps ==
    ASSUME DatabentoIInv, Databento!Next
    PROVE  IsQuiet \/ Databento!Save \/ Databento!Apply \/ \E answered \in BOOLEAN : Databento!EndRead(answered)
<1> USE DEF Databento!checkVars
<1>1. market_day \in Nat /\ DOMAIN stored \subseteq 1 .. MaxDay
    BY DEF DatabentoIInv, BarsAreInForm, ChecksInOrder
<1>2. CASE Databento!NewDay
    BY <1>1, <1>2 DEF Databento!NewDay, IsQuiet
<1>3. ASSUME NEW first \in 1 .. MaxDay, NEW last \in 1 .. MaxDay, NEW still_trades \in BOOLEAN, NEW hourly \in BOOLEAN,
             first <= last, Databento!StartImport(first, last, still_trades, hourly)
      PROVE  IsQuiet
    <2>1. DOMAIN import'.days = first .. last /\ import'.end \in {0, last + 1}
        BY <1>3 DEF Databento!StartImport
    <2>2. DOMAIN stored # {} => \E m, n \in DOMAIN stored : m <= first /\ first <= n + 1
        <3> SUFFICES ASSUME DOMAIN stored # {} PROVE \E m, n \in DOMAIN stored : m <= first /\ first <= n + 1
            OBVIOUS
        <3>1. Databento!Min(DOMAIN stored) \in DOMAIN stored /\ Databento!Max(DOMAIN stored) \in DOMAIN stored
            BY <1>1, FirstAndLast
        <3>2. first \in Databento!Min(DOMAIN stored) .. (Databento!Max(DOMAIN stored) + 1)
            BY <1>3 DEF Databento!StartImport
        <3> QED
            BY <1>1, <3>1, <3>2
    <2>3. UNCHANGED <<market_day, stored, check_end, read_end, checked_end, has_closes, closes, reading>>
        BY <1>3 DEF Databento!StartImport
    <2> QED
        BY <1>1, <1>3, <2>1, <2>2, <2>3 DEF IsQuiet
<1>4. CASE Databento!AdjustImportBars
    <2>1. import.at = "linked" /\ import # Databento!Idle /\ DOMAIN import = ImportFields
        BY <1>4 DEF Databento!AdjustImportBars, Databento!Idle, DatabentoIInv, ImportIsInForm
    <2>2. /\ import' = [import EXCEPT !.at = "adjusted",
                        !.days = Databento!Divide(import.days, Databento!Applied(rows))]
          /\ UNCHANGED <<market_day, stored, check_end, read_end, checked_end, has_closes, closes, reading>>
        BY <1>4 DEF Databento!AdjustImportBars
    <2>3. DOMAIN Databento!Divide(import.days, Databento!Applied(rows)) = DOMAIN import.days
        BY DEF Databento!Divide
    <2>4. DOMAIN import'.days = DOMAIN import.days /\ import'.end = import.end
        BY <2>1, <2>2, <2>3 DEF ImportFields
    <2> QED
        BY <1>1, <2>1, <2>2, <2>4 DEF IsQuiet
<1>5. CASE Databento!ImportFails
    BY <1>1, <1>5 DEF Databento!ImportFails, IsQuiet
<1>6. ASSUME NEW first \in 1 .. MaxDay, NEW last \in 1 .. MaxDay, Databento!ImportHours(first, last) PROVE IsQuiet
    BY <1>1, <1>6 DEF Databento!ImportHours, IsQuiet
<1>7. ASSUME NEW rejected \in SUBSET Databento!ExDays, Databento!CheckImportDetections(rejected) PROVE IsQuiet
    BY <1>1, <1>7 DEF Databento!CheckImportDetections, Databento!ChangeStoredBars, Databento!Divide, IsQuiet
<1>8. ASSUME NEW x \in Databento!ExDays, Databento!ApplyStockSplit(x) PROVE IsQuiet
    BY <1>1, <1>8 DEF Databento!ApplyStockSplit, Databento!ChangeStoredBars, Databento!Divide, IsQuiet
<1>9. CASE Databento!StartRead
    BY <1>1, <1>9 DEF Databento!StartRead, Databento!NeedsRead, IsQuiet
<1>10. ASSUME NEW counted \in BOOLEAN, Databento!ReadFails(counted) PROVE IsQuiet
    BY <1>1, <1>10 DEF Databento!ReadFails, IsQuiet
<1> QED
    BY <1>2, <1>3, <1>4, <1>5, <1>6, <1>7, <1>8, <1>9, <1>10 DEF Databento!Next

\* A quiet step keeps what the checks know.
LEMMA QuietKeeps ==
    ASSUME HiddenIInv, DatabentoIInv', IsQuiet, \A s : Databento!HasRow(s) => Databento!HasRow(s)'
    PROVE  (DaysGoForward /\ ReadKnowsDays /\ PairsAreChecked)'
<1> DEFINE days == DOMAIN stored
<1>1. DOMAIN stored' = days /\ UNCHANGED <<check_end, read_end, checked_end, has_closes, closes>>
    BY DEF IsQuiet
<1>2. Databento!StoredPrices(Databento!FindReadStart(read_end))' =
        Databento!StoredPrices(Databento!FindReadStart(read_end))
    BY <1>1 DEF Databento!StoredPrices, Databento!FindReadStart
<1>3. DaysGoForward'
    <2>1. \A d, e \in days : d .. e \subseteq days
        BY DEF HiddenIInv, DaysGoForward
    <2>2. check_end > 0 => check_end - 1 \in days
        BY DEF HiddenIInv, DaysGoForward
    <2>3. import' # Databento!Idle =>
            \E a, b \in 1 .. MaxDay :
                /\ a <= b /\ DOMAIN import'.days = a .. b /\ import'.end \in {0, b + 1}
                /\ days # {} => \E m, n \in days : m <= a /\ a <= n + 1
        BY DEF HiddenIInv, DaysGoForward, IsQuiet
    <2> HIDE DEF days
    <2>4. Databento!Idle' = Databento!Idle
        BY DEF Databento!Idle
    <2> QED
        BY <1>1, <2>1, <2>2, <2>3, <2>4 DEF DaysGoForward
<1>4. ReadKnowsDays'
    <2>1. market_day' >= market_day /\ market_day \in Nat /\ market_day' \in Int
        BY DEF HiddenIInv, DatabentoIInv, ChecksInOrder, IsQuiet
    <2>2. \A d \in DOMAIN closes : closes[d] \in Nat /\ closes[d] <= market_day'
        BY <2>1 DEF HiddenIInv, ReadKnowsDays
    <2>3. reading' # Databento!Idle =>
            read_end < check_end /\ reading'.days = Databento!StoredPrices(Databento!FindReadStart(read_end))
        BY DEF HiddenIInv, ReadKnowsDays, IsQuiet
    <2>4. Databento!Idle' = Databento!Idle
        BY DEF Databento!Idle
    <2> QED
        BY <1>1, <1>2, <2>2, <2>3, <2>4 DEF HiddenIInv, ReadKnowsDays
<1>5. PairsAreChecked'
    <2>1. CheckedPairs' = CheckedPairs
        BY <1>1 DEF CheckedPairs, Databento!StoredPairs
    <2>2. \A s : Databento!IsShown(s)' = Databento!IsShown(s)
        BY <1>1 DEF Databento!IsShown
    <2> QED
        BY <1>1, <2>1, <2>2 DEF HiddenIInv, PairsAreChecked
<1> QED
    BY <1>3, <1>4, <1>5

\* The days of `new` that are not stored come after all stored days.
LEMMA NewDaysAreLater ==
    ASSUME NEW a \in Nat, NEW b \in Nat, NEW m \in Nat, NEW D, D \subseteq Nat, m \in D, m <= a,
           \A d, e \in D : d .. e \subseteq D
    PROVE  \A d \in (a .. b) \ D : \A e \in D : e < d
<1> SUFFICES ASSUME NEW d \in (a .. b) \ D, NEW e \in D, ~(e < d) PROVE FALSE
    OBVIOUS
<1>1. d \in m .. e
    <2>1. e \in Nat /\ d \in Nat /\ m <= d
        OBVIOUS
    <2> QED
        BY <2>1
<1> QED
    BY <1>1

\* A save keeps what the checks know: the days that it adds are later than the checked ones.
LEMMA SaveKeeps ==
    ASSUME HiddenIInv, Databento!Save, \A s : Databento!HasRow(s) => Databento!HasRow(s)'
    PROVE  (DaysGoForward /\ ReadKnowsDays /\ PairsAreChecked)'
<1> DEFINE days == DOMAIN stored
           added == DOMAIN import.days
<1>1. /\ import' = Databento!Idle /\ import # Databento!Idle
      /\ check_end' = Databento!Max({check_end, import.end})
      /\ UNCHANGED <<market_day, read_end, checked_end, has_closes, closes, reading>>
    BY DEF Databento!Save, Databento!Idle
<1>2. DOMAIN stored' = added \cup days
    BY DEF Databento!Save, Databento!Over
<1>3. PICK a \in 1 .. MaxDay, b \in 1 .. MaxDay :
        /\ a <= b /\ added = a .. b /\ import.end \in {0, b + 1}
        /\ days # {} => \E m, n \in days : m <= a /\ a <= n + 1
    BY <1>1 DEF HiddenIInv, DaysGoForward
<1>4. /\ days \subseteq Nat /\ a \in Nat /\ b \in Nat
      /\ check_end \in Nat /\ read_end \in Nat /\ checked_end \in Nat
      /\ checked_end <= read_end /\ read_end <= check_end
      /\ reading # Databento!Idle => import.end = 0
    BY <1>1 DEF HiddenIInv, DatabentoIInv, BarsAreInForm, ChecksInOrder
<1>5. \A d, e \in days : d .. e \subseteq days
    BY DEF HiddenIInv, DaysGoForward
<1>6. check_end > 0 => check_end - 1 \in days
    BY DEF HiddenIInv, DaysGoForward
<1> HIDE DEF days, added
<1>7. check_end' = IF check_end >= import.end THEN check_end ELSE import.end
    BY <1>1, <1>3, <1>4, LaterOf
<1>8. \A d \in added \ days : \A e \in days : e < d
    <2>1. CASE days = {}
        BY <2>1
    <2>2. CASE days # {}
        <3>1. PICK m \in days : m <= a
            BY <1>3, <2>2
        <3> QED
            BY <1>3, <1>4, <1>5, <3>1, NewDaysAreLater
    <2> QED
        BY <2>1, <2>2
<1>9. \A d \in DOMAIN stored' : d \in Nat /\ (d < check_end => d \in days)
    <2> SUFFICES ASSUME NEW d \in added \cup days PROVE d \in Nat /\ (d < check_end => d \in days)
        BY <1>2
    <2>1. d \in Nat
        BY <1>3, <1>4
    <2>2. CASE d \notin days /\ d < check_end
        BY <1>4, <1>6, <1>8, <2>1, <2>2
    <2> QED
        BY <2>1, <2>2
<1>10. DaysGoForward'
    <2>1. \A d, e \in added \cup days : d .. e \subseteq added \cup days
        <3> SUFFICES ASSUME NEW d \in added \cup days, NEW e \in added \cup days, NEW x \in d .. e, x \notin added
                     PROVE  x \in days
            OBVIOUS
        <3>1. d \in Nat /\ e \in Nat /\ x \in Nat /\ d <= x /\ x <= e
            BY <1>3, <1>4
        <3>2. CASE days = {}
            BY <1>3, <1>4, <3>1, <3>2
        <3>3. CASE days # {}
            <4>1. PICK m \in days, n \in days : m <= a /\ a <= n + 1
                BY <1>3, <3>3
            <4>2. m \in Nat /\ n \in Nat
                BY <1>4
            <4>3. CASE x < a
                <5>1. d \in days
                    BY <1>3, <1>4, <3>1, <4>3
                <5>2. x \in d .. n
                    BY <1>4, <3>1, <4>1, <4>2, <4>3
                <5> QED
                    BY <1>5, <5>1, <5>2
            <4>4. CASE x > b
                <5>1. e \in days
                    BY <1>3, <1>4, <3>1, <4>4
                <5>2. x \in m .. e
                    BY <1>3, <1>4, <3>1, <4>1, <4>2, <4>4
                <5> QED
                    BY <1>5, <5>1, <5>2
            <4> QED
                BY <1>3, <1>4, <3>1, <4>3, <4>4
        <3> QED
            BY <3>2, <3>3
    <2>2. check_end' > 0 => check_end' - 1 \in added \cup days
        BY <1>3, <1>4, <1>6, <1>7
    <2>3. Databento!Idle' = Databento!Idle
        BY DEF Databento!Idle
    <2> QED
        BY <1>1, <1>2, <2>1, <2>2, <2>3 DEF DaysGoForward
<1>11. ReadKnowsDays'
    <2>1. has_closes =>
            \A d \in DOMAIN stored' : read_end - Margin <= d /\ d < read_end => d \in DOMAIN closes
        <3> SUFFICES ASSUME has_closes, NEW d \in DOMAIN stored', read_end - Margin <= d, d < read_end
                     PROVE  d \in DOMAIN closes
            OBVIOUS
        <3>1. d \in days
            BY <1>4, <1>9
        <3> QED
            BY <3>1 DEF HiddenIInv, ReadKnowsDays, days
    <2>2. ASSUME reading # Databento!Idle
          PROVE  read_end < check_end'
                 /\ reading.days = Databento!StoredPrices(Databento!FindReadStart(read_end))'
        <3>1. check_end' = check_end
            BY <1>4, <1>7, <2>2
        <3>2. read_end < check_end /\ reading.days = Databento!StoredPrices(Databento!FindReadStart(read_end))
            BY <2>2 DEF HiddenIInv, ReadKnowsDays
        <3>3. Databento!FindReadStart(read_end)' = Databento!FindReadStart(read_end)
            BY <1>1 DEF Databento!FindReadStart
        <3>4. \A d : d \in DOMAIN stored' /\ d < check_end <=> d \in days /\ d < check_end
            BY <1>2, <1>9
        <3> QED
            BY <3>1, <3>2, <3>3, <3>4 DEF Databento!StoredPrices, days
    <2>3. Databento!Idle' = Databento!Idle
        BY DEF Databento!Idle
    <2> QED
        BY <1>1, <2>1, <2>2, <2>3 DEF HiddenIInv, ReadKnowsDays
<1>12. PairsAreChecked'
    <2>1. CheckedPairs' \subseteq CheckedPairs
        <3> SUFFICES ASSUME NEW s \in Splits, {s - 1, s} \subseteq DOMAIN stored', s < checked_end
                     PROVE  {s - 1, s} \subseteq days
            BY <1>1 DEF CheckedPairs, Databento!StoredPairs, days
        <3>1. s \in Nat
            BY MarketAssumption
        <3> QED
            BY <1>4, <1>9, <3>1
    <2>2. \A s : Databento!IsShown(s)' = Databento!IsShown(s)
        BY <1>1 DEF Databento!IsShown
    <2>3. checked_end < check_end => checked_end < check_end'
        BY <1>3, <1>4, <1>7
    <2> QED
        BY <1>1, <2>1, <2>2, <2>3 DEF HiddenIInv, PairsAreChecked
<1> QED
    BY <1>10, <1>11, <1>12

\* The days that a check reads begin with the days that it reads again, and end on the day before its end.
LEMMA DaysOfCheck ==
    ASSUME HiddenIInv, NEW end \in Nat, end < check_end
    PROVE  /\ Databento!StoredPrices(Databento!FindReadStart(end)) \subseteq 1 .. MaxDay
           /\ \A d \in DOMAIN stored :
                end - Margin <= d /\ d < check_end => d \in Databento!StoredPrices(Databento!FindReadStart(end))
           /\ check_end - 1 \in Databento!StoredPrices(Databento!FindReadStart(end))
           /\ \A d \in Databento!StoredPrices(Databento!FindReadStart(end)) : end # 0 => end - Margin <= d
<1>1. DOMAIN stored \subseteq 1 .. MaxDay /\ check_end \in Nat
    BY DEF HiddenIInv, DatabentoIInv, BarsAreInForm, ChecksInOrder
<1>2. Margin \in Nat /\ 1 <= Margin
    BY MarketAssumption
<1>3. check_end - 1 \in DOMAIN stored
    BY <1>1 DEF HiddenIInv, DaysGoForward
<1>4. \A d \in DOMAIN stored : end - Margin <= d => d >= Databento!FindReadStart(end)
    BY <1>1, <1>2 DEF Databento!FindReadStart
<1>5. end - Margin <= check_end - 1
    BY <1>1, <1>2
<1>6. end # 0 => Databento!FindReadStart(end) = end - Margin
    BY DEF Databento!FindReadStart
<1> QED
    BY <1>1, <1>3, <1>4, <1>5, <1>6 DEF Databento!StoredPrices

\* The end of a read keeps what the checks know: the closes of an answer are those of the days that the check reads.
LEMMA EndReadKeeps ==
    ASSUME HiddenIInv, NEW answered \in BOOLEAN, Databento!EndRead(answered),
           \A s : Databento!HasRow(s) => Databento!HasRow(s)'
    PROVE  (DaysGoForward /\ ReadKnowsDays /\ PairsAreChecked)'
<1> DEFINE prices == Databento!StoredPrices(Databento!FindReadStart(read_end))
           first == Databento!Min(prices)
<1>1. /\ reading # Databento!Idle /\ reading' = Databento!Idle /\ read_end' = reading.end
      /\ has_closes' = IF reading.days = {} THEN has_closes ELSE answered
      /\ UNCHANGED <<market_day, stored, import, check_end, checked_end>>
      /\ closes' = IF answered
                   THEN Databento!Over([d \in Databento!Min(reading.days) .. (reading.end - 1) |-> market_day], closes)
                   ELSE closes
    BY DEF Databento!EndRead
<1>2. read_end < check_end /\ reading.days = prices /\ reading.end = check_end
    BY <1>1 DEF HiddenIInv, ReadKnowsDays, DatabentoIInv, ChecksInOrder
<1>3. /\ market_day \in Nat /\ check_end \in Nat /\ read_end \in Nat /\ checked_end \in Nat
      /\ checked_end <= read_end /\ DOMAIN stored \subseteq 1 .. MaxDay
    BY DEF HiddenIInv, DatabentoIInv, BarsAreInForm, ChecksInOrder
<1>4. Margin \in Nat /\ 1 <= Margin
    BY MarketAssumption
<1>5. /\ prices \subseteq 1 .. MaxDay
      /\ \A d \in DOMAIN stored : read_end - Margin <= d /\ d < check_end => d \in prices
      /\ check_end - 1 \in prices
      /\ \A d \in prices : read_end # 0 => read_end - Margin <= d
    BY <1>2, <1>3, DaysOfCheck
<1>6. first \in prices /\ \A d \in prices : first <= d
    BY <1>5, FirstAndLast
<1> HIDE DEF prices, first
<1>7. first \in Nat /\ \A d \in prices : d \in Nat
    BY <1>5, <1>6
<1>8. has_closes' = answered /\ read_end' = check_end /\ prices # {}
    BY <1>1, <1>2, <1>5
<1>9. answered => closes' = Databento!Over([d \in first .. (check_end - 1) |-> market_day], closes)
    BY <1>1, <1>2 DEF first
<1>10. ASSUME answered
       PROVE  /\ DOMAIN closes' = (first .. (check_end - 1)) \cup DOMAIN closes
              /\ \A d \in first .. (check_end - 1) : closes'[d] = market_day
              /\ \A d \in DOMAIN closes \ (first .. (check_end - 1)) : closes'[d] = closes[d]
    BY <1>9, <1>10 DEF Databento!Over
<1>11. \A d \in DOMAIN closes : closes[d] \in Nat /\ closes[d] <= market_day
    BY DEF HiddenIInv, ReadKnowsDays
<1>12. DaysGoForward'
    BY <1>1 DEF HiddenIInv, DaysGoForward, Databento!Idle
<1>13. ReadKnowsDays'
    <2>1. \A d \in DOMAIN closes' : closes'[d] \in Nat /\ closes'[d] <= market_day
        <3>1. CASE answered
            BY <1>3, <1>10, <1>11, <3>1
        <3>2. CASE ~answered
            BY <1>1, <1>11, <3>2
        <3> QED
            BY <3>1, <3>2
    <2>2. ASSUME answered, NEW d \in DOMAIN stored, check_end - Margin <= d, d < check_end
          PROVE  d \in DOMAIN closes'
        <3>1. d \in Nat /\ read_end - Margin <= d
            BY <1>2, <1>3, <1>4, <2>2
        <3>2. d \in prices
            BY <1>5, <2>2, <3>1
        <3>3. d \in first .. (check_end - 1)
            BY <1>3, <1>6, <1>7, <2>2, <3>1, <3>2
        <3> QED
            BY <1>10, <2>2, <3>3
    <2>3. reading' = Databento!Idle /\ Databento!Idle' = Databento!Idle
        BY <1>1 DEF Databento!Idle
    <2>4. has_closes' \in BOOLEAN
        BY <1>8
    <2>5. (\A d \in DOMAIN closes : closes[d] \in Nat /\ closes[d] <= market_day)'
        BY <1>1, <2>1
    <2>6. ASSUME has_closes', NEW d \in DOMAIN stored', (read_end - Margin)' <= d, d < read_end'
          PROVE  d \in DOMAIN closes'
        <3>1. answered
            BY <1>8, <2>6
        <3>2. d \in DOMAIN stored /\ check_end - Margin <= d /\ d < check_end
            BY <1>1, <1>8, <2>6
        <3> QED
            BY <2>2, <3>1, <3>2
    <2> QED
        BY <2>3, <2>4, <2>5, <2>6 DEF ReadKnowsDays
<1>14. PairsAreChecked'
    <2>1. CheckedPairs' = CheckedPairs
        BY <1>1 DEF CheckedPairs, Databento!StoredPairs
    <2>2. \A s \in CheckedPairs : s \in Nat /\ s < checked_end /\ checked_end # 0 /\ read_end # 0
        BY <1>3, MarketAssumption DEF CheckedPairs, Databento!StoredPairs
    <2>3. \A s \in CheckedPairs : s - 1 \in DOMAIN closes /\ s \notin DOMAIN closes =>
            Databento!HasRow(s) \/ s < read_end - Margin
        BY DEF HiddenIInv, PairsAreChecked
    <2>4. \A s \in CheckedPairs : Databento!IsShown(s) =>
            Databento!HasRow(s) \/ (checked_end < check_end /\ checked_end - Margin <= s - 1)
        BY DEF HiddenIInv, PairsAreChecked
    <2>5. CASE ~answered
        <3>1. closes' = closes /\ has_closes' = FALSE
            BY <1>1, <1>8, <2>5
        <3>2. \A s : Databento!IsShown(s)' = Databento!IsShown(s)
            BY <3>1 DEF Databento!IsShown
        <3>3. \A s \in CheckedPairs : s < read_end - Margin => s < check_end - Margin
            BY <1>2, <1>3, <1>4, <2>2
        <3> QED
            BY <1>1, <1>8, <2>1, <3>1, <3>2, <3>3 DEF HiddenIInv, PairsAreChecked
    <2>6. CASE answered
        <3>1. read_end - Margin <= first \/ CheckedPairs = {}
            BY <1>5, <1>6, <2>2
        <3>2. ASSUME NEW s \in CheckedPairs, s - 1 \in DOMAIN closes', s \notin DOMAIN closes'
              PROVE  s < check_end - Margin \/ Databento!HasRow(s)
            <4>1. s < first /\ s \notin DOMAIN closes
                BY <1>2, <1>3, <1>7, <1>10, <2>2, <2>6, <3>2
            <4>2. s - 1 \in DOMAIN closes
                BY <1>7, <1>10, <2>2, <2>6, <3>2, <4>1
            <4>3. Databento!HasRow(s) \/ s < read_end - Margin
                BY <2>3, <4>1, <4>2
            <4> QED
                BY <1>2, <1>3, <1>4, <2>2, <4>3
        <3>3. ASSUME NEW s \in CheckedPairs, Databento!IsShown(s)'
              PROVE  Databento!HasRow(s) \/ (checked_end < check_end /\ checked_end - Margin <= s - 1)
            <4>1. /\ {s - 1, s} \subseteq DOMAIN closes' /\ s <= closes'[s - 1]
                  /\ ~\E t \in Splits : closes'[s - 1] < t /\ t <= closes'[s]
                BY <3>3 DEF Databento!IsShown
            <4>2. s \in Nat /\ s - 1 < check_end - 1 /\ s < check_end
                BY <1>2, <1>3, <2>2
            <4>3. CASE first <= s - 1
                <5>1. read_end - Margin <= s - 1
                    BY <1>3, <1>4, <1>7, <3>1, <4>2, <4>3
                <5> QED
                    BY <1>2, <1>3, <1>4, <4>2, <5>1
            <4>4. CASE s < first
                <5>1. s \in DOMAIN closes /\ s - 1 \in DOMAIN closes /\ closes'[s] = closes[s]
                      /\ closes'[s - 1] = closes[s - 1]
                    BY <1>7, <1>10, <2>6, <4>1, <4>2, <4>4
                <5>2. Databento!IsShown(s)
                    BY <4>1, <5>1 DEF Databento!IsShown
                <5> QED
                    BY <2>4, <5>2
            <4>5. CASE s = first
                <5>1. s - 1 \in DOMAIN closes /\ closes'[s - 1] = closes[s - 1] /\ closes'[s] = market_day
                    <6>1. s - 1 \notin first .. (check_end - 1) /\ s \in first .. (check_end - 1)
                        BY <1>3, <1>7, <4>2, <4>5
                    <6> QED
                        BY <1>10, <2>6, <4>1, <6>1
                <5>2. CASE s \in DOMAIN closes
                    <6>1. \A t \in Splits : t \in Nat /\ (t <= closes[s] => t <= market_day)
                        BY <1>3, <1>11, <5>2, MarketAssumption
                    <6>2. Databento!IsShown(s)
                        BY <4>1, <5>1, <5>2, <6>1 DEF Databento!IsShown
                    <6> QED
                        BY <2>4, <6>2
                <5>3. CASE s \notin DOMAIN closes
                    <6>1. Databento!HasRow(s) \/ s < read_end - Margin
                        BY <2>3, <5>1, <5>3
                    <6> QED
                        BY <1>3, <1>4, <3>1, <4>2, <4>5, <6>1
                <5> QED
                    BY <5>2, <5>3
            <4> QED
                BY <1>7, <4>2, <4>3, <4>4, <4>5
        <3>4. DOMAIN closes' # {}
            <4>1. first \in first .. (check_end - 1)
                BY <1>3, <1>5, <1>6, <1>7
            <4> QED
                BY <1>10, <2>6, <4>1
        <3> QED
            BY <1>1, <1>8, <2>1, <3>2, <3>3, <3>4 DEF PairsAreChecked
    <2> QED
        BY <2>5, <2>6
<1> QED
    BY <1>12, <1>13, <1>14

\* A check keeps what the checks know: of the days that it looks at, it finds each stock split that the closes show, and
\* without an answer each one that has no row.
ApplyFinds(s) ==
    /\ ~has_closes => Databento!HasRow(s)'
    /\ Databento!IsShown(s) => Databento!HasRow(s)'

\* The rows after a check.
LEMMA ApplyFindsSplits ==
    ASSUME HiddenIInv, Databento!Apply, \A s : Databento!HasRow(s) => Databento!HasRow(s)',
           NEW s \in Databento!StoredPairs, s < check_end, checked_end - Margin <= s - 1
    PROVE  ApplyFinds(s)
<1> DEFINE prices == Databento!StoredPrices(Databento!FindReadStart(checked_end))
<1>1. checked_end < check_end /\ checked_end \in Nat /\ check_end \in Nat /\ BarsAreInForm
    BY DEF Databento!Apply, Databento!NeedsApply, HiddenIInv, DatabentoIInv, ChecksInOrder
<1>2. s \in Splits /\ s \in Nat /\ {s - 1, s} \subseteq DOMAIN stored /\ s \in 2 .. MaxDay
    <2>1. s \in Splits /\ {s - 1, s} \subseteq DOMAIN stored
        BY DEF Databento!StoredPairs
    <2>2. s \in Nat /\ MaxDay \in Nat
        BY <2>1, MarketAssumption
    <2>3. s - 1 \in 1 .. MaxDay /\ s \in 1 .. MaxDay
        BY <1>1, <2>1 DEF BarsAreInForm
    <2> QED
        BY <2>1, <2>2, <2>3
<1>3. {s - 1, s} \subseteq prices
    <2>1. Margin \in Nat
        BY MarketAssumption
    <2>2. checked_end - Margin <= s
        BY <1>1, <1>2, <2>1
    <2>3. s - 1 < check_end
        BY <1>1, <1>2
    <2> QED
        BY <1>1, <1>2, <2>2, <2>3, DaysOfCheck
<1>4. prices \subseteq DOMAIN stored
    BY DEF Databento!StoredPrices
<1>5. \A d \in DOMAIN closes : closes[d] \in Nat
    BY DEF HiddenIInv, ReadKnowsDays
<1> HIDE DEF prices
<1>6. CASE rows[s] # "none"
    <2>1. Databento!HasRow(s)
        BY <1>2, <1>6 DEF Databento!HasRow, Databento!ExDays, Databento!MatchDays
    <2> QED
        BY <2>1 DEF ApplyFinds
<1>7. CASE rows[s] = "none"
    <2>1. PICK proven, waiting_ :
            /\ rows' = [x \in 2 .. MaxDay |-> IF x \in proven THEN "bar_evidence"
                                              ELSE IF x \in waiting_ THEN "waiting" ELSE rows[x]]
            /\ proven = IF has_closes
                        THEN Databento!FoundSteps(prices, TRUE) \cap {x \in 2 .. MaxDay : rows[x] = "none"} ELSE {}
            /\ waiting_ = (IF has_closes THEN Databento!FoundSteps(prices, FALSE)
                           ELSE Databento!Detected(Databento!Restrict(stored, prices)))
                          \cap {x \in 2 .. MaxDay : rows[x] = "none"}
        BY DEF Databento!Apply, Databento!ExDays, prices
    <2>2. s \in proven \cup waiting_ => Databento!HasRow(s)'
        <3>1. s \in proven \cup waiting_ => rows'[s] # "none"
            BY <1>2, <2>1
        <3> QED
            BY <1>2, <3>1 DEF Databento!HasRow, Databento!ExDays, Databento!MatchDays
    <2>3. ~has_closes => s \in waiting_
        BY <1>1, <1>2, <1>3, <1>4, <1>7, <2>1, RuleDetects
    <2>4. has_closes /\ Databento!IsShown(s) => s \in proven \cup waiting_
        BY <1>1, <1>2, <1>3, <1>4, <1>5, <1>7, <2>1, StepIsFound
    <2> QED
        BY <2>2, <2>3, <2>4 DEF ApplyFinds
<1> QED
    BY <1>6, <1>7

\* Thus it keeps what the checks know.
LEMMA ApplyKeeps ==
    ASSUME HiddenIInv, Databento!Apply, \A s : Databento!HasRow(s) => Databento!HasRow(s)'
    PROVE  (DaysGoForward /\ ReadKnowsDays /\ PairsAreChecked)'
<1>1. /\ UNCHANGED <<market_day, import, check_end, read_end, has_closes, closes, reading>>
      /\ DOMAIN stored' = DOMAIN stored /\ reading = Databento!Idle /\ checked_end' = check_end
      /\ read_end >= check_end /\ checked_end < check_end
    BY DEF Databento!Apply, Databento!NeedsApply, Databento!ChangeStoredBars, Databento!Divide
<1>2. /\ check_end \in Nat /\ read_end \in Nat /\ checked_end \in Nat /\ read_end = check_end
    BY <1>1 DEF HiddenIInv, DatabentoIInv, ChecksInOrder
<1>3. Margin \in Nat /\ 1 <= Margin
    BY MarketAssumption
<1>4. DaysGoForward'
    BY <1>1 DEF HiddenIInv, DaysGoForward, Databento!Idle
<1>5. ReadKnowsDays'
    BY <1>1 DEF HiddenIInv, ReadKnowsDays, Databento!Idle
<1>6. \A s \in CheckedPairs' : s \in Databento!StoredPairs /\ s \in Nat /\ s < check_end
    BY <1>1, MarketAssumption DEF CheckedPairs, Databento!StoredPairs
<1>7. \A s \in CheckedPairs' : s \in CheckedPairs \/ checked_end - Margin <= s - 1
    BY <1>2, <1>3, <1>6 DEF CheckedPairs
<1>8. \A s : Databento!IsShown(s)' = Databento!IsShown(s)
    BY <1>1 DEF Databento!IsShown
<1>9. \A s \in CheckedPairs' : checked_end - Margin <= s - 1 => ApplyFinds(s)
    BY <1>6, ApplyFindsSplits
<1>10. ASSUME NEW s \in CheckedPairs', s - 1 \in DOMAIN closes, s \notin DOMAIN closes
       PROVE  Databento!HasRow(s)' \/ s < read_end - Margin
    <2>1. CASE has_closes
        <3>1. s \in DOMAIN stored /\ s < read_end
            BY <1>2, <1>6 DEF Databento!StoredPairs
        <3>2. ~(read_end - Margin <= s)
            BY <1>10, <2>1, <3>1 DEF HiddenIInv, ReadKnowsDays
        <3> QED
            BY <1>2, <1>3, <1>6, <3>2
    <2>2. CASE ~has_closes /\ checked_end - Margin <= s - 1
        BY <1>9, <2>2 DEF ApplyFinds
    <2>3. CASE s \in CheckedPairs
        BY <1>10, <2>3 DEF HiddenIInv, PairsAreChecked
    <2> QED
        BY <1>7, <2>1, <2>2, <2>3
<1>11. ASSUME NEW s \in CheckedPairs', Databento!IsShown(s) PROVE Databento!HasRow(s)'
    <2>1. CASE checked_end - Margin <= s - 1
        BY <1>9, <1>11, <2>1 DEF ApplyFinds
    <2>2. CASE s \in CheckedPairs /\ ~(checked_end - Margin <= s - 1)
        BY <1>11, <2>2 DEF HiddenIInv, PairsAreChecked
    <2> QED
        BY <1>7, <2>1, <2>2
<1>12. DOMAIN closes = {} => ~has_closes /\ \A s \in CheckedPairs' : Databento!HasRow(s)'
    <2> SUFFICES ASSUME DOMAIN closes = {} PROVE ~has_closes /\ \A s \in CheckedPairs' : Databento!HasRow(s)'
        OBVIOUS
    <2>1. ~has_closes /\ \A s \in CheckedPairs : Databento!HasRow(s)
        BY DEF HiddenIInv, PairsAreChecked
    <2> QED
        BY <1>7, <1>9, <2>1 DEF ApplyFinds
<1>13. PairsAreChecked'
    BY <1>1, <1>8, <1>10, <1>11, <1>12 DEF PairsAreChecked
<1> QED
    BY <1>4, <1>5, <1>13

\* Each step keeps the invariant of the checks.
LEMMA HiddenStep == HiddenIInv /\ (Databento!Next \/ UNCHANGED databento) => HiddenIInv'
<1>1. ASSUME HiddenIInv, Databento!Next PROVE HiddenIInv'
    <2>1. DatabentoIInv /\ DatabentoIInv'
        BY <1>1, DatabentoStep DEF HiddenIInv
    <2>2. \A s : Databento!HasRow(s) => Databento!HasRow(s)'
        BY <1>1, <2>1, RowsStay
    <2>3. IsQuiet \/ Databento!Save \/ Databento!Apply \/ \E answered \in BOOLEAN : Databento!EndRead(answered)
        BY <1>1, <2>1, QuietSteps
    <2>4. (DaysGoForward /\ ReadKnowsDays /\ PairsAreChecked)'
        BY <1>1, <2>1, <2>2, <2>3, QuietKeeps, SaveKeeps, ApplyKeeps, EndReadKeeps
    <2> QED
        BY <2>1, <2>4 DEF HiddenIInv
<1>2. ASSUME HiddenIInv, UNCHANGED databento PROVE HiddenIInv'
    <2>1. DatabentoIInv'
        BY <1>2, DatabentoStep DEF HiddenIInv
    <2>2. \A s : Databento!HasRow(s)' = Databento!HasRow(s)
        BY <1>2 DEF databento, Databento!HasRow, Databento!ExDays, Databento!MatchDays
    <2>3. IsQuiet
        BY <1>2 DEF databento, IsQuiet, HiddenIInv, DatabentoIInv, ChecksInOrder
    <2> QED
        BY <1>2, <2>1, <2>2, <2>3, QuietKeeps DEF HiddenIInv
<1> QED
    BY <1>1, <1>2

\* Before the first import there is nothing to know.
LEMMA HiddenInit == Init => HiddenIInv
<1> SUFFICES ASSUME Init PROVE HiddenIInv
    OBVIOUS
<1>1. /\ stored = [d \in {} |-> Databento!Raw] /\ import = Databento!Idle /\ reading = Databento!Idle
      /\ check_end = 0 /\ read_end = 0 /\ checked_end = 0 /\ has_closes = FALSE /\ closes = [d \in {} |-> 0]
    BY DEF Init, Databento!Init
<1>2. DOMAIN stored = {} /\ DOMAIN closes = {}
    BY <1>1
<1>3. DaysGoForward
    BY <1>1, <1>2 DEF DaysGoForward
<1>4. ReadKnowsDays
    BY <1>1, <1>2 DEF ReadKnowsDays
<1>5. CheckedPairs = {}
    BY <1>2 DEF CheckedPairs, Databento!StoredPairs
<1>6. PairsAreChecked
    BY <1>1, <1>5 DEF PairsAreChecked
<1> QED
    BY <1>3, <1>4, <1>6, DatabentoInit DEF HiddenIInv

\* No stock split stays hidden: when the IBKR stock split check has ended, each stock split of the checked days that the
\* closes show has a row, in whatever reads and imports its days came; without any close each one has a row.
THEOREM NoSplitStaysHidden == Spec => []NoSplitIsHidden
<1>1. Init => HiddenIInv
    BY HiddenInit
<1>2. HiddenIInv /\ [Next]_vars => HiddenIInv'
    <2> SUFFICES ASSUME HiddenIInv, [Next]_vars PROVE HiddenIInv'
        OBVIOUS
    <2>1. Databento!Next \/ UNCHANGED databento
        BY DEF Next, MarketStep, vars, market
    <2> QED
        BY <2>1, HiddenStep
<1>3. HiddenIInv => NoSplitIsHidden
    <2> SUFFICES ASSUME HiddenIInv, Databento!IsChecked, NEW s \in Databento!StoredPairs, s < checked_end,
                        Databento!IsShown(s) \/ DOMAIN closes = {}
                 PROVE  Databento!HasRow(s)
        BY DEF NoSplitIsHidden, Databento!CheckedDaysHideNoSplit
    <2>1. checked_end = check_end /\ check_end \in Nat
        BY DEF Databento!IsChecked, HiddenIInv, DatabentoIInv, ChecksInOrder
    <2>2. s \in CheckedPairs
        BY DEF CheckedPairs
    <2> QED
        BY <2>1, <2>2 DEF HiddenIInv, PairsAreChecked
<1> QED
    BY <1>1, <1>2, <1>3, PTL DEF Spec
=============================================================================
