----------------------------- MODULE GatewayLink -----------------------------
(***************************************************************************)
(* One connection of ATrade to IB Gateway: the API socket, the link of IB  *)
(* Gateway to the IBKR servers behind it, the historical data requests and *)
(* live bar streams that use them, and the check of the paper account that *)
(* the Web process makes once for each connection.                         *)
(*                                                                         *)
(* IB Gateway can keep the socket without its link: a request then gets no *)
(* answer. `link_lost` is what ATrade believes, `link` is the truth. The   *)
(* Web process keeps its connection and checks the link (keep_connected);  *)
(* a child process connects, and its execution client connects again.      *)
(***************************************************************************)
EXTENDS Integers, FiniteSets

CONSTANTS
    Requests,       \* historical data requests
    Streams,        \* live bar streams
    MaxDrops        \* bound: losses of the socket and of the link

VARIABLES
    kept,           \* keep_connected runs
    keeper,         \* its step, or the step of connect()
    socket,         \* ib.isConnected()
    synchronized,
    number,         \* connection_number
    link_lost,      \* ibkr_link_lost
    retry_passed,   \* the time is past ibkr_link_retry_at
    request,        \* the state of each request
    stream,         \* the step of each stream
    subscription,   \* external: the streams that IBKR sends updates to
    link,           \* external: IB Gateway has its link to IBKR
    login,          \* external: the kind of account that IB Gateway is logged in to
    checked,        \* PaperAccountMonitor: checked_connection_number (0 for None) and the result
    drops

ibStatus == <<keeper, socket, synchronized, number, link_lost, retry_passed>>
uses == <<request, stream, subscription>>
world == <<link, login, drops>>
linkVars == <<kept, ibStatus, uses, world, checked>>

\* read_status.
Status ==
    IF ~(synchronized /\ socket) THEN "unreachable"
    ELSE IF link_lost THEN "no_ibkr_connection" ELSE "connected"

FlagsOK ==
    /\ kept \in BOOLEAN /\ socket \in BOOLEAN /\ synchronized \in BOOLEAN
    /\ link_lost \in BOOLEAN /\ retry_passed \in BOOLEAN /\ link \in BOOLEAN
LinkTypeOK ==
    /\ FlagsOK
    /\ keeper \in {"sleep", "connecting", "synchronizing", "checking"}
    /\ number \in Nat
    /\ request \in [Requests -> {"none", "waiting", "lost"}]
    /\ stream \in [Streams -> {"none", "subscribing", "live", "failed"}]
    /\ subscription \subseteq Streams
    /\ login \in {"paper", "other"}
    /\ checked \in [number : Nat, result : {"disconnected", "passed", "failed"}]
    /\ drops \in 0 .. MaxDrops

Init ==
    /\ kept \in BOOLEAN
    /\ keeper = "sleep"
    /\ socket = FALSE /\ synchronized = FALSE /\ number = 0
    /\ link_lost = FALSE /\ retry_passed = FALSE
    /\ request = [r \in Requests |-> "none"]
    /\ stream = [s \in Streams |-> "none"]
    /\ subscription = {}
    /\ link = TRUE
    /\ login \in {"paper", "other"}
    /\ checked = [number |-> 0, result |-> "disconnected"]
    /\ drops = 0

MarkLost == link_lost' = TRUE /\ retry_passed' = FALSE
MarkRestored == link_lost' = FALSE /\ UNCHANGED retry_passed

-----------------------------------------------------------------------------
(* keep_connected and try_to_connect.                                      *)

TryToConnect ==
    /\ keeper = "sleep" /\ ~socket
    /\ keeper' = "connecting"
    /\ synchronized' = FALSE
    /\ link_lost' = FALSE
    /\ UNCHANGED <<kept, socket, number, retry_passed, uses, world, checked>>

\* ib_async reports the socket before it has read the accounts and the open orders.
OpenSocket ==
    /\ keeper = "connecting"
    /\ socket' = TRUE
    /\ keeper' = "synchronizing"
    /\ login' \in {"paper", "other"}
    /\ UNCHANGED <<kept, synchronized, number, link_lost, retry_passed, uses, link, drops, checked>>

\* A socket that was lost in the meantime ends connectAsync with an error.
Synchronize ==
    /\ keeper = "synchronizing"
    /\ keeper' = "sleep"
    /\ synchronized' = socket
    /\ number' = IF socket THEN number + 1 ELSE number
    /\ UNCHANGED <<kept, socket, link_lost, retry_passed, uses, world, checked>>

StartLinkCheck ==
    /\ kept /\ keeper = "sleep" /\ socket /\ synchronized
    /\ keeper' = "checking"
    /\ UNCHANGED <<kept, socket, synchronized, number, link_lost, retry_passed, uses, world, checked>>

\* check_ibkr_link: an answer proves the link, a timeout loses it, a lost socket ends the check.
EndLinkCheck ==
    /\ keeper = "checking"
    /\ keeper' = "sleep"
    /\ IF ~socket THEN UNCHANGED <<link_lost, retry_passed>>
       ELSE IF link THEN MarkRestored ELSE MarkLost
    /\ UNCHANGED <<kept, socket, synchronized, number, uses, world, checked>>

-----------------------------------------------------------------------------
(* Requests and streams.                                                   *)

\* require_ibkr_link: while the link is lost, one request in an interval tries again and the others fail at once.
PassesLink == ~link_lost \/ retry_passed
TakeRetry == retry_passed' = IF link_lost THEN FALSE ELSE retry_passed

RetryTimePasses ==
    /\ link_lost /\ ~retry_passed
    /\ retry_passed' = TRUE
    /\ UNCHANGED <<kept, keeper, socket, synchronized, number, link_lost, uses, world, checked>>

\* A request that is sent without the link, or whose link goes before the answer, never gets one.
RequestHistoricalData(r) ==
    /\ request[r] = "none" /\ socket /\ PassesLink
    /\ TakeRetry
    /\ request' = [request EXCEPT ![r] = IF link THEN "waiting" ELSE "lost"]
    /\ UNCHANGED <<kept, keeper, socket, synchronized, number, link_lost, stream, subscription, world, checked>>

\* Bars or an API error.
ReceiveHistoricalDataUnmarked(r) ==
    /\ request[r] = "waiting"
    /\ request' = [request EXCEPT ![r] = "none"]
    /\ UNCHANGED <<link_lost, retry_passed>>
    /\ UNCHANGED <<kept, keeper, socket, synchronized, number, stream, subscription, world, checked>>

ReceiveHistoricalData(r) ==
    /\ request[r] = "waiting"
    /\ request' = [request EXCEPT ![r] = "none"]
    /\ MarkRestored
    /\ UNCHANGED <<kept, keeper, socket, synchronized, number, stream, subscription, world, checked>>

\* The timeout can come after the link is back.
TimeOut(r) ==
    /\ request[r] = "lost"
    /\ request' = [request EXCEPT ![r] = "none"]
    /\ MarkLost
    /\ UNCHANGED <<kept, keeper, socket, synchronized, number, stream, subscription, world, checked>>

SubscribeToLiveBars(s) ==
    /\ stream[s] = "none" /\ socket /\ PassesLink
    /\ TakeRetry
    /\ stream' = [stream EXCEPT ![s] = "subscribing"]
    /\ UNCHANGED <<kept, keeper, socket, synchronized, number, link_lost, request, subscription, world, checked>>

\* One instrument can have no answer: the stream fails and the link keeps its mark.
EndSubscribe(s) ==
    /\ stream[s] = "subscribing"
    /\ \/ /\ socket /\ link
          /\ stream' = [stream EXCEPT ![s] = "live"]
          /\ subscription' = subscription \cup {s}
       \/ /\ stream' = [stream EXCEPT ![s] = "failed"]
          /\ UNCHANGED subscription
    /\ UNCHANGED <<kept, ibStatus, request, world, checked>>

\* stream_live_bars looks at the connection after a second without an update.
LooksLost == ~socket \/ link_lost

CheckStream(s) ==
    /\ stream[s] = "live"
    /\ s \notin subscription \/ ~link
    /\ stream' = [stream EXCEPT ![s] = IF LooksLost THEN "failed" ELSE "live"]
    /\ subscription' = IF LooksLost THEN subscription \ {s} ELSE subscription
    /\ UNCHANGED <<kept, ibStatus, request, world, checked>>

\* The caller closes the stream, or opens a failed one again.
CloseStream(s) ==
    /\ stream[s] \in {"subscribing", "live", "failed"}
    /\ stream' = [stream EXCEPT ![s] = "none"]
    /\ subscription' = subscription \ {s}
    /\ UNCHANGED <<kept, ibStatus, request, world, checked>>

-----------------------------------------------------------------------------
(* PaperAccountMonitor.refresh, from its loop and before each use.         *)

Refresh ==
    /\ kept
    /\ checked' =
        IF Status # "connected" THEN [number |-> 0, result |-> "disconnected"]
        ELSE IF checked.number = number THEN checked
        ELSE [number |-> number, result |-> IF login = "paper" THEN "passed" ELSE "failed"]
    /\ UNCHANGED <<kept, ibStatus, uses, world>>

-----------------------------------------------------------------------------
(* IB Gateway (external).                                                  *)

Drop == drops < MaxDrops /\ drops' = drops + 1

LoseSocket ==
    /\ socket /\ Drop
    /\ socket' = FALSE
    /\ request' = [r \in Requests |-> "none"]
    /\ stream' = [s \in Streams |-> IF stream[s] = "subscribing" THEN "failed" ELSE stream[s]]
    /\ subscription' = {}
    /\ UNCHANGED <<kept, keeper, synchronized, number, link_lost, retry_passed, link, login, checked>>

\* With the message 1100 or 2110, or without one.
LoseLink ==
    /\ link /\ Drop
    /\ link' = FALSE
    /\ request' = [r \in Requests |-> IF request[r] = "waiting" THEN "lost" ELSE request[r]]
    /\ \/ socket /\ MarkLost
       \/ UNCHANGED <<link_lost, retry_passed>>
    /\ UNCHANGED <<kept, keeper, socket, synchronized, number, stream, subscription, login, checked>>

\* With 1102 or without a message; 1101 says that the subscriptions are gone, after each stream has seen the loss.
RestoreLink ==
    /\ ~link
    /\ link' = TRUE
    /\ \/ socket /\ MarkRestored /\ UNCHANGED subscription
       \/ /\ socket /\ MarkRestored
          /\ \A s \in Streams : stream[s] # "live"
          /\ subscription' = {}
       \/ UNCHANGED <<link_lost, retry_passed, subscription>>
    /\ UNCHANGED <<kept, keeper, socket, synchronized, number, request, stream, login, drops, checked>>

-----------------------------------------------------------------------------
KeepConnected == TryToConnect \/ OpenSocket \/ Synchronize \/ StartLinkCheck \/ EndLinkCheck

Next ==
    \/ KeepConnected \/ RetryTimePasses \/ Refresh
    \/ \E r \in Requests : RequestHistoricalData(r) \/ ReceiveHistoricalData(r) \/ TimeOut(r)
    \/ \E s \in Streams : SubscribeToLiveBars(s) \/ EndSubscribe(s) \/ CheckStream(s) \/ CloseStream(s)
    \/ LoseSocket \/ LoseLink \/ RestoreLink

\* keep_connected and the fill check of a child run for ever, a request has its timeout, a stream looks each second, and
\* in a process without keep_connected some request comes after each interval.
Fairness ==
    /\ WF_linkVars(KeepConnected)
    /\ WF_linkVars(RetryTimePasses)
    /\ \A s \in Streams : WF_linkVars(CheckStream(s))
    /\ \A r \in Requests :
        /\ WF_linkVars(ReceiveHistoricalData(r) \/ TimeOut(r))
        /\ SF_linkVars(~kept /\ RequestHistoricalData(r))

Spec == Init /\ [][Next]_linkVars /\ Fairness

-----------------------------------------------------------------------------
\* ATrade finds a link that is back, also when no message says so or when the timeout of an old request marks it as
\* lost again: the Web process by its own check, a child by the one request that may try.
LinkComesBack ==
    socket /\ link ~> Status = "connected" \/ ~link \/ ~socket

\* A passed paper account check never stands for a later connection, which can be one to another account, also when
\* the socket was lost and came back between two refreshes.
PassedCheckIsOfThisLogin ==
    (checked.result = "passed" /\ Status = "connected" /\ checked.number = number) => login = "paper"
=============================================================================
