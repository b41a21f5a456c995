--------------------------- MODULE ExecutionClient ---------------------------
(***************************************************************************)
(* One run of the LiveNode of a forward test: the execution client sends   *)
(* the orders of the strategy to IBKR, and its fill check brings each      *)
(* execution into the owner ledger and to the strategy, connects again     *)
(* after a socket loss, and finds the orders that IBKR ended without a     *)
(* fill.                                                                   *)
(*                                                                         *)
(* The checks of the owner ledger are in OwnerLedger: here they pass or    *)
(* refuse.                                                                 *)
(***************************************************************************)
EXTENDS Integers, FiniteSets

CONSTANTS
    Orders,         \* the orders of the strategy in this run
    Parts,          \* bound: the executions of each order until it is filled
    MaxFaults       \* bound: lost sockets, failed reads and failed saves

Executions == UNION {{<<o, n>> : n \in 1 .. Parts[o]} : o \in Orders}
OrderStates == {"none", "checking", "denied", "rejected", "open", "filled", "canceled"}
LoopSteps == {"sleep", "read", "fills", "account", "orders", "ended", "stopped"}

VARIABLES
    engine,         \* the status of each order in the cache of the engine
    asked,          \* the orders whose cancel the strategy asked for
    young,          \* sent orders of the last open order check interval
    known,          \* saved_execution_ids of the sent orders
    events,         \* the fill events of each execution that the strategy got
    loop,           \* the step of check_fills, or of the last read of _disconnect
    batch,          \* the executions of the last answer that the loop has not handled yet
    open_ids,       \* the open orders of the last answer
    old,            \* the sent orders that this open order check looks at
    unproved,       \* is_open_order_list_unproved
    stopping,       \* the node stops: the fill check is cancelled
    ledger,         \* external: the executions in the owner ledger
    ibkr,           \* external: each order at IBKR
    executed,       \* external: the executions of each order
    held,           \* external: the executions without a commission report
    socket,         \* external: the API connection
    late,           \* external: IBKR sends the open orders late after a restart of IB Gateway
    faults

market == <<ibkr, executed, held>>
link == <<socket, late>>
check == <<loop, batch, open_ids, old, unproved, stopping>>
client == <<engine, asked, young, known, events, ledger>>
variables == <<client, check, market, link, faults>>

Executed == {e \in Executions : e[2] <= executed[e[1]]}
Sent == {o \in Orders : ibkr[o] # "none"}

FlagsOK == unproved \in BOOLEAN /\ stopping \in BOOLEAN /\ socket \in BOOLEAN /\ late \in BOOLEAN
ClientTypeOK ==
    /\ engine \in [Orders -> OrderStates]
    /\ asked \subseteq Orders /\ young \subseteq Sent /\ old \subseteq Sent /\ open_ids \subseteq Sent
    /\ known \subseteq ledger /\ ledger \subseteq Executed /\ held \subseteq Executed /\ batch \subseteq Executed
    /\ events \in [Executions -> Nat]
    /\ loop \in LoopSteps
    /\ FlagsOK
    /\ ibkr \in [Orders -> {"none", "working", "done"}]
    /\ executed \in [Orders -> Nat] /\ \A o \in Orders : executed[o] <= Parts[o]
    /\ faults \in 0 .. MaxFaults

Init ==
    /\ engine = [o \in Orders |-> "none"]
    /\ asked = {} /\ young = {} /\ known = {} /\ batch = {} /\ open_ids = {} /\ old = {} /\ ledger = {} /\ held = {}
    /\ events = [e \in Executions |-> 0]
    /\ loop = "sleep"
    /\ unproved = FALSE /\ stopping = FALSE /\ socket = TRUE /\ late = FALSE
    /\ ibkr = [o \in Orders |-> "none"]
    /\ executed = [o \in Orders |-> 0]
    /\ faults = 0

Fault == faults < MaxFaults /\ faults' = faults + 1
\* A request fails without a connection.
RequestFails == IF socket THEN Fault ELSE UNCHANGED faults
Running == ~stopping /\ loop # "stopped"

-----------------------------------------------------------------------------
(* The commands of the strategy.                                           *)

SubmitOrder(o) ==
    /\ Running
    /\ engine[o] = "none"
    /\ engine' = [engine EXCEPT ![o] = "checking"]
    /\ UNCHANGED <<asked, young, known, events, ledger, check, market, link, faults>>

\* The answer of check_order. The send, the entry of sent_orders and the accepted event have no await between them.
PlaceOrder(o) ==
    /\ loop # "stopped"
    /\ engine[o] = "checking"
    /\ \/ /\ engine' = [engine EXCEPT ![o] = IF socket THEN "denied" ELSE "rejected"]
          /\ UNCHANGED <<young, ibkr>>
       \/ /\ socket
          /\ engine' = [engine EXCEPT ![o] = "open"]
          /\ young' = young \cup {o}
          /\ ibkr' = [ibkr EXCEPT ![o] = "working"]
    /\ UNCHANGED <<asked, known, events, ledger, check, executed, held, link, faults>>

\* Without a connection the strategy gets a cancel rejection and the order stays open.
CancelOrder(o) ==
    /\ Running /\ socket
    /\ engine[o] = "open"
    /\ engine' = [engine EXCEPT ![o] = "canceled"]
    /\ asked' = asked \cup {o}
    /\ UNCHANGED <<young, known, events, ledger, check, market, link, faults>>

-----------------------------------------------------------------------------
(* check_fills.                                                            *)

\* reconnect_after_socket_loss. Only a lost socket connects again.
Reconnect ==
    /\ Running
    /\ loop = "sleep"
    /\ loop' = "read"
    /\ \/ /\ ~socket
          /\ socket' = TRUE
          /\ late' \in BOOLEAN
          /\ unproved' = TRUE
          /\ UNCHANGED faults
       \/ /\ IF socket THEN UNCHANGED faults ELSE Fault
          /\ UNCHANGED <<unproved, link>>
    /\ UNCHANGED <<client, batch, open_ids, old, stopping, market>>

AfterFills == IF stopping THEN "stopped" ELSE "orders"

\* read_new_fills with the filter of send_new_fills. A read without a connection ends it.
ReadNewFills ==
    /\ loop = "read"
    /\ \/ /\ socket
          /\ batch' = Executed \ (held \cup known)
          /\ loop' = "fills"
          /\ UNCHANGED faults
       \/ /\ RequestFails
          /\ loop' = AfterFills
          /\ UNCHANGED batch
    /\ UNCHANGED <<client, open_ids, old, unproved, stopping, market, link>>

FillsEnd ==
    /\ loop = "fills"
    /\ batch = {}
    /\ loop' = AfterFills
    /\ UNCHANGED <<client, batch, open_ids, old, unproved, stopping, market, link, faults>>

\* send_fill up to the read of the owner cash. The ledger keeps an execution that comes a second time once. A save
\* that fails, after the commit or before it, ends this read: the next one has the execution again.
SaveFill ==
    /\ loop = "fills"
    /\ \E e \in batch :
        \/ /\ ledger' = ledger \cup {e}
           /\ known' = known \cup {e}
           /\ loop' = "account"
           /\ UNCHANGED <<batch, faults>>
        \/ /\ Fault
           /\ ledger' \in {ledger, ledger \cup {e}}
           /\ batch' = {}
           /\ loop' = AfterFills
           /\ UNCHANGED known
    /\ UNCHANGED <<engine, asked, young, events, open_ids, old, unproved, stopping, market, link>>

IsFilled(o) == \A n \in 1 .. Parts[o] : events'[<<o, n>>] > 0

\* The cash read of send_account_state can fail too; then the event goes first and the rest of the answer waits.
SendFillAfterAccount ==
    /\ loop = "account"
    /\ \E e \in batch \cap known :
        \/ /\ events' = [events EXCEPT ![e] = @ + 1]
           /\ engine' = IF IsFilled(e[1]) THEN [engine EXCEPT ![e[1]] = "filled"] ELSE engine
           /\ batch' = batch \ {e}
           /\ loop' = "fills"
           /\ UNCHANGED faults
        \/ /\ Fault
           /\ batch' = {}
           /\ loop' = AfterFills
           /\ UNCHANGED <<events, engine>>
    /\ UNCHANGED <<asked, young, known, ledger, open_ids, old, unproved, stopping, market, link>>

SendFill ==
    /\ loop = "account"
    /\ \E e \in batch \cap known :
        /\ events' = [events EXCEPT ![e] = @ + 1]
        /\ engine' = IF IsFilled(e[1]) THEN [engine EXCEPT ![e[1]] = "filled"] ELSE engine
        /\ \/ batch' = batch \ {e} /\ loop' = "fills" /\ UNCHANGED faults
           \/ batch' = {} /\ loop' = AfterFills /\ Fault
    /\ UNCHANGED <<asked, young, known, ledger, open_ids, old, unproved, stopping, market, link>>

\* check_open_orders before its interval has passed, without a connection, or with a failed read.
SkipOpenOrders ==
    /\ loop = "orders"
    /\ loop' = "sleep"
    /\ UNCHANGED <<client, batch, open_ids, old, unproved, stopping, market, link, faults>>

Working == {o \in Sent : ibkr[o] = "working"}

ReadOpenOrdersUnproved ==
    /\ loop = "orders" /\ socket
    /\ LET answer == IF late THEN {} ELSE Working
       IN  IF unproved /\ answer = {}
           THEN loop' = "sleep" /\ UNCHANGED <<open_ids, old>>
           ELSE loop' = "ended" /\ open_ids' = answer /\ old' = Sent \ young
    /\ late' = FALSE
    /\ UNCHANGED <<client, batch, unproved, stopping, market, socket, faults>>

\* The first part of cancel_ended_orders: the first empty list after a reconnect is no proof.
ReadOpenOrders ==
    /\ loop = "orders" /\ socket
    /\ LET answer == IF late THEN {} ELSE Working
       IN  IF unproved /\ answer = {}
           THEN loop' = "sleep" /\ UNCHANGED <<open_ids, old>>
           ELSE loop' = "ended" /\ open_ids' = answer /\ old' = Sent \ young
    /\ unproved' = FALSE
    /\ late' = FALSE
    /\ UNCHANGED <<client, batch, stopping, market, socket, faults>>

UnsavedWithoutHeld == {e[1] : e \in Executed \ (known \cup held)}

Unsaved == {e[1] : e \in Executed \ known}

\* The second part: the executions come after the open orders, with the held ones.
CancelEnded ==
    /\ loop = "ended"
    /\ loop' = "sleep"
    /\ \/ /\ socket
          /\ engine' = [o \in Orders |->
                IF o \in old \ (open_ids \cup Unsaved) /\ engine[o] = "open" THEN "canceled" ELSE engine[o]]
          /\ UNCHANGED faults
       \/ /\ RequestFails
          /\ UNCHANGED engine
    /\ open_ids' = {} /\ old' = {}
    /\ UNCHANGED <<asked, young, known, events, ledger, batch, unproved, stopping, market, link>>

\* The end of the node, by a stop request or because IB Gateway was lost for too long (wait_for_gateway_loss):
\* _disconnect cancels the task at its await and reads the fills once more. A save that is cancelled can be committed;
\* a cancelled cash read still sends its event.
Stop ==
    /\ Running
    /\ stopping' = TRUE
    /\ loop' = "read"
    /\ batch' = {} /\ open_ids' = {} /\ old' = {}
    /\ \/ /\ loop = "account"
          /\ \E e \in batch \cap known :
                /\ events' = [events EXCEPT ![e] = @ + 1]
                /\ engine' = IF IsFilled(e[1]) THEN [engine EXCEPT ![e[1]] = "filled"] ELSE engine
          /\ UNCHANGED ledger
       \/ /\ loop = "fills"
          /\ \E some \in {{}} \cup {{e} : e \in batch} : ledger' = ledger \cup some
          /\ UNCHANGED <<events, engine>>
       \/ /\ loop \notin {"account", "fills"}
          /\ UNCHANGED <<events, engine, ledger>>
    /\ UNCHANGED <<asked, young, known, unproved, market, link, faults>>

GrowOld(o) ==
    /\ o \in young
    /\ young' = young \ {o}
    /\ UNCHANGED <<engine, asked, known, events, ledger, check, market, link, faults>>

-----------------------------------------------------------------------------
(* IBKR and IB Gateway (external).                                         *)

Execute(o) ==
    /\ ibkr[o] = "working"
    /\ executed' = [executed EXCEPT ![o] = @ + 1]
    /\ ibkr' = IF executed'[o] = Parts[o] THEN [ibkr EXCEPT ![o] = "done"] ELSE ibkr
    /\ held' \in {held, held \cup {<<o, executed'[o]>>}}
    /\ UNCHANGED <<client, check, link, faults>>

\* A cancel, a rejection or the end of the day.
EndOrder(o) ==
    /\ ibkr[o] = "working"
    /\ ibkr' = [ibkr EXCEPT ![o] = "done"]
    /\ UNCHANGED <<client, check, executed, held, link, faults>>

EndHold(e) ==
    /\ e \in held
    /\ held' = held \ {e}
    /\ UNCHANGED <<client, check, ibkr, executed, link, faults>>

LoseSocket ==
    /\ socket
    /\ Fault
    /\ socket' = FALSE
    /\ UNCHANGED <<client, check, market, late>>

-----------------------------------------------------------------------------
Loop ==
    \/ Reconnect \/ ReadNewFills \/ FillsEnd \/ SaveFill \/ SendFill
    \/ SkipOpenOrders \/ ReadOpenOrders \/ CancelEnded

Next ==
    \/ \E o \in Orders : SubmitOrder(o) \/ PlaceOrder(o) \/ CancelOrder(o) \/ GrowOld(o) \/ Execute(o) \/ EndOrder(o)
    \/ Loop \/ Stop \/ LoseSocket
    \/ \E e \in Executions : EndHold(e)

\* The fill check runs for ever with its intervals, an order grows old and a hold has a limit. Only MaxFaults faults
\* happen, so the connection, the reads and the saves work in the end.
Fairness ==
    /\ WF_variables(Loop)
    /\ SF_variables(ReadOpenOrders)
    /\ \A o \in Orders : WF_variables(GrowOld(o))
    /\ \A e \in Executions : WF_variables(EndHold(e))

Spec == Init /\ [][Next]_variables /\ Fairness

-----------------------------------------------------------------------------
\* The strategy gets a cancel only when it asked for one, or when IBKR has ended the order and the strategy has each
\* execution of it: a wrong cancel makes it order again.
EachCancelIsTrue ==
    [][\A o \in Orders : engine[o] # "canceled" /\ engine'[o] = "canceled" =>
            \/ o \in asked'
            \/ ibkr[o] = "done" /\ \A n \in 1 .. executed[o] : events[<<o, n>>] = 1]_variables

\* A fill event comes after its row of the ledger and never two times, and an execution that the next reads skip has
\* had its event, also when the cash read fails or the node stops at any await.
FillEventsMatchLedger ==
    /\ \A e \in Executions : events[e] <= 1 /\ (events[e] = 1 => e \in ledger)
    /\ \A e \in known : events[e] = 1 \/ (loop = "account" /\ e \in batch)

\* An order that IBKR ended or filled does not stay open for the strategy while the node runs.
EndedOrderIsClosed ==
    \A o \in Orders : ibkr[o] = "done" /\ engine[o] = "open" ~> engine[o] # "open" \/ loop = "stopped"
=============================================================================
