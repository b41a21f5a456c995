------------------------- MODULE ForwardTestWorker -------------------------
(***************************************************************************)
(* The life of the forward tests: the Web process inserts a row and asks   *)
(* for stops, the forward-test worker compares the rows with its child     *)
(* processes every 2 seconds, and each child process prepares, runs and    *)
(* ends one LiveNode over IB Gateway.                                      *)
(*                                                                         *)
(* The table rows are one variable per column. A row that the worker       *)
(* selected is not copied: while a forward test has no child, or an ended  *)
(* child, nobody else writes the columns that the worker then reads, except *)
(* desired_state, whose selected value is kept in stopSeen.                *)
(*                                                                         *)
(* IBKR is reduced to what the supervision can get wrong: whether a        *)
(* forward test has an open order under a client ID, whether it has an     *)
(* execution of the current day that the owner ledger does not have, and   *)
(* whether that execution waits for its commission report (a held fill).   *)
(* The owner ledger is reduced to which forward tests own cash or          *)
(* positions.                                                              *)
(***************************************************************************)
EXTENDS Integers, FiniteSets

CONSTANTS
    ForwardTests,     \* the IDs of the forward_test rows, given in ascending order
    ClientIds,        \* the client ID range of the settings
    NoClientId,       \* client_id IS NULL
    MultiInstrument,  \* forward tests whose run child waits for a warm-up fill
    CrashLimit,       \* CRASH_LIMIT
    MaxFaults,        \* bound: crashes, restarts, lost connections in one behaviour
    RareEvents        \* "other_login": IB Gateway can be logged in to another account;
                      \* "lost_answer": a write can commit although the worker sees an error

ASSUME ConstantsAssumption ==
    /\ ForwardTests \subseteq Nat
    /\ ClientIds \subseteq Nat
    /\ NoClientId \notin ClientIds
    /\ MultiInstrument \subseteq ForwardTests
    /\ CrashLimit \in Nat \ {0}
    /\ MaxFaults \in Nat
    /\ RareEvents \subseteq {"other_login", "lost_answer"}

VARIABLES
    (* The tables forward_test and forward_test_interruption. *)
    status,             \* status, "absent" before the insert
    desiredState,       \* desired_state
    clientId,           \* client_id
    crashCount,         \* crash_count
    interruption,       \* reason of the open interruption, or "none"
    ended,              \* forward tests whose end_time_utc has come
    (* The memory of the worker: running_children and the row loop. *)
    mode,               \* mode of the running child, or "none"
    isStopRequested,    \* children with is_stop_requested
    isRestartRequested, \* children with is_restart_requested
    step,               \* where the comparison is
    todo,               \* selected rows that are not compared yet
    stopSeen,           \* selected rows with desired_state "stopped"
    (* The child processes. *)
    child,              \* where the process of each forward test is
    stopEvent,          \* children whose stop_requested event is set
    (* IBKR and the owner ledger. *)
    orders,             \* <<forward test, client ID>> pairs with an open order
    fills,              \* forward tests with an execution of today that the ledger lacks
    held,               \* those whose execution has no commission report
    holding,            \* forward tests that own cash or positions
    gateway,            \* IB Gateway answers or not
    login,              \* the account of IB Gateway
    faults              \* faults so far

rowVars == <<status, desiredState, clientId, crashCount, interruption>>
memoryVars == <<mode, isStopRequested, isRestartRequested>>
loopVars == <<step, todo, stopSeen>>
processVars == <<child, stopEvent>>
ibkrVars == <<orders, fills, held>>
worldVars == <<gateway, login>>
vars == <<rowVars, ended, memoryVars, loopVars, processVars, ibkrVars, holding,
          worldVars, faults>>

Statuses == {"absent", "starting", "running", "waiting_for_gateway", "stopping",
             "stopped", "stop_failed", "failed"}
\* The statuses in which a run child may start, and that the writes of a child replace.
ActiveStatuses == {"starting", "running", "waiting_for_gateway"}

Steps == {"idle", "compare", "start_run_child", "write_running", "write_stopping",
          "write_crash", "open_gateway_interruption"}

ExitCodes == {"exit_0", "exit_1", "exit_3", "exit_4", "exit_5"}
StartSteps == {"connect", "cancel", "save", "write_waiting", "open_interruption",
               "wait", "write_running", "end_interruption"}
StopSteps == {"stop_connect", "stop_cancel", "stop_save"}
Alive == {"boot", "live", "node_lost"} \cup StartSteps \cup StopSteps
ChildSteps == {"none"} \cup Alive \cup ExitCodes

ClientIdColumn == ClientIds \cup {NoClientId}

TypeOK ==
    /\ status \in [ForwardTests -> Statuses]
    /\ desiredState \in [ForwardTests -> {"running", "stopped"}]
    /\ clientId \in [ForwardTests -> ClientIdColumn]
    /\ crashCount \in [ForwardTests -> Nat]
    /\ interruption \in [ForwardTests -> {"none", "crash", "gateway", "worker_restart"}]
    /\ ended \in SUBSET ForwardTests
    /\ mode \in [ForwardTests -> {"none", "run", "cancel_orders"}]
    /\ isStopRequested \in SUBSET ForwardTests
    /\ isRestartRequested \in SUBSET ForwardTests
    /\ step \in Steps
    /\ todo \in SUBSET ForwardTests
    /\ stopSeen \in SUBSET ForwardTests
    /\ child \in [ForwardTests -> ChildSteps]
    /\ stopEvent \in SUBSET ForwardTests
    /\ orders \in SUBSET (ForwardTests \X ClientIdColumn)
    /\ fills \in SUBSET ForwardTests
    /\ held \in SUBSET fills
    /\ holding \in SUBSET ForwardTests
    /\ gateway \in {"up", "down"}
    /\ login \in {"paper", "other"}
    /\ faults \in Nat

Init ==
    /\ status = [f \in ForwardTests |-> "absent"]
    /\ desiredState = [f \in ForwardTests |-> "running"]
    /\ clientId = [f \in ForwardTests |-> NoClientId]
    /\ crashCount = [f \in ForwardTests |-> 0]
    /\ interruption = [f \in ForwardTests |-> "none"]
    /\ ended = {}
    /\ mode = [f \in ForwardTests |-> "none"]
    /\ isStopRequested = {}
    /\ isRestartRequested = {}
    /\ step = "idle"
    /\ todo = {}
    /\ stopSeen = {}
    /\ child = [f \in ForwardTests |-> "none"]
    /\ stopEvent = {}
    /\ orders = {}
    /\ fills = {}
    /\ held = {}
    /\ holding = {}
    /\ gateway = "up"
    /\ login = "paper"
    /\ faults = 0

-----------------------------------------------------------------------------
(* Frames: what a step that writes one column, or acts only at IBKR, leaves alone. *)

OnlyStatus == UNCHANGED <<desiredState, clientId, crashCount, interruption, ended, ibkrVars,
                          holding, worldVars>>
OnlyInterruption == UNCHANGED <<status, desiredState, clientId, crashCount, ended, ibkrVars,
                                holding, worldVars>>
OnlyIbkr == UNCHANGED <<rowVars, ended, memoryVars, loopVars, processVars, holding, worldVars,
                        faults>>

(* The Web process and the clock. *)

\* Mutation: a forward test that failed, with its orders perhaps open, does not count.
TakenByHealthyOnly == {clientId[f] : f \in {g \in ForwardTests :
                          status[g] \notin {"failed", "stop_failed"}}} \ {NoClientId}
TakenClientIds == {clientId[f] : f \in ForwardTests} \ {NoClientId}
IsLowestFreeClientId(c) ==
    /\ c \in ClientIds \ TakenClientIds
    /\ \A d \in ClientIds \ TakenClientIds : c <= d

\* One transaction under a table lock. The answer of IB Gateway is read before it, so the gateway
\* can be in any state now. The rule about the allocated capital is in OwnerLedger.
StartForwardTest(f) ==
    /\ status[f] = "absent"
    /\ \A g \in ForwardTests : g < f => status[g] # "absent"
    /\ \E c \in ClientIds :
        /\ IsLowestFreeClientId(c)
        /\ clientId' = [clientId EXCEPT ![f] = c]
    /\ status' = [status EXCEPT ![f] = "starting"]
    /\ holding' = holding \cup {f}
    /\ UNCHANGED <<desiredState, crashCount, interruption, ended, memoryVars, loopVars,
                   processVars, ibkrVars, worldVars, faults>>

StopForwardTest(f) ==
    /\ status[f] # "absent"
    /\ desiredState[f] = "running"
    /\ desiredState' = [desiredState EXCEPT ![f] = "stopped"]
    /\ UNCHANGED <<status, clientId, crashCount, interruption, ended, memoryVars, loopVars,
                   processVars, ibkrVars, holding, worldVars, faults>>

EndTimeComes(f) ==
    /\ status[f] # "absent"
    /\ f \notin ended
    /\ ended' = ended \cup {f}
    /\ UNCHANGED <<rowVars, memoryVars, loopVars, processVars, ibkrVars, holding,
                   worldVars, faults>>

-----------------------------------------------------------------------------
(* The worker: one comparison. *)

\* Mutation: a failed stop is not compared again.
IsDoneAfterFailedStop(f) == \/ status[f] \in {"absent", "stopped", "stop_failed"}
                            \/ status[f] = "failed" /\ clientId[f] = NoClientId
IsDone(f) == \/ status[f] \in {"absent", "stopped"}
             \/ status[f] = "failed" /\ clientId[f] = NoClientId

SelectRowsToCompare ==
    /\ step = "idle"
    /\ todo' = {f \in ForwardTests : ~IsDone(f)}
    /\ todo' # {}
    /\ stopSeen' = {f \in todo' : desiredState[f] = "stopped"}
    /\ step' = "compare"
    /\ UNCHANGED <<rowVars, ended, memoryVars, processVars, ibkrVars, holding, worldVars,
                   faults>>

\* The rows come in the order of their IDs.
IsNextRow(f) == f \in todo /\ \A g \in todo : f <= g

\* The row that the worker is at, in the given step of its comparison.
At(f, s) == step = s /\ IsNextRow(f)

LeaveRow(f) ==
    /\ todo' = todo \ {f}
    /\ stopSeen' = stopSeen \ {f}
    /\ step' = IF todo = {f} THEN "idle" ELSE "compare"

GoTo(s) == step' = s /\ UNCHANGED <<todo, stopSeen>>

IsStopWanted(f) == f \in stopSeen \cup ended
HasNoChild(f) == mode[f] = "none"

StartRunningChild(f, m) ==
    /\ mode' = [mode EXCEPT ![f] = m]
    /\ isStopRequested' = isStopRequested \ {f}
    /\ isRestartRequested' = isRestartRequested \ {f}
    /\ child' = [child EXCEPT ![f] = "boot"]
    /\ stopEvent' = stopEvent \ {f}

\* SIGTERM. A process that has not set its signal handler yet dies of it.
SendStop(f) ==
    /\ child' = [child EXCEPT ![f] = IF @ = "boot" THEN "exit_1" ELSE @]
    /\ stopEvent' = IF child[f] \in Alive \ {"boot"} THEN stopEvent \cup {f} ELSE stopEvent

StartCancelOrdersChild(f) ==
    /\ At(f, "compare") /\ HasNoChild(f)
    /\ IsStopWanted(f)
    /\ clientId[f] # NoClientId
    /\ StartRunningChild(f, "cancel_orders")
    /\ GoTo("write_stopping")
    /\ UNCHANGED <<rowVars, ended, ibkrVars, holding, worldVars, faults>>

\* ON CONFLICT DO NOTHING: an open interruption stays.
OpenInterruption(f, reason) ==
    interruption' = [interruption EXCEPT ![f] = IF @ = "none" THEN reason ELSE @]

StartWorkerRestartInterruption(f) ==
    /\ At(f, "compare") /\ HasNoChild(f)
    /\ ~IsStopWanted(f)
    /\ status[f] = "running"
    /\ OpenInterruption(f, "worker_restart")
    /\ GoTo("start_run_child")
    /\ OnlyInterruption /\ UNCHANGED <<memoryVars, processVars, faults>>

StartRunChild(f) ==
    /\ \/ At(f, "start_run_child")
       \/ /\ At(f, "compare") /\ HasNoChild(f)
          /\ ~IsStopWanted(f)
          /\ status[f] \in ActiveStatuses \ {"running"}
    /\ StartRunningChild(f, "run")
    /\ IF status[f] = "waiting_for_gateway" THEN LeaveRow(f) ELSE GoTo("write_running")
    /\ UNCHANGED <<rowVars, ended, ibkrVars, holding, worldVars, faults>>

WriteRunning(f) ==
    /\ At(f, "write_running")
    /\ status' = [status EXCEPT ![f] = "running"]
    /\ LeaveRow(f)
    /\ OnlyStatus /\ UNCHANGED <<memoryVars, processVars, faults>>

RequestStop(f) ==
    /\ At(f, "compare")
    /\ mode[f] = "run" /\ child[f] \in Alive
    /\ IsStopWanted(f)
    /\ f \notin isStopRequested
    /\ SendStop(f)
    /\ isStopRequested' = isStopRequested \cup {f}
    /\ GoTo("write_stopping")
    /\ UNCHANGED <<rowVars, ended, mode, isRestartRequested, ibkrVars, holding, worldVars,
                   faults>>

WriteStopping(f) ==
    /\ At(f, "write_stopping")
    /\ status' = [status EXCEPT ![f] = "stopping"]
    /\ LeaveRow(f)
    /\ OnlyStatus /\ UNCHANGED <<memoryVars, processVars, faults>>

\* Nothing to do for the row now: a failed start of a multi-instrument warm-up, a forward
\* test at the crash limit, or a child that runs as it should.
KeepRow(f) ==
    /\ At(f, "compare")
    /\ \/ /\ HasNoChild(f) /\ ~IsStopWanted(f)
          /\ status[f] \notin ActiveStatuses \/ f \in MultiInstrument
       \/ /\ child[f] \in Alive
          /\ ~IsStopWanted(f) \/ mode[f] = "cancel_orders" \/ f \in isStopRequested
    /\ LeaveRow(f)
    /\ UNCHANGED <<rowVars, ended, memoryVars, processVars, ibkrVars, holding, worldVars,
                   faults>>

(* The end of a child: record_child_end, then del running_children. *)

Fault == faults < MaxFaults /\ faults' = faults + 1

\* Mutation: the ended child stays in running_children.
EndIsRecordedOnly(f) == LeaveRow(f) /\ UNCHANGED <<memoryVars, processVars, faults>>

\* The worker forgets the child when the last write of its end returned. When only the answer
\* of the database is lost, the write stands and the next comparison records the end again.
EndIsRecorded(f) ==
    /\ LeaveRow(f)
    /\ \/ /\ mode' = [mode EXCEPT ![f] = "none"]
          /\ isStopRequested' = isStopRequested \ {f}
          /\ isRestartRequested' = isRestartRequested \ {f}
          /\ child' = [child EXCEPT ![f] = "none"]
          /\ stopEvent' = stopEvent \ {f}
          /\ UNCHANGED faults
       \/ "lost_answer" \in RareEvents /\ Fault /\ UNCHANGED <<memoryVars, processVars>>

IsStop(f) == mode[f] = "cancel_orders" \/ f \in isStopRequested

IsRestart(f) == /\ f \in isRestartRequested \ isStopRequested
                /\ child[f] \in {"exit_0", "exit_5"}

\* Mutation: the restart leaves the status of a stop.
RecordRestartAsStopping(f) ==
    /\ At(f, "compare")
    /\ IsRestart(f)
    /\ status' = [status EXCEPT ![f] = "stopping"]
    /\ EndIsRecorded(f)
    /\ OnlyStatus

RecordRestart(f) ==
    /\ At(f, "compare")
    /\ IsRestart(f)
    /\ status' = [status EXCEPT ![f] = "starting"]
    /\ EndIsRecorded(f)
    /\ OnlyStatus

\* write_end and transfer_to_by_hand in one transaction.
WriteEnd(f, s) ==
    /\ status' = [status EXCEPT ![f] = s]
    /\ clientId' = [clientId EXCEPT ![f] = NoClientId]
    /\ interruption' = [interruption EXCEPT ![f] = "none"]
    /\ holding' = holding \ {f}
    /\ UNCHANGED <<desiredState, crashCount>>

RecordStopped(f) ==
    /\ At(f, "compare")
    /\ child[f] = "exit_0" /\ IsStop(f)
    /\ WriteEnd(f, "stopped")
    /\ EndIsRecorded(f)
    /\ UNCHANGED <<ended, ibkrVars, worldVars>>

\* Mutation: a stop that failed frees the client ID.
RecordStopFailedAsEnd(f) ==
    /\ At(f, "compare")
    /\ child[f] \in ExitCodes \ {"exit_0"} /\ IsStop(f)
    /\ WriteEnd(f, "stop_failed")
    /\ EndIsRecorded(f)
    /\ UNCHANGED <<ended, ibkrVars, worldVars>>

RecordStopFailed(f) ==
    /\ At(f, "compare")
    /\ child[f] \in ExitCodes \ {"exit_0"} /\ IsStop(f)
    /\ status' = [status EXCEPT ![f] = "stop_failed"]
    /\ EndIsRecorded(f)
    /\ OnlyStatus

RecordPaperCheckFailed(f) ==
    /\ At(f, "compare")
    /\ child[f] = "exit_3" /\ ~IsStop(f)
    /\ WriteEnd(f, "failed")
    /\ EndIsRecorded(f)
    /\ UNCHANGED <<ended, ibkrVars, worldVars>>

\* write_waiting_for_gateway: two statements, each one committed by itself.
WriteWaiting(f) ==
    status' = [status EXCEPT ![f] = IF @ \in ActiveStatuses THEN "waiting_for_gateway" ELSE @]

RecordGatewayUnreachable(f) ==
    /\ At(f, "compare")
    /\ child[f] = "exit_4" /\ ~IsStop(f)
    /\ WriteWaiting(f)
    /\ GoTo("open_gateway_interruption")
    /\ OnlyStatus /\ UNCHANGED <<memoryVars, processVars, faults>>

OpenGatewayInterruption(f) ==
    /\ At(f, "open_gateway_interruption")
    /\ OpenInterruption(f, "gateway")
    /\ EndIsRecorded(f)
    /\ OnlyInterruption

IsCrash(f) == /\ child[f] \in {"exit_0", "exit_1", "exit_5"}
              /\ ~IsStop(f) /\ ~IsRestart(f)

RecordCrash(f) ==
    /\ At(f, "compare")
    /\ IsCrash(f)
    /\ OpenInterruption(f, "crash")
    /\ GoTo("write_crash")
    /\ OnlyInterruption /\ UNCHANGED <<memoryVars, processVars, faults>>

\* Mutation: the limit is off by one.
WriteCrashBeyondLimit(f) ==
    /\ At(f, "write_crash")
    /\ \E count \in {1, crashCount[f] + 1} :
        /\ crashCount' = [crashCount EXCEPT ![f] = count]
        /\ status' = [status EXCEPT ![f] = IF count > CrashLimit THEN "failed" ELSE "starting"]
    /\ EndIsRecorded(f)
    /\ UNCHANGED <<desiredState, clientId, interruption, ended, ibkrVars, holding, worldVars>>

\* The count starts again at 1 for a child that ran for CRASH_COUNT_RESET_AFTER or longer.
WriteCrash(f) ==
    /\ At(f, "write_crash")
    /\ \E count \in {1, crashCount[f] + 1} :
        /\ crashCount' = [crashCount EXCEPT ![f] = count]
        /\ status' = [status EXCEPT ![f] = IF count >= CrashLimit THEN "failed" ELSE "starting"]
    /\ EndIsRecorded(f)
    /\ UNCHANGED <<desiredState, clientId, interruption, ended, ibkrVars, holding, worldVars>>

\* The comparison of a row raises, for example because a statement or the start of a process
\* failed. The other rows still get their comparison.
RowFails(f) ==
    /\ step # "idle" /\ IsNextRow(f)
    /\ Fault
    /\ LeaveRow(f)
    /\ UNCHANGED <<rowVars, ended, memoryVars, processVars, ibkrVars, holding, worldVars>>

\* The stock split check asks for a new child, between two awaits of the comparison.
RequestRestart(f) ==
    /\ mode[f] = "run" /\ f \notin isStopRequested
    /\ Fault
    /\ SendStop(f)
    /\ isRestartRequested' = isRestartRequested \cup {f}
    /\ UNCHANGED <<rowVars, ended, mode, isStopRequested, loopVars, ibkrVars, holding,
                   worldVars>>

\* The worker process ends, and all child processes end with it, at any of their steps.
WorkerRestarts ==
    /\ Fault
    /\ mode' = [f \in ForwardTests |-> "none"]
    /\ isStopRequested' = {}
    /\ isRestartRequested' = {}
    /\ step' = "idle"
    /\ todo' = {}
    /\ stopSeen' = {}
    /\ child' = [f \in ForwardTests |-> "none"]
    /\ stopEvent' = {}
    /\ UNCHANGED <<rowVars, ended, ibkrVars, holding, worldVars>>

-----------------------------------------------------------------------------
(* A child process. Each request to IB Gateway fails while the gateway is down. *)

IsAt(f, s) == child[f] = s
Become(f, s) == child' = [child EXCEPT ![f] = s] /\ UNCHANGED stopEvent

\* A step inside the process, without a write to the database or an effect at IBKR.
OnlyProcess ==
    UNCHANGED <<rowVars, ended, memoryVars, loopVars, ibkrVars, holding, worldVars, faults>>

\* The process sets its SIGTERM handler and reads its row, which has a client ID.
BootChild(f) ==
    /\ IsAt(f, "boot")
    /\ Become(f, IF clientId[f] = NoClientId THEN "exit_1"
                 ELSE IF mode[f] = "run" THEN "connect" ELSE "stop_connect")
    /\ OnlyProcess

\* prepare_live_node_start: the connection and the paper account check.
ConnectAndCheckAccount(f) ==
    /\ IsAt(f, "connect")
    /\ Become(f, IF gateway = "down" THEN "write_waiting"
                 ELSE IF login # "paper" THEN "exit_3" ELSE "cancel")
    /\ OnlyProcess

\* IB Gateway shows only the orders of its account, and of the client ID of the connection.
OwnOpenOrders(f) == {o \in orders : o[2] = clientId[f] /\ login = "paper"}

\* One order is cancelled and confirmed. An order that fills instead is OrderFills.
CancelOwnOrder(f) ==
    /\ child[f] \in {"cancel", "stop_cancel"}
    /\ gateway = "up"
    /\ \E o \in OwnOpenOrders(f) : orders' = orders \ {o}
    /\ OnlyIbkr /\ UNCHANGED <<fills, held>>

\* Mutation: the cancels are sent, and nothing waits for them.
CancelsSent(f) ==
    /\ child[f] \in {"cancel", "stop_cancel"}
    /\ gateway = "up"
    /\ Become(f, IF child[f] = "cancel" THEN "save" ELSE "stop_save")
    /\ OnlyProcess

AllOwnOrdersCancelled(f) ==
    /\ child[f] \in {"cancel", "stop_cancel"}
    /\ gateway = "up"
    /\ OwnOpenOrders(f) = {}
    /\ Become(f, IF child[f] = "cancel" THEN "save" ELSE "stop_save")
    /\ OnlyProcess

\* IB Gateway shows only the executions of its account. A held fill stops the save of all.
VisibleFill(f) == f \in fills /\ login = "paper"

SaveFill(f) ==
    /\ fills' = fills \ {f}
    /\ holding' = holding \cup {f}
    /\ UNCHANGED <<orders, held>>

SaveFills(f) ==
    /\ child[f] \in {"save", "stop_save"}
    /\ gateway = "up"
    /\ ~(VisibleFill(f) /\ f \in held)
    /\ IF VisibleFill(f) THEN SaveFill(f) ELSE UNCHANGED <<ibkrVars, holding>>
    /\ Become(f, IF child[f] = "save" THEN "write_running" ELSE "exit_0")
    /\ UNCHANGED <<rowVars, ended, memoryVars, loopVars, worldVars, faults>>

\* Mutation: a held fill does not fail the stop steps.
FindHeldFillAndStop(f) ==
    /\ child[f] \in {"save", "stop_save"}
    /\ gateway = "up"
    /\ VisibleFill(f) /\ f \in held
    /\ Become(f, IF child[f] = "save" THEN "write_waiting" ELSE "exit_0")
    /\ OnlyProcess

FindHeldFill(f) ==
    /\ child[f] \in {"save", "stop_save"}
    /\ gateway = "up"
    /\ VisibleFill(f) /\ f \in held
    /\ Become(f, IF child[f] = "save" THEN "write_waiting" ELSE "exit_5")
    /\ OnlyProcess

\* A GatewayRequestError after the connection ends the child.
RequestFails(f) ==
    /\ child[f] \in {"cancel", "save"} \cup StopSteps
    /\ gateway = "down"
    /\ Become(f, "exit_1")
    /\ OnlyProcess

WriteWaitingForGateway(f) ==
    /\ IsAt(f, "write_waiting")
    /\ WriteWaiting(f)
    /\ Become(f, "open_interruption")
    /\ OnlyStatus /\ UNCHANGED <<memoryVars, loopVars, faults>>

OpenWaitInterruption(f) ==
    /\ IsAt(f, "open_interruption")
    /\ OpenInterruption(f, "gateway")
    /\ Become(f, "wait")
    /\ OnlyInterruption /\ UNCHANGED <<memoryVars, loopVars, faults>>

\* After GATEWAY_RETRY_SECONDS, or at once for the stop request.
EndWait(f) ==
    /\ IsAt(f, "wait")
    /\ Become(f, IF f \in stopEvent THEN "stop_connect" ELSE "connect")
    /\ OnlyProcess

\* write_live_node_start: two statements.
WriteLiveNodeStart(f) ==
    /\ IsAt(f, "write_running")
    /\ status' = [status EXCEPT ![f] = IF @ \in ActiveStatuses THEN "running" ELSE @]
    /\ Become(f, "end_interruption")
    /\ OnlyStatus /\ UNCHANGED <<memoryVars, loopVars, faults>>

\* Mutation: the start of the LiveNode leaves the interruption open.
EnterLiveNode(f) ==
    /\ IsAt(f, "end_interruption")
    /\ Become(f, "live")
    /\ OnlyProcess

EndInterruption(f) ==
    /\ IsAt(f, "end_interruption")
    /\ interruption' = [interruption EXCEPT ![f] = "none"]
    /\ Become(f, "live")
    /\ OnlyInterruption /\ UNCHANGED <<memoryVars, loopVars, faults>>

\* An order of the strategy. IBKR refuses it on another login, because it names the account.
SendOrder(f) ==
    /\ IsAt(f, "live")
    /\ gateway = "up" /\ login = "paper"
    /\ orders' = orders \cup {<<f, clientId[f]>>}
    /\ OnlyIbkr /\ UNCHANGED <<fills, held>>

\* The fill check of the execution client leaves held fills for a later read.
SaveNewFill(f) ==
    /\ IsAt(f, "live")
    /\ gateway = "up"
    /\ VisibleFill(f) /\ f \notin held
    /\ SaveFill(f)
    /\ UNCHANGED <<rowVars, ended, memoryVars, loopVars, processVars, worldVars, faults>>

StopLiveNode(f) ==
    /\ IsAt(f, "live")
    /\ f \in stopEvent
    /\ Become(f, "stop_connect")
    /\ OnlyProcess

\* No gateway for GATEWAY_LOST_SECONDS: the LiveNode stops, and a stop request can still come.
LoseGateway(f) ==
    /\ IsAt(f, "live")
    /\ gateway = "down" /\ f \notin stopEvent
    /\ Become(f, "node_lost")
    /\ OnlyProcess

EndLostNode(f) ==
    /\ IsAt(f, "node_lost")
    /\ Become(f, IF f \in stopEvent THEN "stop_connect" ELSE "exit_4")
    /\ OnlyProcess

ConnectForStop(f) ==
    /\ IsAt(f, "stop_connect")
    /\ gateway = "up"
    /\ Become(f, "stop_cancel")
    /\ OnlyProcess

\* An exception, a failed database write of the child, or a LiveNode that ended by itself.
ChildCrashes(f) ==
    /\ child[f] \in Alive
    /\ Fault
    /\ Become(f, "exit_1")
    /\ UNCHANGED <<rowVars, ended, memoryVars, loopVars, ibkrVars, holding, worldVars>>

-----------------------------------------------------------------------------
(* IBKR and IB Gateway. *)

\* An execution, for a part of the order or for all of it, with or without its report.
OrderFills(f) ==
    /\ \E o \in orders : o[1] = f /\ orders' \in {orders, orders \ {o}}
    /\ fills' = fills \cup {f}
    /\ held' \in {held, held \cup {f}}
    /\ OnlyIbkr

\* The report arrives, or read_executions ends the hold after COMMISSION_REPORT_LIMIT.
EndHold(f) ==
    /\ f \in held
    /\ held' = held \ {f}
    /\ OnlyIbkr /\ UNCHANGED <<orders, fills>>

OrderExpires(f) ==
    /\ \E o \in orders : o[1] = f /\ orders' = orders \ {o}
    /\ OnlyIbkr /\ UNCHANGED <<fills, held>>

\* reqExecutions returns the executions of the current day: what no child saved is lost.
DayEnds ==
    /\ fills # {}
    /\ fills' = {}
    /\ held' = {}
    /\ OnlyIbkr /\ UNCHANGED orders

GatewayStops ==
    /\ gateway = "up"
    /\ Fault
    /\ gateway' = "down"
    /\ UNCHANGED <<rowVars, ended, memoryVars, loopVars, processVars, ibkrVars, holding, login>>

\* After a restart IB Gateway can be logged in to another account.
GatewayReturns ==
    /\ gateway = "down"
    /\ gateway' = "up"
    /\ login' \in IF "other_login" \in RareEvents THEN {"paper", "other"} ELSE {login}
    /\ UNCHANGED <<rowVars, ended, memoryVars, loopVars, processVars, ibkrVars, holding, faults>>

-----------------------------------------------------------------------------
WebStep(f) == StartForwardTest(f) \/ StopForwardTest(f) \/ EndTimeComes(f)

CompareStep(f) ==
    \/ StartCancelOrdersChild(f)
    \/ StartWorkerRestartInterruption(f)
    \/ StartRunChild(f)
    \/ WriteRunning(f)
    \/ RequestStop(f)
    \/ WriteStopping(f)
    \/ KeepRow(f)
    \/ RecordRestart(f)
    \/ RecordStopped(f)
    \/ RecordStopFailed(f)
    \/ RecordPaperCheckFailed(f)
    \/ RecordGatewayUnreachable(f)
    \/ OpenGatewayInterruption(f)
    \/ RecordCrash(f)
    \/ WriteCrash(f)

WorkerStep == SelectRowsToCompare \/ \E f \in ForwardTests : CompareStep(f)

ChildStep(f) ==
    \/ BootChild(f)
    \/ ConnectAndCheckAccount(f)
    \/ CancelOwnOrder(f)
    \/ AllOwnOrdersCancelled(f)
    \/ SaveFills(f)
    \/ FindHeldFill(f)
    \/ RequestFails(f)
    \/ WriteWaitingForGateway(f)
    \/ OpenWaitInterruption(f)
    \/ EndWait(f)
    \/ WriteLiveNodeStart(f)
    \/ EndInterruption(f)
    \/ StopLiveNode(f)
    \/ LoseGateway(f)
    \/ EndLostNode(f)
    \/ ConnectForStop(f)

StrategyStep(f) == SendOrder(f) \/ SaveNewFill(f)

IbkrStep(f) == OrderFills(f) \/ EndHold(f) \/ OrderExpires(f)

FaultStep ==
    \/ \E f \in ForwardTests : RowFails(f) \/ RequestRestart(f) \/ ChildCrashes(f)
    \/ WorkerRestarts
    \/ GatewayStops

Next ==
    \/ \E f \in ForwardTests : WebStep(f) \/ ChildStep(f) \/ StrategyStep(f) \/ IbkrStep(f)
    \/ WorkerStep
    \/ FaultStep
    \/ GatewayReturns
    \/ DayEnds

Spec == Init /\ [][Next]_vars

\* The worker compares every COMPARE_INTERVAL_SECONDS for ever, an asyncio child goes on until
\* its end, the retries of IB Gateway have no limit, and a hold has one. The strategy, the user
\* and the faults owe nothing.
Fairness ==
    /\ WF_vars(WorkerStep)
    /\ \A f \in ForwardTests : WF_vars(ChildStep(f)) /\ WF_vars(EndHold(f))
    /\ WF_vars(GatewayReturns)

FairSpec == Spec /\ Fairness

-----------------------------------------------------------------------------
(* Safety. *)

HasOpenOrder(f) == \E o \in orders : o[1] = f
IsOver(f) == status[f] # "absent" /\ clientId[f] = NoClientId

\* A forward test without a client ID (not started, or over) has no open order, no execution
\* of the day outside the owner ledger, no cash or position of its own, no process, and no open
\* interruption: nothing of it can reach IBKR or the ledger after its ID is free
\* (forward_test.md 12.4, 12.6: the transfer to "By hand" comes after the last fill).
FreedIdIsQuiet ==
    \A f \in ForwardTests : clientId[f] = NoClientId =>
        /\ ~HasOpenOrder(f)
        /\ f \notin fills
        /\ f \notin holding
        /\ child[f] \notin Alive
        /\ interruption[f] = "none"

\* No two processes hold the same client ID, and no process runs without one, across crashes
\* of the worker and reuse of an ID ("one client ID cannot have 2 connections", 12.4).
OneProcessPerClientId ==
    \A f \in ForwardTests : child[f] \in Alive =>
        /\ clientId[f] \in ClientIds
        /\ \A g \in ForwardTests \ {f} : child[g] \in Alive => clientId[g] # clientId[f]

\* Every open order belongs to the forward test that holds the client ID of the order, so the
\* start steps of a process cancel no order of another forward test, and miss none of its own.
OrdersUnderOwnClientId ==
    \A o \in orders : clientId[o[1]] = o[2]

\* An interruption that is open while the LiveNode runs would hide the next one: the table has
\* room for one open interruption, and the first one stays.
LiveHasNoInterruption ==
    \A f \in ForwardTests : child[f] = "live" => interruption[f] = "none"

\* A forward test that reached the crash limit gets no run child again, whatever statuses the
\* worker and the processes write over each other (12.7).
CrashLimitHolds ==
    [][\A f \in ForwardTests :
        crashCount[f] >= CrashLimit => ~(child'[f] = "boot" /\ mode'[f] = "run")]_vars

(* What FreedIdIsQuiet, OneProcessPerClientId and ImplementsLease rest on, while IB Gateway    *)
(* stays logged in to the paper account.                                                       *)

UniqueClientIds ==
    \A f \in ForwardTests : \A g \in ForwardTests \ {f} :
        clientId[f] = clientId[g] => clientId[f] = NoClientId

\* The worker does not select a forward test that is over, so nothing writes its row.
DoneIsNotCompared ==
    \A f \in ForwardTests :
        /\ clientId[f] = NoClientId =>
              f \notin todo /\ status[f] \in {"absent", "stopped", "failed"}
        /\ status[f] = "absent" => clientId[f] = NoClientId

\* Exit code 0 says what the stop steps did, and not only that they came to their end.
StopStepsClean ==
    \A f \in ForwardTests :
        /\ child[f] \in {"save", "stop_save", "exit_0"} => ~HasOpenOrder(f)
        /\ child[f] = "exit_0" => f \notin fills

\* The memory of the worker knows each process, and the code of one whose end it records.
ChildIsKnown ==
    \A f \in ForwardTests :
        /\ mode[f] = "none" => child[f] = "none"
        /\ At(f, "open_gateway_interruption") => child[f] = "exit_4"

\* The inductive invariant of the client IDs: each part is kept only with the others.
LeaseInv ==
    /\ login = "paper" /\ \A f \in ForwardTests : child[f] # "exit_3"
    /\ UniqueClientIds
    /\ OrdersUnderOwnClientId
    /\ FreedIdIsQuiet
    /\ DoneIsNotCompared
    /\ StopStepsClean
    /\ ChildIsKnown
    /\ LiveHasNoInterruption

(* What CrashLimitHolds rests on, whatever IB Gateway and the database do.                     *)

UnderCrashLimit(f) == crashCount[f] < CrashLimit

\* A run child starts, and runs, only under the limit; one that crashed can be at the limit.
RunsUnderCrashLimit ==
    \A f \in ForwardTests :
        /\ status[f] \in ActiveStatuses \cup {"absent"} => UnderCrashLimit(f)
        /\ At(f, "start_run_child") \/ At(f, "write_running") => UnderCrashLimit(f)
        /\ mode[f] = "run" /\ child[f] # "exit_1" => UnderCrashLimit(f)

\* A run child goes to its stop steps only because the worker asked, so the exit codes of the
\* stop steps are never those of a crash.
StopStepsAreAskedFor ==
    \A f \in ForwardTests :
        /\ mode[f] = "run" /\ (f \in stopEvent \/ child[f] \in StopSteps \cup {"exit_0", "exit_5"})
              => f \in isStopRequested \cup isRestartRequested
        /\ f \in isRestartRequested => mode[f] = "run"
        /\ mode[f] = "none" => child[f] = "none"
        /\ At(f, "write_crash") => child[f] = "exit_1"

CrashInv == RunsUnderCrashLimit /\ StopStepsAreAskedFor

\* The worker implements the lending of the client IDs.
Lease == INSTANCE ClientIdLease WITH
    lease <- clientId,
    exposed <- {f \in ForwardTests : HasOpenOrder(f) \/ f \in fills},
    over <- {f \in ForwardTests : IsOver(f)}
ImplementsLease == Lease!Spec

-----------------------------------------------------------------------------
(* Liveness. *)

IsLeaving(f) == desiredState[f] = "stopped" \/ f \in ended

\* A forward test that the user stopped, or whose end time came, gives its client ID back,
\* after any number of faults: the worker retries the stop steps until they succeed (12.6).
StopCompletes ==
    \A f \in ForwardTests :
        clientId[f] # NoClientId /\ IsLeaving(f) ~> clientId[f] = NoClientId

\* A forward test that nobody stopped and that is under the crash limit runs (again): no status
\* that a crash, a restart of the worker, a stock split restart or a lost gateway leaves behind
\* is one that no one acts on (12.7).
RunsAgain ==
    \A f \in ForwardTests :
        clientId[f] # NoClientId ~>
            child[f] = "live" \/ IsLeaving(f) \/ status[f] = "failed"
=============================================================================
