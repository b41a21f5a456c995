---------------------- MODULE ForwardTestWorker_proofs ----------------------
(***************************************************************************)
(* Proofs about ForwardTestWorker, and about the count of crashes in       *)
(* ForwardTestCrashes, for every set of forward tests, every client ID     *)
(* range, every crash limit and every number of faults.                    *)
(***************************************************************************)
EXTENDS ForwardTestCrashes, TLAPS

-----------------------------------------------------------------------------
(* Type correctness. *)

\* The variables have their types at the start.
LEMMA InitTypeOK == Init => TypeOK
BY DEF Init, TypeOK, ClientIdColumn, Statuses, Steps, ChildSteps

\* A start or stop of a route, and the end time, keep the types.
LEMMA WebStepTypeOK ==
    ASSUME TypeOK, NEW f \in ForwardTests, WebStep(f)
    PROVE  TypeOK'
<1>1. CASE StartForwardTest(f)
  BY <1>1 DEF StartForwardTest, TypeOK, ClientIdColumn, Statuses, memoryVars, loopVars, processVars, ibkrVars,
     worldVars
<1>2. CASE StopForwardTest(f)
  BY <1>2 DEF StopForwardTest, TypeOK, memoryVars, loopVars, processVars, ibkrVars, worldVars
<1>3. CASE EndTimeComes(f)
  BY <1>3 DEF EndTimeComes, TypeOK, rowVars, memoryVars, loopVars, processVars, ibkrVars,
     worldVars
<1> QED  BY <1>1, <1>2, <1>3 DEF WebStep

\* A step of the worker's compare keeps the types.
LEMMA CompareStepTypeOK ==
    ASSUME TypeOK, NEW f \in ForwardTests, CompareStep(f)
    PROVE  TypeOK'
<1> USE DEF TypeOK, rowVars, memoryVars, loopVars, processVars, ibkrVars, worldVars,
            OnlyStatus, OnlyInterruption, Statuses, Steps, ChildSteps, Alive, StartSteps,
            StopSteps, ExitCodes, At, IsNextRow, GoTo, LeaveRow, OpenInterruption
<1>1. CASE StartCancelOrdersChild(f)
  BY <1>1 DEF StartCancelOrdersChild, StartRunningChild
<1>2. CASE StartWorkerRestartInterruption(f)
  BY <1>2 DEF StartWorkerRestartInterruption
<1>3. CASE StartRunChild(f)
  BY <1>3 DEF StartRunChild, StartRunningChild
<1>4. CASE WriteRunning(f)
  BY <1>4 DEF WriteRunning
<1>5. CASE RequestStop(f)
  BY <1>5 DEF RequestStop, SendStop
<1>6. CASE WriteStopping(f)
  BY <1>6 DEF WriteStopping
<1>7. CASE KeepRow(f)
  BY <1>7 DEF KeepRow
<1>8. CASE RecordRestart(f)
  BY <1>8 DEF RecordRestart, EndIsRecorded, Fault
<1>9. CASE RecordStopped(f)
  BY <1>9 DEF RecordStopped, WriteEnd, EndIsRecorded, Fault, ClientIdColumn
<1>10. CASE RecordStopFailed(f)
  BY <1>10 DEF RecordStopFailed, EndIsRecorded, Fault
<1>11. CASE RecordPaperCheckFailed(f)
  BY <1>11 DEF RecordPaperCheckFailed, WriteEnd, EndIsRecorded, Fault,
     ClientIdColumn
<1>12. CASE RecordGatewayUnreachable(f)
  BY <1>12 DEF RecordGatewayUnreachable, WriteWaiting
<1>13. CASE OpenGatewayInterruption(f)
  BY <1>13 DEF OpenGatewayInterruption, EndIsRecorded, Fault
<1>14. CASE RecordCrash(f)
  BY <1>14 DEF RecordCrash
<1>15. CASE WriteCrash(f)
  BY <1>15 DEF WriteCrash, EndIsRecorded, Fault
<1> QED
  BY <1>1, <1>2, <1>3, <1>4, <1>5, <1>6, <1>7, <1>8, <1>9, <1>10, <1>11, <1>12, <1>13, <1>14,
     <1>15 DEF CompareStep

\* A step of a child process keeps the types.
LEMMA ChildStepTypeOK ==
    ASSUME TypeOK, NEW f \in ForwardTests, ChildStep(f)
    PROVE  TypeOK'
<1> USE DEF TypeOK, rowVars, memoryVars, loopVars, processVars, ibkrVars, worldVars,
            OnlyStatus, OnlyInterruption, OnlyIbkr, OnlyProcess, Statuses, ChildSteps, Alive,
            StartSteps, StopSteps, ExitCodes, IsAt, Become, OpenInterruption
<1>1. CASE BootChild(f)
  BY <1>1 DEF BootChild
<1>2. CASE ConnectAndCheckAccount(f)
  BY <1>2 DEF ConnectAndCheckAccount
<1>3. CASE CancelOwnOrder(f)
  BY <1>3 DEF CancelOwnOrder, OwnOpenOrders
<1>4. CASE AllOwnOrdersCancelled(f)
  BY <1>4 DEF AllOwnOrdersCancelled
<1>5. CASE SaveFills(f)
  BY <1>5 DEF SaveFills, SaveFill, VisibleFill
<1>6. CASE FindHeldFill(f)
  BY <1>6 DEF FindHeldFill
<1>7. CASE RequestFails(f)
  BY <1>7 DEF RequestFails
<1>8. CASE WriteWaitingForGateway(f)
  BY <1>8 DEF WriteWaitingForGateway, WriteWaiting
<1>9. CASE OpenWaitInterruption(f)
  BY <1>9 DEF OpenWaitInterruption
<1>10. CASE EndWait(f)
  BY <1>10 DEF EndWait
<1>11. CASE WriteLiveNodeStart(f)
  BY <1>11 DEF WriteLiveNodeStart
<1>12. CASE EndInterruption(f)
  BY <1>12 DEF EndInterruption
<1>13. CASE StopLiveNode(f)
  BY <1>13 DEF StopLiveNode
<1>14. CASE LoseGateway(f)
  BY <1>14 DEF LoseGateway
<1>15. CASE EndLostNode(f)
  BY <1>15 DEF EndLostNode
<1>16. CASE ConnectForStop(f)
  BY <1>16 DEF ConnectForStop
<1> QED
  BY <1>1, <1>2, <1>3, <1>4, <1>5, <1>6, <1>7, <1>8, <1>9, <1>10, <1>11, <1>12, <1>13, <1>14,
     <1>15, <1>16 DEF ChildStep

\* A step of a strategy or of IBKR keeps the types.
LEMMA OutsideStepTypeOK ==
    ASSUME TypeOK, NEW f \in ForwardTests, StrategyStep(f) \/ IbkrStep(f)
    PROVE  TypeOK'
<1> USE DEF TypeOK, rowVars, memoryVars, loopVars, processVars, ibkrVars, worldVars, OnlyIbkr
<1>1. CASE SendOrder(f)
  BY <1>1 DEF SendOrder
<1>2. CASE SaveNewFill(f)
  BY <1>2 DEF SaveNewFill, SaveFill
<1>3. CASE OrderFills(f)
  BY <1>3 DEF OrderFills
<1>4. CASE EndHold(f)
  BY <1>4 DEF EndHold
<1>5. CASE OrderExpires(f)
  BY <1>5 DEF OrderExpires
<1> QED  BY <1>1, <1>2, <1>3, <1>4, <1>5 DEF StrategyStep, IbkrStep

\* A fault keeps the types.
LEMMA FaultStepTypeOK ==
    ASSUME TypeOK, FaultStep
    PROVE  TypeOK'
<1> USE DEF TypeOK, rowVars, memoryVars, loopVars, processVars, ibkrVars, worldVars, Fault,
            Steps, ChildSteps, Alive, ExitCodes
<1>1. ASSUME NEW f \in ForwardTests, RowFails(f)
      PROVE  TypeOK'
  BY <1>1 DEF RowFails, IsNextRow, LeaveRow
<1>2. ASSUME NEW f \in ForwardTests, RequestRestart(f)
      PROVE  TypeOK'
  BY <1>2 DEF RequestRestart, SendStop
<1>3. ASSUME NEW f \in ForwardTests, ChildCrashes(f)
      PROVE  TypeOK'
  BY <1>3 DEF ChildCrashes, Become
<1>4. CASE WorkerRestarts
  BY <1>4 DEF WorkerRestarts
<1>5. CASE GatewayStops
  BY <1>5 DEF GatewayStops
<1> QED  BY <1>1, <1>2, <1>3, <1>4, <1>5 DEF FaultStep

\* Every step keeps the types.
LEMMA StepTypeOK == TypeOK /\ [Next]_vars => TypeOK'
<1> SUFFICES ASSUME TypeOK, [Next]_vars
             PROVE  TypeOK'
  OBVIOUS
<1>1. CASE UNCHANGED vars
  BY <1>1 DEF vars, TypeOK, rowVars, memoryVars, loopVars, processVars, ibkrVars, worldVars
<1>2. CASE SelectRowsToCompare
  BY <1>2 DEF SelectRowsToCompare, TypeOK, Steps, rowVars, memoryVars, processVars, ibkrVars,
     worldVars
<1>3. CASE GatewayReturns
  BY <1>3 DEF GatewayReturns, TypeOK, rowVars, memoryVars, loopVars, processVars, ibkrVars
<1>4. CASE DayEnds
  BY <1>4 DEF DayEnds, TypeOK, OnlyIbkr, rowVars, memoryVars, loopVars, processVars, worldVars
<1> QED
  BY <1>1, <1>2, <1>3, <1>4, WebStepTypeOK, CompareStepTypeOK, ChildStepTypeOK, OutsideStepTypeOK,
     FaultStepTypeOK DEF Next, WorkerStep

\* Every variable keeps its type: in particular an execution that waits for its commission
\* report is never one that the owner ledger has already.
THEOREM TypeCorrect == Spec => []TypeOK
BY InitTypeOK, StepTypeOK, PTL DEF Spec

-----------------------------------------------------------------------------
(* The client IDs, while IB Gateway stays logged in to the paper account. *)

\* No test has a client id at the start, so the lease invariant holds.
LEMMA InitLeaseInv == Init => LeaseInv
BY ConstantsAssumption
   DEF Init, LeaseInv, UniqueClientIds, OrdersUnderOwnClientId, FreedIdIsQuiet,
       DoneIsNotCompared, StopStepsClean, ChildIsKnown, LiveHasNoInterruption, HasOpenOrder,
       At, Alive, StartSteps, StopSteps

\* A route gives a test an id that no other row has, and frees none: the lease
\* invariant stays.
LEMMA WebStepLeaseInv ==
    ASSUME TypeOK, LeaseInv, NEW f \in ForwardTests, WebStep(f)
    PROVE  LeaseInv'
<1> USE DEF LeaseInv, TypeOK, rowVars, memoryVars, loopVars, processVars, ibkrVars, worldVars
<1>1. CASE StartForwardTest(f)
  <2> USE <1>1 DEF StartForwardTest
  <2>1. PICK c \in ClientIds : /\ IsLowestFreeClientId(c)
                               /\ clientId' = [clientId EXCEPT ![f] = c]
    OBVIOUS
  <2>2. clientId[f] = NoClientId /\ \A g \in ForwardTests : clientId[g] # c
    BY <2>1, ConstantsAssumption DEF DoneIsNotCompared, IsLowestFreeClientId, TakenClientIds
  <2>3. UniqueClientIds'
    BY <2>1, <2>2 DEF UniqueClientIds
  <2>4. OrdersUnderOwnClientId'
    BY <2>1, <2>2 DEF OrdersUnderOwnClientId, FreedIdIsQuiet, HasOpenOrder
  <2>5. FreedIdIsQuiet'
    BY <2>1, ConstantsAssumption DEF FreedIdIsQuiet, HasOpenOrder
  <2>6. DoneIsNotCompared'
    BY <2>1, ConstantsAssumption DEF DoneIsNotCompared
  <2>7. StopStepsClean' /\ ChildIsKnown' /\ LiveHasNoInterruption'
    BY DEF StopStepsClean, ChildIsKnown, LiveHasNoInterruption, HasOpenOrder, At, IsNextRow
  <2> QED  BY <2>3, <2>4, <2>5, <2>6, <2>7
<1>2. CASE StopForwardTest(f) \/ EndTimeComes(f)
  BY <1>2 DEF StopForwardTest, EndTimeComes, UniqueClientIds, OrdersUnderOwnClientId,
     FreedIdIsQuiet, DoneIsNotCompared, StopStepsClean, ChildIsKnown, LiveHasNoInterruption,
     HasOpenOrder, At, IsNextRow
<1> QED  BY <1>1, <1>2 DEF WebStep

(* What the worker changes for one forward test when it does not record an end that gives the  *)
(* client ID back.                                                                             *)
WorkerEffect(f) ==
    /\ UNCHANGED <<clientId, orders, fills, holding, login>>
    /\ \A g \in ForwardTests :
          /\ status'[g] # status[g] => g = f /\ f \in todo /\ status'[f] # "absent"
          /\ interruption'[g] # interruption[g] => g = f /\ f \in todo /\ child[f] # "live"
          /\ mode'[g] # mode[g] => g = f
          /\ child'[g] # child[g] =>
                /\ g = f
                /\ \/ child'[f] \in {"none", "exit_1"}
                   \/ child'[f] = "boot" /\ f \in todo
    /\ mode'[f] = "none" => child'[f] = "none"
    /\ todo' \subseteq todo
    /\ step' = "open_gateway_interruption" =>
          /\ todo' = todo
          /\ \/ IsNextRow(f) /\ child'[f] = "exit_4"
             \/ step' = step /\ (child[f] = "exit_4" => child'[f] = "exit_4")

\* What a step of the compare can change of the state the lease invariant
\* reads; RecordStopped is apart.
LEMMA CompareStepEffect ==
    ASSUME TypeOK, LeaseInv, NEW f \in ForwardTests, CompareStep(f), ~RecordStopped(f)
    PROVE  WorkerEffect(f)
<1> USE DEF WorkerEffect, TypeOK, Steps, ChildSteps, Alive, StartSteps, StopSteps, ExitCodes,
            At, IsNextRow, rowVars, memoryVars, loopVars, processVars, ibkrVars, worldVars,
            OnlyStatus, OnlyInterruption, GoTo, LeaveRow, OpenInterruption
<1>0. child[f] # "exit_3" /\ (mode[f] = "none" => child[f] = "none")
  BY DEF LeaseInv, ChildIsKnown
<1>1. CASE StartCancelOrdersChild(f)
  BY <1>1 DEF StartCancelOrdersChild, StartRunningChild
<1>2. CASE StartWorkerRestartInterruption(f)
  BY <1>0, <1>2 DEF StartWorkerRestartInterruption, HasNoChild
<1>3. CASE StartRunChild(f)
  BY <1>3 DEF StartRunChild, StartRunningChild
<1>4. CASE WriteRunning(f)
  BY <1>0, <1>4 DEF WriteRunning
<1>5. CASE RequestStop(f)
  BY <1>5 DEF RequestStop, SendStop
<1>6. CASE WriteStopping(f)
  BY <1>0, <1>6 DEF WriteStopping
<1>7. CASE KeepRow(f)
  BY <1>0, <1>7 DEF KeepRow
<1>8. CASE RecordRestart(f)
  BY <1>0, <1>8 DEF RecordRestart, EndIsRecorded, Fault
<1>9. CASE RecordStopFailed(f)
  BY <1>0, <1>9 DEF RecordStopFailed, EndIsRecorded, Fault
<1>10. CASE RecordPaperCheckFailed(f)
  BY <1>0, <1>10 DEF RecordPaperCheckFailed
<1>11. CASE RecordGatewayUnreachable(f)
  BY <1>0, <1>11 DEF RecordGatewayUnreachable, WriteWaiting
<1>12. CASE OpenGatewayInterruption(f)
  BY <1>0, <1>12 DEF OpenGatewayInterruption, EndIsRecorded, Fault, LeaseInv, ChildIsKnown
<1>13. CASE RecordCrash(f)
  BY <1>0, <1>13 DEF RecordCrash, IsCrash
<1>14. CASE WriteCrash(f)
  BY <1>0, <1>14 DEF WriteCrash, EndIsRecorded, Fault
<1> QED
  BY <1>1, <1>2, <1>3, <1>4, <1>5, <1>6, <1>7, <1>8, <1>9, <1>10, <1>11, <1>12, <1>13, <1>14
  DEF CompareStep

\* A step with no more effect than that keeps the lease invariant.
LEMMA WorkerEffectLeaseInv ==
    ASSUME TypeOK, LeaseInv, NEW f \in ForwardTests, WorkerEffect(f)
    PROVE  LeaseInv'
<1> USE DEF LeaseInv, TypeOK, WorkerEffect
<1>1. f \in todo => clientId[f] # NoClientId
  BY DEF DoneIsNotCompared
<1>2. login' = "paper" /\ \A g \in ForwardTests : child'[g] # "exit_3"
  OBVIOUS
<1>3. UniqueClientIds' /\ OrdersUnderOwnClientId'
  BY DEF UniqueClientIds, OrdersUnderOwnClientId
<1>4. FreedIdIsQuiet'
  BY <1>1 DEF FreedIdIsQuiet, HasOpenOrder, Alive, StartSteps, StopSteps
<1>5. DoneIsNotCompared'
  BY <1>1 DEF DoneIsNotCompared
<1>6. StopStepsClean'
  BY DEF StopStepsClean, HasOpenOrder
<1>7. ChildIsKnown'
  <2> SUFFICES ASSUME NEW g \in ForwardTests
               PROVE  /\ mode'[g] = "none" => child'[g] = "none"
                      /\ At(g, "open_gateway_interruption")' => child'[g] = "exit_4"
    BY DEF ChildIsKnown
  <2>1. mode'[g] = "none" => child'[g] = "none"
    BY DEF ChildIsKnown
  <2>2. ASSUME At(g, "open_gateway_interruption")'
        PROVE  child'[g] = "exit_4"
    <3>1. IsNextRow(g) /\ step' = "open_gateway_interruption"
      BY <2>2 DEF At, IsNextRow
    <3>2. CASE IsNextRow(f) /\ child'[f] = "exit_4"
      BY <3>1, <3>2, ConstantsAssumption DEF IsNextRow
    <3>3. CASE step' = step /\ (child[f] = "exit_4" => child'[f] = "exit_4")
      BY <3>1, <3>3 DEF ChildIsKnown, At
    <3> QED  BY <3>1, <3>2, <3>3
  <2> QED  BY <2>1, <2>2
<1>8. LiveHasNoInterruption'
  BY DEF LiveHasNoInterruption
<1> QED  BY <1>2, <1>3, <1>4, <1>5, <1>6, <1>7, <1>8

\* The end of a stop is the one step that gives a client ID back.
LEMMA RecordStoppedLeaseInv ==
    ASSUME TypeOK, LeaseInv, NEW f \in ForwardTests, RecordStopped(f)
    PROVE  LeaseInv'
<1> USE DEF LeaseInv, TypeOK, RecordStopped, WriteEnd, EndIsRecorded, LeaveRow, At, IsNextRow,
            memoryVars, processVars, ibkrVars, worldVars
<1>1. f \in todo /\ clientId[f] # NoClientId /\ child[f] = "exit_0"
  BY DEF DoneIsNotCompared
<1>2. ~HasOpenOrder(f) /\ f \notin fills
  BY <1>1 DEF StopStepsClean
<1>3. \A g \in ForwardTests :
          \/ child'[g] = child[g] /\ mode'[g] = mode[g]
          \/ child'[g] = "none"
  <2>1. CASE UNCHANGED <<memoryVars, processVars>>
    BY <2>1
  <2>2. CASE /\ mode' = [mode EXCEPT ![f] = "none"]
             /\ child' = [child EXCEPT ![f] = "none"]
    BY <2>2
  <2> QED  BY <2>1, <2>2
<1>4. login' = "paper" /\ \A g \in ForwardTests : child'[g] # "exit_3"
  BY <1>3
<1>5. UniqueClientIds' /\ OrdersUnderOwnClientId'
  BY <1>2 DEF UniqueClientIds, OrdersUnderOwnClientId, HasOpenOrder
<1>6. FreedIdIsQuiet'
  BY <1>1, <1>2, <1>3 DEF FreedIdIsQuiet, HasOpenOrder, Alive, StartSteps, StopSteps
<1>7. DoneIsNotCompared'
  BY <1>1 DEF DoneIsNotCompared
<1>8. StopStepsClean'
  BY <1>3 DEF StopStepsClean, HasOpenOrder
<1>9. ChildIsKnown'
  BY <1>1, <1>3 DEF ChildIsKnown
<1>10. LiveHasNoInterruption'
  BY <1>3 DEF LiveHasNoInterruption
<1> QED  BY <1>4, <1>5, <1>6, <1>7, <1>8, <1>9, <1>10

(* What a step of a child process may change, a crash of it included. *)
ChildEffect(f) ==
    /\ child[f] \in Alive
    /\ UNCHANGED <<clientId, mode, login, todo, step>>
    /\ orders' \subseteq orders /\ fills' \subseteq fills /\ holding' \subseteq holding \cup {f}
    /\ child' = [child EXCEPT ![f] = child'[f]]
    /\ child'[f] \in (Alive \cup ExitCodes) \ {"exit_3"}
    /\ \A g \in ForwardTests :
          /\ status'[g] # status[g] => g = f /\ status'[f] # "absent"
          /\ interruption'[g] # interruption[g] => g = f
    /\ child'[f] \in {"save", "stop_save", "exit_0"} =>
          ~HasOpenOrder(f)' \/ child[f] \in {"save", "stop_save", "exit_0"}
    /\ child'[f] = "exit_0" => f \notin fills'
    /\ child'[f] = "live" => child[f] = "live" \/ interruption'[f] = "none"
    /\ child[f] = "live" => interruption' = interruption

\* What a step of a child, or its crash, can change of the state the lease
\* invariant reads, on a paper login.
LEMMA ChildStepEffect ==
    ASSUME TypeOK, OrdersUnderOwnClientId, login = "paper",
           NEW f \in ForwardTests, ChildStep(f) \/ ChildCrashes(f)
    PROVE  ChildEffect(f)
<1> USE DEF ChildEffect, TypeOK, Alive, StartSteps, StopSteps, ExitCodes, ChildSteps, rowVars,
            memoryVars, loopVars, processVars, ibkrVars, worldVars, OnlyStatus,
            OnlyInterruption, OnlyIbkr, OnlyProcess, OpenInterruption, IsAt, Become
<1>1. CASE BootChild(f)
  BY <1>1 DEF BootChild
<1>2. CASE ConnectAndCheckAccount(f)
  BY <1>2 DEF ConnectAndCheckAccount
<1>3. CASE CancelOwnOrder(f)
  BY <1>3 DEF CancelOwnOrder, OwnOpenOrders
<1>4. CASE AllOwnOrdersCancelled(f)
  <2>1. ~HasOpenOrder(f)'
    BY <1>4 DEF AllOwnOrdersCancelled, OwnOpenOrders, OrdersUnderOwnClientId, HasOpenOrder
  <2> QED  BY <1>4, <2>1 DEF AllOwnOrdersCancelled
<1>5. CASE SaveFills(f)
  BY <1>5 DEF SaveFills, SaveFill, VisibleFill
<1>6. CASE FindHeldFill(f)
  BY <1>6 DEF FindHeldFill
<1>7. CASE RequestFails(f)
  BY <1>7 DEF RequestFails
<1>8. CASE WriteWaitingForGateway(f)
  BY <1>8 DEF WriteWaitingForGateway, WriteWaiting
<1>9. CASE OpenWaitInterruption(f)
  BY <1>9 DEF OpenWaitInterruption
<1>10. CASE EndWait(f)
  BY <1>10 DEF EndWait
<1>11. CASE WriteLiveNodeStart(f)
  BY <1>11 DEF WriteLiveNodeStart
<1>12. CASE EndInterruption(f)
  BY <1>12 DEF EndInterruption
<1>13. CASE StopLiveNode(f)
  BY <1>13 DEF StopLiveNode
<1>14. CASE LoseGateway(f)
  BY <1>14 DEF LoseGateway
<1>15. CASE EndLostNode(f)
  BY <1>15 DEF EndLostNode
<1>16. CASE ConnectForStop(f)
  BY <1>16 DEF ConnectForStop
<1>17. CASE ChildCrashes(f)
  BY <1>17 DEF ChildCrashes
<1> QED
  BY <1>1, <1>2, <1>3, <1>4, <1>5, <1>6, <1>7, <1>8, <1>9, <1>10, <1>11, <1>12, <1>13, <1>14,
     <1>15, <1>16, <1>17 DEF ChildStep

\* A step with no more effect than that keeps the lease invariant.
LEMMA ChildEffectLeaseInv ==
    ASSUME TypeOK, LeaseInv, NEW f \in ForwardTests, ChildEffect(f)
    PROVE  LeaseInv'
<1> USE DEF LeaseInv, TypeOK, ChildEffect
<1>1. clientId[f] # NoClientId
  BY DEF FreedIdIsQuiet
<1>2. login' = "paper" /\ \A g \in ForwardTests : child'[g] # "exit_3"
  BY DEF Alive, StartSteps, StopSteps
<1>3. UniqueClientIds' /\ OrdersUnderOwnClientId'
  BY DEF UniqueClientIds, OrdersUnderOwnClientId
<1>4. FreedIdIsQuiet'
  BY <1>1 DEF FreedIdIsQuiet, HasOpenOrder
<1>5. DoneIsNotCompared'
  BY <1>1 DEF DoneIsNotCompared
<1>6. StopStepsClean'
  BY DEF StopStepsClean, HasOpenOrder
<1>7. ChildIsKnown'
  BY DEF ChildIsKnown, At, IsNextRow, Alive, StartSteps, StopSteps
<1>8. LiveHasNoInterruption'
  BY DEF LiveHasNoInterruption
<1> QED  BY <1>2, <1>3, <1>4, <1>5, <1>6, <1>7, <1>8

\* Orders of a live strategy and answers of IBKR keep the lease invariant.
LEMMA OutsideStepLeaseInv ==
    ASSUME TypeOK, LeaseInv, NEW f \in ForwardTests, StrategyStep(f) \/ IbkrStep(f)
    PROVE  LeaseInv'
<1> USE DEF OnlyIbkr, rowVars, memoryVars, loopVars, processVars, worldVars
<1>1. UNCHANGED <<clientId, status, interruption, mode, child, login, todo, step>>
  BY DEF StrategyStep, IbkrStep, SendOrder, SaveNewFill, OrderFills, EndHold, OrderExpires
<1>2. /\ orders' \subseteq orders \cup {<<f, clientId[f]>>}
      /\ fills' \subseteq fills \cup {f} /\ holding' \subseteq holding \cup {f}
      /\ child[f] # "live" => orders' \subseteq orders /\ holding' = holding
      /\ ~HasOpenOrder(f) => fills' \subseteq fills
  <2>1. CASE SendOrder(f)
    <3>1. /\ child[f] = "live" /\ orders' = orders \cup {<<f, clientId[f]>>}
          /\ UNCHANGED <<fills, holding>>
      BY <2>1 DEF SendOrder, IsAt
    <3> QED  BY <3>1
  <2>2. CASE SaveNewFill(f)
    <3>1. /\ child[f] = "live" /\ orders' = orders
          /\ fills' = fills \ {f} /\ holding' = holding \cup {f}
      BY <2>2 DEF SaveNewFill, SaveFill, IsAt
    <3> QED  BY <3>1
  <2>3. CASE OrderFills(f)
    <3>1. /\ HasOpenOrder(f) /\ orders' \subseteq orders
          /\ fills' = fills \cup {f} /\ holding' = holding
      BY <2>3 DEF OrderFills, HasOpenOrder
    <3> QED  BY <3>1
  <2>4. CASE EndHold(f) \/ OrderExpires(f)
    <3>1. orders' \subseteq orders /\ UNCHANGED <<fills, holding>>
      BY <2>4 DEF EndHold, OrderExpires
    <3> QED  BY <3>1
  <2> QED  BY <2>1, <2>2, <2>3, <2>4 DEF StrategyStep, IbkrStep
<1>3. UniqueClientIds' /\ DoneIsNotCompared' /\ ChildIsKnown' /\ LiveHasNoInterruption'
  BY <1>1 DEF LeaseInv, UniqueClientIds, DoneIsNotCompared, ChildIsKnown,
     LiveHasNoInterruption, At, IsNextRow
<1>4. OrdersUnderOwnClientId'
  BY <1>1, <1>2 DEF LeaseInv, TypeOK, OrdersUnderOwnClientId
<1>5. FreedIdIsQuiet'
  BY <1>1, <1>2 DEF LeaseInv, TypeOK, FreedIdIsQuiet, HasOpenOrder, Alive
<1>6. StopStepsClean'
  BY <1>1, <1>2 DEF LeaseInv, TypeOK, StopStepsClean, HasOpenOrder
<1> QED  BY <1>1, <1>3, <1>4, <1>5, <1>6 DEF LeaseInv

\* A fault keeps the lease invariant: what the worker then forgets is no cause
\* to free an id.
LEMMA FaultStepLeaseInv ==
    ASSUME TypeOK, LeaseInv, FaultStep
    PROVE  LeaseInv'
<1> USE DEF TypeOK, rowVars, memoryVars, loopVars, processVars, ibkrVars, worldVars
<1>1. ASSUME NEW f \in ForwardTests, RowFails(f)
      PROVE  LeaseInv'
  <2>1. WorkerEffect(f)
    BY <1>1 DEF WorkerEffect, RowFails, LeaveRow, LeaseInv, ChildIsKnown
  <2> QED  BY <2>1, WorkerEffectLeaseInv
<1>2. ASSUME NEW f \in ForwardTests, RequestRestart(f)
      PROVE  LeaseInv'
  <2>1. WorkerEffect(f)
    BY <1>2 DEF WorkerEffect, RequestRestart, SendStop
  <2> QED  BY <2>1, WorkerEffectLeaseInv
<1>3. ASSUME NEW f \in ForwardTests, ChildCrashes(f)
      PROVE  LeaseInv'
  BY <1>3, ChildStepEffect, ChildEffectLeaseInv DEF LeaseInv
<1>4. CASE WorkerRestarts
  BY <1>4 DEF WorkerRestarts, LeaseInv, UniqueClientIds, OrdersUnderOwnClientId,
     FreedIdIsQuiet, DoneIsNotCompared, StopStepsClean, ChildIsKnown, LiveHasNoInterruption,
     HasOpenOrder, At, Alive, StartSteps, StopSteps
<1>5. CASE GatewayStops
  BY <1>5 DEF GatewayStops, LeaseInv, UniqueClientIds, OrdersUnderOwnClientId,
     FreedIdIsQuiet, DoneIsNotCompared, StopStepsClean, ChildIsKnown, LiveHasNoInterruption,
     HasOpenOrder, At, IsNextRow
<1> QED  BY <1>1, <1>2, <1>3, <1>4, <1>5 DEF FaultStep

\* LeaseInv is inductive when IB Gateway is not logged in to another account.
LEMMA StepLeaseInv ==
    ASSUME "other_login" \notin RareEvents
    PROVE  TypeOK /\ LeaseInv /\ [Next]_vars => LeaseInv'
<1> SUFFICES ASSUME TypeOK, LeaseInv, [Next]_vars
             PROVE  LeaseInv'
  OBVIOUS
<1> USE DEF rowVars, memoryVars, loopVars, processVars, ibkrVars, worldVars
<1>1. CASE UNCHANGED vars
  BY <1>1 DEF vars, LeaseInv, UniqueClientIds, OrdersUnderOwnClientId, FreedIdIsQuiet,
     DoneIsNotCompared, StopStepsClean, ChildIsKnown, LiveHasNoInterruption, HasOpenOrder, At,
     IsNextRow
<1>2. CASE SelectRowsToCompare
  <2>1. UNCHANGED <<clientId, status, interruption, mode, child, login, orders, fills, holding>>
    BY <1>2 DEF SelectRowsToCompare
  <2>2. \A f \in todo' : ~IsDone(f)
    BY <1>2 DEF SelectRowsToCompare
  <2>3. DoneIsNotCompared'
    BY <2>1, <2>2 DEF LeaseInv, DoneIsNotCompared, IsDone
  <2>4. ChildIsKnown'
    BY <1>2, <2>1 DEF SelectRowsToCompare, LeaseInv, ChildIsKnown, At
  <2>5. FreedIdIsQuiet' /\ StopStepsClean'
    BY <2>1 DEF LeaseInv, FreedIdIsQuiet, StopStepsClean, HasOpenOrder
  <2> QED
    BY <2>1, <2>3, <2>4, <2>5 DEF LeaseInv, UniqueClientIds, OrdersUnderOwnClientId,
       LiveHasNoInterruption
<1>3. CASE GatewayReturns
  BY <1>3 DEF GatewayReturns, LeaseInv, UniqueClientIds, OrdersUnderOwnClientId,
     FreedIdIsQuiet, DoneIsNotCompared, StopStepsClean, ChildIsKnown, LiveHasNoInterruption,
     HasOpenOrder, At, IsNextRow
<1>4. ASSUME NEW f \in ForwardTests, CompareStep(f)
      PROVE  LeaseInv'
  BY <1>4, RecordStoppedLeaseInv, CompareStepEffect, WorkerEffectLeaseInv
<1>5. ASSUME NEW f \in ForwardTests, ChildStep(f)
      PROVE  LeaseInv'
  BY <1>5, ChildStepEffect, ChildEffectLeaseInv DEF LeaseInv
<1>6. CASE DayEnds
  <2>1. /\ UNCHANGED <<clientId, status, interruption, mode, child, login, todo, step, orders,
                       holding>>
        /\ fills' = {}
    BY <1>6 DEF DayEnds, OnlyIbkr
  <2> QED
    BY <2>1 DEF LeaseInv, UniqueClientIds, OrdersUnderOwnClientId, FreedIdIsQuiet,
       DoneIsNotCompared, StopStepsClean, ChildIsKnown, LiveHasNoInterruption, HasOpenOrder, At,
       IsNextRow
<1> QED
  BY <1>1, <1>2, <1>3, <1>4, <1>5, <1>6, WebStepLeaseInv, OutsideStepLeaseInv,
     FaultStepLeaseInv DEF Next, WorkerStep

\* The lease invariant holds in every state of the specification, when no other
\* login is used.
THEOREM LeaseInvariant ==
    ASSUME "other_login" \notin RareEvents
    PROVE  Spec => []LeaseInv
<1>1. Init => TypeOK /\ LeaseInv
  BY InitTypeOK, InitLeaseInv
<1>2. TypeOK /\ LeaseInv /\ [Next]_vars => (TypeOK /\ LeaseInv)'
  BY StepTypeOK, StepLeaseInv
<1> QED  BY <1>1, <1>2, PTL DEF Spec

\* A forward test that gave its client ID back has no open order, no execution outside the owner
\* ledger, no holding, no process and no open interruption (12.4, 12.6).
THEOREM FreedIdsAreQuiet ==
    ASSUME "other_login" \notin RareEvents
    PROVE  Spec => []FreedIdIsQuiet
<1>1. LeaseInv => FreedIdIsQuiet
  BY DEF LeaseInv
<1> QED  BY <1>1, LeaseInvariant, PTL

\* No two processes have the same client ID, and none runs without one (12.4).
THEOREM ProcessesHaveOwnClientIds ==
    ASSUME "other_login" \notin RareEvents
    PROVE  Spec => []OneProcessPerClientId
<1>1. TypeOK /\ LeaseInv => OneProcessPerClientId
  BY DEF TypeOK, ClientIdColumn, LeaseInv, FreedIdIsQuiet, UniqueClientIds,
     OneProcessPerClientId
<1> QED  BY <1>1, TypeCorrect, LeaseInvariant, PTL

\* Every open order is under the client ID that its forward test still holds, so the start steps of
\* a process cancel its own orders, all of them, and no order of another forward test (12.4).
THEOREM OrdersAreUnderOwnClientId ==
    ASSUME "other_login" \notin RareEvents
    PROVE  Spec => []OrdersUnderOwnClientId
<1>1. LeaseInv => OrdersUnderOwnClientId
  BY DEF LeaseInv
<1> QED  BY <1>1, LeaseInvariant, PTL

\* A LiveNode that runs has no open interruption, so the next one finds room in the table.
THEOREM LiveNodesHaveNoInterruption ==
    ASSUME "other_login" \notin RareEvents
    PROVE  Spec => []LiveHasNoInterruption
<1>1. LeaseInv => LiveHasNoInterruption
  BY DEF LeaseInv
<1> QED  BY <1>1, LeaseInvariant, PTL

-----------------------------------------------------------------------------
(* The worker implements ClientIdLease: Exposed and Over are its variables, seen from here.    *)

Exposed == {f \in ForwardTests : HasOpenOrder(f) \/ f \in fills}
Over == {f \in ForwardTests : IsOver(f)}

\* A step that keeps the ids, the exposed tests and the ended tests is a
\* stutter of the lease.
LEMMA LeaseStutter ==
    ASSUME UNCHANGED <<clientId, Exposed, Over>>
    PROVE  [Lease!Next]_(Lease!vars)
BY DEF Lease!vars, Exposed, Over

\* The initial states map to the initial state of the lease.
LEMMA LeaseInit == Init => Lease!Init
BY DEF Init, Lease!Init, HasOpenOrder, IsOver

\* Starting a test (start_forward_test) takes one free client id in the lease.
LEMMA StartTakesLease ==
    ASSUME TypeOK, LeaseInv, NEW f \in ForwardTests, StartForwardTest(f)
    PROVE  \E c \in ClientIds : Lease!Take(f, c)
<1>1. PICK c \in ClientIds : /\ IsLowestFreeClientId(c)
                             /\ clientId' = [clientId EXCEPT ![f] = c]
  BY DEF StartForwardTest
<1>2. clientId[f] = NoClientId /\ \A g \in ForwardTests : clientId[g] # c
  BY <1>1, ConstantsAssumption DEF StartForwardTest, LeaseInv, DoneIsNotCompared,
     IsLowestFreeClientId, TakenClientIds
<1>3. status[f] = "absent" /\ status' = [status EXCEPT ![f] = "starting"]
  BY DEF StartForwardTest
<1>4. UNCHANGED <<orders, fills>>
  BY DEF StartForwardTest, ibkrVars
<1>5. Exposed' = Exposed
  BY <1>4 DEF Exposed, HasOpenOrder
<1>6. f \notin Over
  BY <1>3 DEF Over, IsOver
<1>7. Over' = Over
  BY <1>1, <1>2, <1>3, ConstantsAssumption DEF Over, IsOver, TypeOK
<1>8. Lease!IsFree(c)
  BY <1>2 DEF Lease!IsFree
<1> QED  BY <1>1, <1>2, <1>5, <1>6, <1>7, <1>8 DEF Lease!Take, Exposed, Over

\* Recording the end (stopped) gives the id back, with nothing of the test at
\* IBKR any more.
LEMMA EndGivesLeaseBack ==
    ASSUME TypeOK, LeaseInv, NEW f \in ForwardTests, RecordStopped(f)
    PROVE  Lease!GiveBack(f)
<1>1. f \in todo /\ clientId[f] # NoClientId /\ child[f] = "exit_0"
  BY DEF RecordStopped, At, IsNextRow, LeaseInv, DoneIsNotCompared
<1>2. f \notin Exposed
  BY <1>1 DEF LeaseInv, StopStepsClean, Exposed
<1>3. /\ status' = [status EXCEPT ![f] = "stopped"]
      /\ clientId' = [clientId EXCEPT ![f] = NoClientId]
      /\ UNCHANGED <<orders, fills>>
  BY DEF RecordStopped, WriteEnd, ibkrVars
<1>4. Exposed' = Exposed
  BY <1>3 DEF Exposed, HasOpenOrder
<1>5. Over' = Over \cup {f}
  BY <1>3 DEF Over, IsOver, TypeOK
<1> QED  BY <1>1, <1>2, <1>3, <1>4, <1>5 DEF Lease!GiveBack, Exposed, Over

\* The end of one order, for any reason but an execution, settles its forward test or nothing.
LEMMA OrderEndSettles ==
    ASSUME TypeOK, NEW o \in orders, orders' = orders \ {o}, UNCHANGED <<clientId, status, fills>>
    PROVE  [Lease!Next]_(Lease!vars)
<1>1. o[1] \in ForwardTests
  BY DEF TypeOK
<1>2. Over' = Over
  BY DEF Over, IsOver
<1>3. \A g \in ForwardTests \ {o[1]} : HasOpenOrder(g)' <=> HasOpenOrder(g)
  BY DEF HasOpenOrder, TypeOK
<1>4. CASE HasOpenOrder(o[1])' \/ o[1] \in fills
  <2>1. Exposed' = Exposed
    BY <1>3, <1>4 DEF Exposed, HasOpenOrder
  <2> QED  BY <1>2, <2>1, LeaseStutter
<1>5. CASE ~HasOpenOrder(o[1])' /\ o[1] \notin fills
  <2>1. Exposed' = Exposed \ {o[1]}
    BY <1>1, <1>3, <1>5 DEF Exposed
  <2>2. Lease!Settle({o[1]})
    BY <1>2, <2>1 DEF Lease!Settle, Exposed, Over
  <2> QED  BY <1>1, <2>2 DEF Lease!Next
<1> QED  BY <1>4, <1>5

\* Saving the fills of a test settles it in the lease.
LEMMA SaveSettles ==
    ASSUME TypeOK, NEW f \in ForwardTests, fills' = fills \ {f},
           UNCHANGED <<clientId, status, orders>>
    PROVE  [Lease!Next]_(Lease!vars)
<1>1. Over' = Over
  BY DEF Over, IsOver
<1>2. \A g \in ForwardTests : HasOpenOrder(g)' <=> HasOpenOrder(g)
  BY DEF HasOpenOrder
<1>3. CASE HasOpenOrder(f)
  BY <1>1, <1>2, <1>3, LeaseStutter DEF Exposed
<1>4. CASE ~HasOpenOrder(f)
  <2>1. Exposed' = Exposed \ {f}
    BY <1>2, <1>4 DEF Exposed
  <2>2. Lease!Settle({f})
    BY <1>1, <2>1 DEF Lease!Settle, Exposed, Over
  <2> QED  BY <2>2 DEF Lease!Next
<1> QED  BY <1>3, <1>4

\* A step that moves no client ID, order or execution does not concern the lease: it writes
\* the status of a forward test only while that has its client ID.
LEMMA NoLeaseStep ==
    ASSUME TypeOK, UNCHANGED <<clientId, orders, fills>>,
           \A g \in ForwardTests : status'[g] = status[g] \/ clientId[g] # NoClientId
    PROVE  [Lease!Next]_(Lease!vars)
<1>1. Exposed' = Exposed
  BY DEF Exposed, HasOpenOrder
<1>2. Over' = Over
  BY DEF Over, IsOver
<1> QED  BY <1>1, <1>2, LeaseStutter

\* A step of a child, or its crash, is a step of the lease or a stutter.
LEMMA ChildStepLease ==
    ASSUME TypeOK, LeaseInv, NEW f \in ForwardTests, ChildStep(f) \/ ChildCrashes(f)
    PROVE  [Lease!Next]_(Lease!vars)
<1> USE DEF rowVars, ibkrVars
<1>1. CASE CancelOwnOrder(f)
  <2>1. PICK o \in OwnOpenOrders(f) : orders' = orders \ {o}
    BY <1>1 DEF CancelOwnOrder
  <2>2. o \in orders
    BY DEF OwnOpenOrders
  <2>3. UNCHANGED <<clientId, status, fills>>
    BY <1>1 DEF CancelOwnOrder, OnlyIbkr
  <2> QED  BY <2>1, <2>2, <2>3, OrderEndSettles
<1>2. CASE SaveFills(f)
  <2>1. CASE VisibleFill(f)
    BY <1>2, <2>1, SaveSettles DEF SaveFills, SaveFill
  <2>2. CASE ~VisibleFill(f)
    BY <1>2, <2>2, NoLeaseStep DEF SaveFills
  <2> QED  BY <2>1, <2>2
<1>3. CASE WriteWaitingForGateway(f) \/ WriteLiveNodeStart(f)
  <2>1. clientId[f] # NoClientId
    BY <1>3 DEF LeaseInv, FreedIdIsQuiet, WriteWaitingForGateway, WriteLiveNodeStart, IsAt,
       Alive, StartSteps
  <2>2. UNCHANGED <<clientId, orders, fills>>
    BY <1>3 DEF WriteWaitingForGateway, WriteLiveNodeStart, OnlyStatus
  <2>3. \A g \in ForwardTests : status'[g] = status[g] \/ g = f
    BY <1>3 DEF WriteWaitingForGateway, WriteLiveNodeStart, WriteWaiting, TypeOK
  <2> QED  BY <2>1, <2>2, <2>3, NoLeaseStep
<1>4. CASE UNCHANGED <<clientId, status, orders, fills>>
  BY <1>4, NoLeaseStep
<1>5. \/ CancelOwnOrder(f) \/ SaveFills(f) \/ WriteWaitingForGateway(f)
      \/ WriteLiveNodeStart(f) \/ UNCHANGED <<clientId, status, orders, fills>>
  BY DEF ChildStep, ChildCrashes, BootChild, ConnectAndCheckAccount, AllOwnOrdersCancelled,
     FindHeldFill, RequestFails, OpenWaitInterruption, EndWait, EndInterruption, StopLiveNode,
     LoseGateway, EndLostNode, ConnectForStop, OnlyProcess, OnlyInterruption
<1> QED  BY <1>1, <1>2, <1>3, <1>4, <1>5

\* A step of a strategy or of IBKR is a step of the lease or a stutter.
LEMMA OutsideStepLease ==
    ASSUME TypeOK, LeaseInv, NEW f \in ForwardTests, StrategyStep(f) \/ IbkrStep(f)
    PROVE  [Lease!Next]_(Lease!vars)
<1> USE DEF rowVars, ibkrVars, OnlyIbkr
<1>1. CASE SendOrder(f)
  <2>1. clientId[f] # NoClientId
    BY <1>1 DEF SendOrder, IsAt, LeaseInv, FreedIdIsQuiet, Alive
  <2>2. orders' = orders \cup {<<f, clientId[f]>>} /\ UNCHANGED <<clientId, status, fills>>
    BY <1>1 DEF SendOrder
  <2>3. HasOpenOrder(f)'
    <3>1. <<f, clientId[f]>> \in orders' /\ <<f, clientId[f]>>[1] = f
      BY <2>2
    <3> QED  BY <3>1 DEF HasOpenOrder
  <2>4. \A g \in ForwardTests : g # f => (HasOpenOrder(g)' <=> HasOpenOrder(g))
    <3> SUFFICES ASSUME NEW g \in ForwardTests, g # f
                 PROVE  HasOpenOrder(g)' <=> HasOpenOrder(g)
      OBVIOUS
    <3>1. <<f, clientId[f]>>[1] # g
      OBVIOUS
    <3> QED  BY <2>2, <3>1 DEF HasOpenOrder
  <2>5. Exposed' = Exposed \cup {f}
    BY <2>2, <2>3, <2>4 DEF Exposed
  <2>6. Lease!Expose(f)
    BY <2>1, <2>2, <2>5 DEF Lease!Expose, Exposed, IsOver
  <2> QED  BY <2>6 DEF Lease!Next
<1>2. CASE SaveNewFill(f)
  BY <1>2, SaveSettles DEF SaveNewFill, SaveFill
<1>3. CASE OrderFills(f)
  <2>1. PICK o \in orders : o[1] = f /\ orders' \in {orders, orders \ {o}}
    BY <1>3 DEF OrderFills
  <2>2. fills' = fills \cup {f} /\ UNCHANGED <<clientId, status>>
    BY <1>3 DEF OrderFills
  <2>3. \A g \in ForwardTests : g # f => (HasOpenOrder(g)' <=> HasOpenOrder(g))
    BY <2>1 DEF HasOpenOrder
  <2>4. f \in Exposed /\ f \in Exposed'
    BY <2>1, <2>2 DEF Exposed, HasOpenOrder
  <2>5. \A g \in ForwardTests : g # f => (g \in Exposed' <=> g \in Exposed)
    BY <2>2, <2>3 DEF Exposed
  <2>6. Exposed' = Exposed
    BY <2>4, <2>5 DEF Exposed
  <2>7. Over' = Over
    BY <2>2 DEF Over, IsOver
  <2> QED  BY <2>2, <2>6, <2>7, LeaseStutter
<1>4. CASE EndHold(f)
  BY <1>4, NoLeaseStep DEF EndHold
<1>5. CASE OrderExpires(f)
  <2>1. PICK o \in orders : orders' = orders \ {o}
    BY <1>5 DEF OrderExpires
  <2>2. UNCHANGED <<clientId, status, fills>>
    BY <1>5 DEF OrderExpires
  <2> QED  BY <2>1, <2>2, OrderEndSettles
<1> QED  BY <1>1, <1>2, <1>3, <1>4, <1>5 DEF StrategyStep, IbkrStep

\* Every step maps to a step of ClientIdLease, or to none.
LEMMA StepLease ==
    ASSUME TypeOK, LeaseInv, [Next]_vars
    PROVE  [Lease!Next]_(Lease!vars)
<1> USE DEF rowVars, ibkrVars
<1>1. ASSUME NEW f \in ForwardTests, WebStep(f)
      PROVE  [Lease!Next]_(Lease!vars)
  <2>1. CASE StartForwardTest(f)
    BY <2>1, StartTakesLease DEF Lease!Next
  <2>2. CASE StopForwardTest(f) \/ EndTimeComes(f)
    BY <2>2, NoLeaseStep DEF StopForwardTest, EndTimeComes
  <2> QED  BY <1>1, <2>1, <2>2 DEF WebStep
<1>2. ASSUME NEW f \in ForwardTests, WorkerEffect(f)
      PROVE  [Lease!Next]_(Lease!vars)
  <2>1. f \in todo => clientId[f] # NoClientId
    BY DEF LeaseInv, DoneIsNotCompared
  <2>2. \A g \in ForwardTests : status'[g] = status[g] \/ clientId[g] # NoClientId
    BY <1>2, <2>1 DEF WorkerEffect
  <2>3. UNCHANGED <<clientId, orders, fills>>
    BY <1>2 DEF WorkerEffect
  <2> QED  BY <2>2, <2>3, NoLeaseStep
<1>3. ASSUME NEW f \in ForwardTests, CompareStep(f)
      PROVE  [Lease!Next]_(Lease!vars)
  BY <1>2, <1>3, CompareStepEffect, EndGivesLeaseBack DEF Lease!Next
<1>4. CASE FaultStep
  BY <1>4, ChildStepLease, NoLeaseStep
  DEF FaultStep, RowFails, RequestRestart, WorkerRestarts, GatewayStops
<1>5. CASE UNCHANGED vars \/ SelectRowsToCompare \/ GatewayReturns
  BY <1>5, NoLeaseStep DEF vars, SelectRowsToCompare, GatewayReturns
<1>6. CASE DayEnds
  <2>1. UNCHANGED <<clientId, status, orders>> /\ fills' = {}
    BY <1>6 DEF DayEnds, OnlyIbkr
  <2>2. Over' = Over
    BY <2>1 DEF Over, IsOver
  <2>3. \A g \in ForwardTests : HasOpenOrder(g)' <=> HasOpenOrder(g)
    BY <2>1 DEF HasOpenOrder
  <2>4. PICK settled \in SUBSET ForwardTests :
            settled = {g \in ForwardTests : ~HasOpenOrder(g) /\ g \in fills}
    OBVIOUS
  <2>5. Exposed' = Exposed \ settled
    BY <2>1, <2>3, <2>4 DEF Exposed
  <2>6. Lease!Settle(settled)
    BY <2>1, <2>2, <2>5 DEF Lease!Settle, Exposed, Over
  <2> QED  BY <2>6 DEF Lease!Next
<1> QED
  BY <1>1, <1>3, <1>4, <1>5, <1>6, ChildStepLease, OutsideStepLease DEF Next, WorkerStep

\* The forward-test worker lends the client IDs as ClientIdLease says: to one forward test at a
\* time, and back only when nothing of that forward test is outstanding at IBKR (12.4).
THEOREM WorkerImplementsLease ==
    ASSUME "other_login" \notin RareEvents
    PROVE  Spec => ImplementsLease
BY LeaseInit, StepLease, TypeCorrect, LeaseInvariant, PTL DEF Spec, Lease!Spec, ImplementsLease

-----------------------------------------------------------------------------
(* The crash limit, whatever IB Gateway and the database do. *)

\* The crash invariant holds at the start.
LEMMA InitCrashInv == Init => CrashInv
BY ConstantsAssumption
   DEF Init, CrashInv, RunsUnderCrashLimit, StopStepsAreAskedFor, UnderCrashLimit, At

\* A step of the worker's compare keeps the crash invariant: it starts a run
\* child under the limit only.
LEMMA CompareStepCrashInv ==
    ASSUME TypeOK, CrashInv, NEW f \in ForwardTests, CompareStep(f)
    PROVE  CrashInv'
<1> USE ConstantsAssumption
    DEF TypeOK, CrashInv, RunsUnderCrashLimit, StopStepsAreAskedFor, UnderCrashLimit,
        ActiveStatuses, Alive, StartSteps, StopSteps, ExitCodes, At, IsNextRow, GoTo, LeaveRow,
        OnlyStatus, OnlyInterruption, rowVars, memoryVars, loopVars, processVars
<1>1. CASE StartCancelOrdersChild(f)
  BY <1>1 DEF StartCancelOrdersChild, StartRunningChild, HasNoChild
<1>2. CASE StartWorkerRestartInterruption(f)
  BY <1>2 DEF StartWorkerRestartInterruption, HasNoChild
<1>3. CASE StartRunChild(f)
  BY <1>3 DEF StartRunChild, StartRunningChild, HasNoChild
<1>4. CASE WriteRunning(f)
  BY <1>4 DEF WriteRunning
<1>5. CASE RequestStop(f)
  BY <1>5 DEF RequestStop, SendStop
<1>6. CASE WriteStopping(f)
  BY <1>6 DEF WriteStopping
<1>7. CASE KeepRow(f)
  BY <1>7 DEF KeepRow
<1>8. CASE RecordRestart(f)
  BY <1>8 DEF RecordRestart, IsRestart, EndIsRecorded
<1>9. CASE RecordStopped(f)
  BY <1>9 DEF RecordStopped, WriteEnd, EndIsRecorded
<1>10. CASE RecordStopFailed(f)
  BY <1>10 DEF RecordStopFailed, EndIsRecorded
<1>11. CASE RecordPaperCheckFailed(f)
  BY <1>11 DEF RecordPaperCheckFailed, WriteEnd, EndIsRecorded
<1>12. CASE RecordGatewayUnreachable(f)
  BY <1>12 DEF RecordGatewayUnreachable, WriteWaiting
<1>13. CASE OpenGatewayInterruption(f)
  BY <1>13 DEF OpenGatewayInterruption, EndIsRecorded
<1>14. CASE RecordCrash(f)
  BY <1>14 DEF RecordCrash, IsCrash, IsStop, IsRestart
<1>15. CASE WriteCrash(f)
  BY <1>15 DEF WriteCrash, EndIsRecorded
<1> QED
  BY <1>1, <1>2, <1>3, <1>4, <1>5, <1>6, <1>7, <1>8, <1>9, <1>10, <1>11, <1>12, <1>13, <1>14, <1>15
  DEF CompareStep

\* A step of a child, or its crash, keeps the crash invariant: it enters its
\* stop steps only when asked.
LEMMA ChildStepCrashInv ==
    ASSUME TypeOK, CrashInv, NEW f \in ForwardTests, ChildStep(f) \/ ChildCrashes(f)
    PROVE  CrashInv'
<1> USE DEF TypeOK, CrashInv, RunsUnderCrashLimit, StopStepsAreAskedFor, UnderCrashLimit,
            ActiveStatuses, Alive, StartSteps, StopSteps, ExitCodes, At, IsNextRow, IsAt, Become,
            OnlyStatus, OnlyInterruption, OnlyIbkr, OnlyProcess, rowVars, memoryVars, loopVars,
            processVars
<1>1. CASE BootChild(f)
  BY <1>1 DEF BootChild
<1>2. CASE ConnectAndCheckAccount(f)
  BY <1>2 DEF ConnectAndCheckAccount
<1>3. CASE CancelOwnOrder(f)
  BY <1>3 DEF CancelOwnOrder
<1>4. CASE AllOwnOrdersCancelled(f)
  BY <1>4 DEF AllOwnOrdersCancelled
<1>5. CASE SaveFills(f)
  BY <1>5 DEF SaveFills
<1>6. CASE FindHeldFill(f)
  BY <1>6 DEF FindHeldFill
<1>7. CASE RequestFails(f)
  BY <1>7 DEF RequestFails
<1>8. CASE WriteWaitingForGateway(f)
  BY <1>8 DEF WriteWaitingForGateway, WriteWaiting
<1>9. CASE OpenWaitInterruption(f)
  BY <1>9 DEF OpenWaitInterruption
<1>10. CASE EndWait(f)
  BY <1>10 DEF EndWait
<1>11. CASE WriteLiveNodeStart(f)
  BY <1>11 DEF WriteLiveNodeStart
<1>12. CASE EndInterruption(f)
  BY <1>12 DEF EndInterruption
<1>13. CASE StopLiveNode(f)
  BY <1>13 DEF StopLiveNode
<1>14. CASE LoseGateway(f)
  BY <1>14 DEF LoseGateway
<1>15. CASE EndLostNode(f)
  BY <1>15 DEF EndLostNode
<1>16. CASE ConnectForStop(f)
  BY <1>16 DEF ConnectForStop
<1>17. CASE ChildCrashes(f)
  BY <1>17 DEF ChildCrashes
<1> QED
  BY <1>1, <1>2, <1>3, <1>4, <1>5, <1>6, <1>7, <1>8, <1>9, <1>10, <1>11, <1>12, <1>13, <1>14, <1>15, <1>16, <1>17
  DEF ChildStep

\* CrashInv is inductive.
LEMMA StepCrashInv == TypeOK /\ CrashInv /\ [Next]_vars => CrashInv'
<1> SUFFICES ASSUME TypeOK, CrashInv, [Next]_vars
             PROVE  CrashInv'
  OBVIOUS
<1> USE ConstantsAssumption
    DEF TypeOK, CrashInv, RunsUnderCrashLimit, StopStepsAreAskedFor, UnderCrashLimit,
        ActiveStatuses, At, IsNextRow, OnlyIbkr, rowVars, memoryVars, loopVars, processVars
<1>1. CASE UNCHANGED vars \/ GatewayReturns \/ DayEnds \/ GatewayStops
  BY <1>1 DEF vars, GatewayReturns, DayEnds, GatewayStops
<1>2. CASE SelectRowsToCompare \/ WorkerRestarts
  BY <1>2 DEF SelectRowsToCompare, WorkerRestarts
<1>3. ASSUME NEW f \in ForwardTests, WebStep(f)
      PROVE  CrashInv'
  BY <1>3 DEF WebStep, StartForwardTest, StopForwardTest, EndTimeComes
<1>4. ASSUME NEW f \in ForwardTests, StrategyStep(f) \/ IbkrStep(f)
      PROVE  CrashInv'
  BY <1>4 DEF StrategyStep, IbkrStep, SendOrder, SaveNewFill, OrderFills, EndHold, OrderExpires
<1>5. ASSUME NEW f \in ForwardTests, RowFails(f)
      PROVE  CrashInv'
  BY <1>5 DEF RowFails, LeaveRow
<1>6. ASSUME NEW f \in ForwardTests, RequestRestart(f)
      PROVE  CrashInv'
  BY <1>6 DEF RequestRestart, SendStop, Alive, StartSteps, StopSteps
<1> QED
  BY <1>1, <1>2, <1>3, <1>4, <1>5, <1>6, CompareStepCrashInv, ChildStepCrashInv
  DEF Next, WorkerStep, FaultStep

\* The crash invariant holds in every state of the specification.
THEOREM CrashInvariant == Spec => []CrashInv
<1>1. Init => TypeOK /\ CrashInv
  BY InitTypeOK, InitCrashInv
<1>2. TypeOK /\ CrashInv /\ [Next]_vars => (TypeOK /\ CrashInv)'
  BY StepTypeOK, StepCrashInv
<1> QED  BY <1>1, <1>2, PTL DEF Spec

\* Only write_crash changes a crash count.
LEMMA OnlyWriteCrashCounts ==
    ASSUME [Next]_vars
    PROVE  crashCount' = crashCount \/ \E g \in ForwardTests : WriteCrash(g)
<1> USE DEF rowVars, OnlyStatus, OnlyInterruption, OnlyProcess, OnlyIbkr
<1>1. ASSUME NEW g \in ForwardTests, CompareStep(g), ~WriteCrash(g)
      PROVE  crashCount' = crashCount
  BY <1>1 DEF CompareStep, StartCancelOrdersChild, StartWorkerRestartInterruption, StartRunChild,
     WriteRunning, RequestStop, WriteStopping, KeepRow, RecordRestart, RecordStopped,
     RecordStopFailed, RecordPaperCheckFailed, RecordGatewayUnreachable,
     OpenGatewayInterruption, RecordCrash, WriteEnd
<1>2. ASSUME NEW g \in ForwardTests, ChildStep(g)
      PROVE  crashCount' = crashCount
  BY <1>2 DEF ChildStep, BootChild, ConnectAndCheckAccount, CancelOwnOrder,
     AllOwnOrdersCancelled, SaveFills, FindHeldFill, RequestFails, WriteWaitingForGateway,
     OpenWaitInterruption, EndWait, WriteLiveNodeStart, EndInterruption, StopLiveNode,
     LoseGateway, EndLostNode, ConnectForStop
<1>3. ASSUME NEW g \in ForwardTests, WebStep(g) \/ StrategyStep(g) \/ IbkrStep(g)
      PROVE  crashCount' = crashCount
  BY <1>3 DEF WebStep, StartForwardTest, StopForwardTest, EndTimeComes, StrategyStep, SendOrder,
     SaveNewFill, IbkrStep, OrderFills, EndHold, OrderExpires
<1>4. CASE FaultStep
  BY <1>4 DEF FaultStep, RowFails, RequestRestart, ChildCrashes, WorkerRestarts, GatewayStops
<1>5. CASE SelectRowsToCompare \/ GatewayReturns \/ DayEnds \/ UNCHANGED vars
  BY <1>5 DEF SelectRowsToCompare, GatewayReturns, DayEnds, vars
<1> QED  BY <1>1, <1>2, <1>3, <1>4, <1>5 DEF Next, WorkerStep

\* A forward test at the crash limit gets no run child again (12.7).
THEOREM CrashLimitIsKept == Spec => CrashLimitHolds
<1>1. ASSUME TypeOK, CrashInv, [Next]_vars
      PROVE  \A f \in ForwardTests :
                crashCount[f] >= CrashLimit => ~(child'[f] = "boot" /\ mode'[f] = "run")
  <2> SUFFICES ASSUME NEW f \in ForwardTests, child'[f] = "boot", mode'[f] = "run"
               PROVE  UnderCrashLimit(f)
    BY <1>1, ConstantsAssumption DEF UnderCrashLimit, TypeOK
  <2>1. (TypeOK /\ CrashInv)'
    BY <1>1, StepTypeOK, StepCrashInv
  <2>2. UnderCrashLimit(f)'
    BY <2>1 DEF CrashInv, RunsUnderCrashLimit
  <2>3. ASSUME NEW g \in ForwardTests, WriteCrash(g), crashCount'[f] # crashCount[f]
        PROVE  child'[f] # "boot"
    <3>1. g = f
      BY <1>1, <2>3 DEF WriteCrash, TypeOK
    <3>2. child[f] = "exit_1"
      BY <1>1, <2>3, <3>1 DEF WriteCrash, CrashInv, StopStepsAreAskedFor
    <3> QED  BY <1>1, <2>3, <3>2 DEF WriteCrash, EndIsRecorded, TypeOK, processVars
  <2>4. crashCount'[f] = crashCount[f] \/ child'[f] # "boot"
    BY <1>1, <2>3, OnlyWriteCrashCounts
  <2> QED  BY <2>2, <2>4 DEF UnderCrashLimit
<1> QED  BY <1>1, TypeCorrect, CrashInvariant, PTL DEF Spec, CrashLimitHolds

-----------------------------------------------------------------------------
(* One crash is one crash, while no answer of the database is lost. *)

\* What CrashesCountedOnce rests on. A run child that ended and is not forgotten is not counted yet, so there is room
\* below "ends" for its count; and only a run child is counted. CrashInv keeps the count of a run child below the limit
\* except for one that crashed; while no answer is lost, that one is below the limit too.
CountInv ==
    \A f \in ForwardTests :
        /\ ends[f] \in 0..CrashLimit
        /\ crashCount[f] <= ends[f]
        /\ mode[f] = "run" => UnderCrashLimit(f)
        /\ mode[f] = "run" /\ child[f] \in ExitCodes => crashCount[f] < ends[f]
        /\ At(f, "write_crash") => mode[f] = "run"

\* At the start, nothing crashed.
LEMMA CrashInitCountInv == CrashInit => CountInv
BY ConstantsAssumption DEF CrashInit, Init, CountInv, UnderCrashLimit, At, ExitCodes

\* A run child that the memory of the worker did not have is one that starts now.
LEMMA NewRunChildBoots ==
    ASSUME TypeOK, [Next]_vars, NEW f \in ForwardTests, mode'[f] = "run", mode[f] # "run"
    PROVE  child'[f] = "boot"
<1> USE DEF TypeOK, memoryVars, OnlyStatus, OnlyInterruption, OnlyProcess, OnlyIbkr
<1>1. ASSUME NEW g \in ForwardTests, CompareStep(g)
      PROVE  child'[f] = "boot"
  <2>1. CASE StartRunChild(g) \/ StartCancelOrdersChild(g)
    BY <2>1 DEF StartRunChild, StartCancelOrdersChild, StartRunningChild
  <2>2. CASE StartWorkerRestartInterruption(g) \/ WriteRunning(g) \/ RequestStop(g) \/ WriteStopping(g) \/ KeepRow(g)
    BY <2>2 DEF StartWorkerRestartInterruption, WriteRunning, RequestStop, WriteStopping, KeepRow
  <2>3. CASE RecordRestart(g) \/ RecordStopped(g) \/ RecordStopFailed(g) \/ RecordPaperCheckFailed(g)
    BY <2>3 DEF RecordRestart, RecordStopped, RecordStopFailed, RecordPaperCheckFailed, EndIsRecorded
  <2>4. CASE RecordGatewayUnreachable(g) \/ OpenGatewayInterruption(g) \/ RecordCrash(g) \/ WriteCrash(g)
    BY <2>4 DEF RecordGatewayUnreachable, OpenGatewayInterruption, RecordCrash, WriteCrash, EndIsRecorded
  <2> QED
    BY <1>1, <2>1, <2>2, <2>3, <2>4 DEF CompareStep
<1>2. ASSUME NEW g \in ForwardTests, ChildStep(g)
      PROVE  FALSE
  BY <1>2 DEF ChildStep, BootChild, ConnectAndCheckAccount, CancelOwnOrder, AllOwnOrdersCancelled, SaveFills,
     FindHeldFill, RequestFails, WriteWaitingForGateway, OpenWaitInterruption, EndWait, WriteLiveNodeStart,
     EndInterruption, StopLiveNode, LoseGateway, EndLostNode, ConnectForStop
<1>3. ASSUME NEW g \in ForwardTests, WebStep(g) \/ StrategyStep(g) \/ IbkrStep(g)
      PROVE  FALSE
  BY <1>3 DEF WebStep, StartForwardTest, StopForwardTest, EndTimeComes, StrategyStep, SendOrder,
     SaveNewFill, IbkrStep, OrderFills, EndHold, OrderExpires
<1>4. CASE FaultStep
  BY <1>4 DEF FaultStep, RowFails, RequestRestart, ChildCrashes, WorkerRestarts, GatewayStops
<1>5. CASE SelectRowsToCompare \/ GatewayReturns \/ DayEnds \/ UNCHANGED vars
  BY <1>5 DEF SelectRowsToCompare, GatewayReturns, DayEnds, vars
<1> QED
  BY <1>1, <1>2, <1>3, <1>4, <1>5 DEF Next, WorkerStep

\* Only a run child is counted: the step before write_crash is the one that found its crash.
LEMMA OnlyRunChildIsCounted ==
    ASSUME TypeOK, CrashInv, CountInv, [Next]_vars
    PROVE  \A f \in ForwardTests : At(f, "write_crash")' => mode'[f] = "run"
<1> USE DEF TypeOK, CrashInv, StopStepsAreAskedFor, CountInv, At, IsNextRow, GoTo, LeaveRow, memoryVars, loopVars,
            OnlyStatus, OnlyInterruption, OnlyProcess, OnlyIbkr
<1>1. ASSUME NEW g \in ForwardTests, CompareStep(g)
      PROVE  \A f \in ForwardTests : At(f, "write_crash")' => mode'[f] = "run"
  <2>1. CASE StartRunChild(g) \/ StartCancelOrdersChild(g)
    BY <2>1 DEF StartRunChild, StartCancelOrdersChild, StartRunningChild
  <2>2. CASE StartWorkerRestartInterruption(g) \/ WriteRunning(g) \/ RequestStop(g) \/ WriteStopping(g) \/ KeepRow(g)
    BY <2>2 DEF StartWorkerRestartInterruption, WriteRunning, RequestStop, WriteStopping, KeepRow
  <2>3. CASE RecordRestart(g) \/ RecordStopped(g) \/ RecordStopFailed(g) \/ RecordPaperCheckFailed(g)
    <3>1. LeaveRow(g)
      BY <2>3 DEF RecordRestart, RecordStopped, RecordStopFailed, RecordPaperCheckFailed, EndIsRecorded
    <3> QED
      BY <3>1
  <2>4. CASE RecordGatewayUnreachable(g) \/ OpenGatewayInterruption(g) \/ WriteCrash(g)
    <3>1. LeaveRow(g) \/ step' = "open_gateway_interruption"
      BY <2>4 DEF RecordGatewayUnreachable, OpenGatewayInterruption, WriteCrash, EndIsRecorded
    <3> QED
      BY <3>1
  <2>5. CASE RecordCrash(g)
    <3>1. mode[g] = "run" /\ UNCHANGED <<mode, todo>>
      BY <2>5 DEF RecordCrash, IsCrash, IsStop
    <3>2. \A f \in ForwardTests : At(f, "write_crash")' => f = g
      BY <2>5, <3>1, ConstantsAssumption DEF RecordCrash
    <3> QED
      BY <3>1, <3>2
  <2> QED
    BY <1>1, <2>1, <2>2, <2>3, <2>4, <2>5 DEF CompareStep
<1>2. ASSUME NEW g \in ForwardTests, ChildStep(g)
      PROVE  UNCHANGED <<mode, step, todo>>
  BY <1>2 DEF ChildStep, BootChild, ConnectAndCheckAccount, CancelOwnOrder, AllOwnOrdersCancelled, SaveFills,
     FindHeldFill, RequestFails, WriteWaitingForGateway, OpenWaitInterruption, EndWait, WriteLiveNodeStart,
     EndInterruption, StopLiveNode, LoseGateway, EndLostNode, ConnectForStop
<1>3. ASSUME NEW g \in ForwardTests, WebStep(g) \/ StrategyStep(g) \/ IbkrStep(g)
      PROVE  UNCHANGED <<mode, step, todo>>
  BY <1>3 DEF WebStep, StartForwardTest, StopForwardTest, EndTimeComes, StrategyStep, SendOrder,
     SaveNewFill, IbkrStep, OrderFills, EndHold, OrderExpires
<1>4. CASE FaultStep
  BY <1>4 DEF FaultStep, RowFails, RequestRestart, ChildCrashes, WorkerRestarts, GatewayStops
<1>5. CASE SelectRowsToCompare \/ GatewayReturns \/ DayEnds \/ UNCHANGED vars
  BY <1>5 DEF SelectRowsToCompare, GatewayReturns, DayEnds, vars
<1> QED
  BY <1>1, <1>2, <1>3, <1>4, <1>5 DEF Next, WorkerStep

\* write_crash counts one crash of the child at the row, and forgets the child when no answer is lost.
LEMMA CountOfOneCrash ==
    ASSUME "lost_answer" \notin RareEvents, TypeOK, [Next]_vars, NEW f \in ForwardTests
    PROVE  \/ crashCount'[f] = crashCount[f]
           \/ /\ At(f, "write_crash")
              /\ crashCount'[f] \in {1, crashCount[f] + 1}
              /\ mode'[f] = "none"
<1>1. ASSUME NEW g \in ForwardTests, WriteCrash(g)
      PROVE  \/ crashCount'[f] = crashCount[f]
             \/ /\ At(f, "write_crash")
                /\ crashCount'[f] \in {1, crashCount[f] + 1}
                /\ mode'[f] = "none"
  BY <1>1 DEF WriteCrash, EndIsRecorded, TypeOK
<1> QED
  BY <1>1, OnlyWriteCrashCounts

\* CountInv is inductive.
LEMMA StepCountInv ==
    ASSUME "lost_answer" \notin RareEvents, TypeOK, CrashInv, CountInv, [CrashNext]_crashVars
    PROVE  CountInv'
<1>1. [Next]_vars
  BY DEF CrashNext, crashVars
<1>2. (TypeOK /\ CrashInv)'
  BY <1>1, StepTypeOK, StepCrashInv
<1>3. SUFFICES ASSUME NEW f \in ForwardTests
      PROVE  /\ ends'[f] \in 0..CrashLimit
             /\ crashCount'[f] <= ends'[f]
             /\ mode'[f] = "run" => UnderCrashLimit(f)'
             /\ mode'[f] = "run" /\ child'[f] \in ExitCodes => crashCount'[f] < ends'[f]
  BY <1>1, OnlyRunChildIsCounted DEF CountInv
<1>4. /\ ends'[f] \in 0..CrashLimit
      /\ ends'[f] >= ends[f]
      /\ RunChildEnds(f) /\ ends[f] < CrashLimit => ends'[f] = ends[f] + 1
  BY ConstantsAssumption DEF CountInv, CrashNext, crashVars, CountEnds, RunChildEnds, vars, memoryVars, processVars
<1>5. CASE crashCount'[f] # crashCount[f]
  <2>1. mode[f] = "run" /\ child[f] \in ExitCodes /\ mode'[f] = "none" /\ crashCount'[f] \in {1, crashCount[f] + 1}
    BY <1>1, <1>5, CountOfOneCrash DEF CountInv, CrashInv, StopStepsAreAskedFor, ExitCodes
  <2> QED
    BY <1>4, <2>1, ConstantsAssumption DEF CountInv, TypeOK
<1>6. CASE crashCount'[f] = crashCount[f]
  <2>1. mode'[f] = "run" => UnderCrashLimit(f)'
    BY <1>1, <1>2, <1>6, NewRunChildBoots DEF CountInv, UnderCrashLimit, CrashInv, RunsUnderCrashLimit
  <2>2. ASSUME mode'[f] = "run", child'[f] \in ExitCodes
        PROVE  crashCount'[f] < ends'[f]
    <3>1. mode[f] = "run"
      BY <1>1, <2>2, NewRunChildBoots DEF ExitCodes
    <3>2. CASE child[f] \in ExitCodes
      BY <1>4, <1>6, <3>1, <3>2, ConstantsAssumption DEF CountInv, TypeOK
    <3>3. CASE child[f] \notin ExitCodes
      BY <1>4, <1>6, <2>2, <3>1, <3>3, ConstantsAssumption DEF CountInv, TypeOK, RunChildEnds, UnderCrashLimit
    <3> QED
      BY <3>2, <3>3
  <2> QED
    BY <1>4, <1>6, <2>1, <2>2, ConstantsAssumption DEF CountInv, TypeOK
<1> QED
  BY <1>5, <1>6

\* The crash count is never more than the number of run children that ended (12.7), while no answer of the database is
\* lost: a child whose end the worker records is a child that it then forgets.
THEOREM CrashesAreCountedOnce ==
    ASSUME "lost_answer" \notin RareEvents
    PROVE  CrashSpec => []CrashesCountedOnce
<1>1. CrashInit => TypeOK /\ CrashInv /\ CountInv
  BY InitTypeOK, InitCrashInv, CrashInitCountInv DEF CrashInit
<1>2. TypeOK /\ CrashInv /\ CountInv /\ [CrashNext]_crashVars => (TypeOK /\ CrashInv /\ CountInv)'
  <2>1. [CrashNext]_crashVars => [Next]_vars
    BY DEF CrashNext, crashVars
  <2> QED
    BY <2>1, StepTypeOK, StepCrashInv, StepCountInv
<1>3. CountInv => CrashesCountedOnce
  BY DEF CountInv, CrashesCountedOnce
<1> QED
  BY <1>1, <1>2, <1>3, PTL DEF CrashSpec
=============================================================================
