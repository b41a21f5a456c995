--------------------------- MODULE Backtests_proofs --------------------------
(***************************************************************************)
(* The queue of backtests for any number of rows, any limits and any       *)
(* number of stops of the Web process.                                     *)
(*                                                                         *)
(* Three processes write one row: the routes, the runner and the child.    *)
(* What makes their order safe is who can hold an open transaction, and    *)
(* when a child can still live: QueueIInv says both.                       *)
(***************************************************************************)
EXTENDS Backtests, FiniteSetTheorems, WellFoundedInduction, TLAPS

\* What ResearchComponents assumes of the constants of this module.
QueueConstants ==
    /\ {MaxBacktests, MaxStops} \subseteq Nat
    /\ Universes \subseteq {"single", "recorded", "screen"}
    /\ Limits \subseteq Nat

\* The steps of a child that lives, and the rows with a task of the runner.
AliveSteps == {"reading", "computing", "saving_result", "saving_failure"}
WithTask == {b \in Backtests : task[b] # "none"}

\* Only a running row has a live child or an open transaction: no row leaves "running" behind a transaction.
WritersAreOfRunning ==
    \A b \in Backtests :
        /\ tx[b] # "none" => status[b] = "running"
        /\ child[b] \in AliveSteps => status[b] = "running"
        /\ task[b] = "spawning" => status[b] = "running" /\ child[b] = "none" /\ tx[b] = "none"
        /\ status[b] \in {"none", "queued"} => task[b] = "none" /\ child[b] = "none"

\* The tasks are those of the Web process, which counts them; a child has a task that watches it.
TasksAreOfWeb ==
    /\ web = "down" => \A b \in Backtests : task[b] = "none"
    /\ web = "up" => \A b \in Backtests : child[b] # "none" => task[b] = "watching"
    /\ web = "up" => \A b \in Backtests : status[b] = "running" => task[b] # "none" \/ b \in lost

\* The runner counts its tasks in a variable.
CountIsRight == running_count = Cardinality(WithTask)

\* The members are there before the result that needs them.
MembersComeFirst ==
    \A b \in Backtests :
        /\ universe = "recorded" /\ status[b] \notin {"none", "deleted"} => b \in members
        /\ universe = "screen" /\ (child[b] \in {"computing", "saving_result", "saving_failure"} \/ tx[b] # "none")
              => b \in members

\* A link is made of a row that was there, and of one that is not deleted.
LinksAreOfRows ==
    /\ \A b \in linking : status[b] # "none"
    /\ LinkedBacktestExists

\* What holds of each row.
RowsInv == WritersAreOfRunning /\ TasksAreOfWeb /\ MembersComeFirst /\ ResultsAreWhole /\ LinksAreOfRows

\* The inductive invariant: QueueInv alone does not say when a child can still write.
QueueIInv ==
    /\ TypeOK
    /\ RowsInv
    /\ CountIsRight

-----------------------------------------------------------------------------
\* The rows are finitely many, so the tasks are, and the queue has an oldest row.
LEMMA TasksAreFinite == ASSUME QueueConstants PROVE IsFiniteSet(WithTask) /\ IsFiniteSet(WithTask')
<1>1. IsFiniteSet(Backtests)
    BY FS_Interval DEF QueueConstants, Backtests
<1> QED
    BY <1>1, FS_Subset DEF WithTask

\* The oldest row of a queue that is not empty is one of its rows.
LEMMA OldestIsQueued ==
    ASSUME QueueConstants, NEW queued \in SUBSET Backtests, queued # {}
    PROVE  Oldest(queued) \in queued
<1>1. queued \in SUBSET Nat
    BY DEF Backtests
<1>2. PICK b \in queued : \A c \in queued : <<c, b>> \notin OpToRel(<, Nat)
    BY <1>1, NatLessThanWellFounded, WFMin
<1>3. \A c \in queued : ~(c < b)
    BY <1>1, <1>2 DEF OpToRel
<1>4. \A c \in queued : b <= c
    BY <1>1, <1>3
<1> QED
    BY <1>2, <1>4 DEF Oldest

\* An empty queue is consistent.
LEMMA QueueInit == ASSUME QueueConstants PROVE Init => QueueIInv
<1> SUFFICES ASSUME Init PROVE QueueIInv
    OBVIOUS
<1>1. TypeOK
    BY DEF Init, TypeOK, Statuses, ChildSteps, Tasks, QueueConstants
<1>2. RowsInv
    BY DEF Init, RowsInv, WritersAreOfRunning, TasksAreOfWeb, MembersComeFirst, ResultsAreWhole, Has,
           LinksAreOfRows, LinkedBacktestExists, AliveSteps
<1>3. WithTask = {}
    BY DEF Init, WithTask
<1> QED
    BY <1>1, <1>2, <1>3, FS_EmptySet DEF QueueIInv, CountIsRight, Init

-----------------------------------------------------------------------------
(* Each step. A final status that stays is what its leaf shows as well.    *)

\* What each step shows: the invariant, and that a final status stays.
FinalStays == \A b \in Backtests : status[b] \in Final => status'[b] \in {status[b], "deleted"}
Kept == TypeOK' /\ RowsInv' /\ FinalStays

\* The rows in the queue, the links and the deletes.
LEMMA RoutesKeep ==
    ASSUME QueueConstants, TypeOK, RowsInv,
           \/ CancelSweep \/ DeleteSweep \/ \E n \in Limits : ChangeLimits(n)
           \/ \E new \in SUBSET Backtests : StartSweep(new)
           \/ \E b \in Backtests : StartBacktest(b) \/ StartSamePeriod(b) \/ LinkSamePeriod(b) \/ DeleteBacktest(b)
    PROVE  Kept
<1> USE DEF Kept, FinalStays, RowsInv, TypeOK, WritersAreOfRunning, TasksAreOfWeb, MembersComeFirst, ResultsAreWhole,
            LinksAreOfRows, LinkedBacktestExists, AliveSteps, Statuses, Final, Has, rows, runner
<1>1. ASSUME NEW new \in SUBSET Backtests, Insert(new), sweep' \subseteq Backtests, linking' \subseteq linking \cup new
      PROVE  Kept
    BY <1>1 DEF Insert, QueueConstants
<1>2. ASSUME NEW b \in Backtests, LinkSamePeriod(b) PROVE Kept
    BY <1>2 DEF LinkSamePeriod
<1>3. CASE CancelSweep
    BY <1>3 DEF CancelSweep
<1>4. ASSUME NEW gone \in SUBSET Backtests, Delete(gone) PROVE Kept
    BY <1>4 DEF Delete, Active, Unlocked
<1>5. ASSUME NEW n \in Limits, ChangeLimits(n) PROVE Kept
    BY <1>5 DEF ChangeLimits
<1> HIDE DEF Kept, FinalStays, RowsInv
<1>6. ASSUME NEW b \in Backtests, StartBacktest(b) \/ StartSamePeriod(b) PROVE Kept
    BY <1>6, <1>1 DEF StartBacktest, StartSamePeriod
<1>7. ASSUME NEW b \in Backtests, DeleteBacktest(b) PROVE Kept
    BY <1>7, <1>4 DEF DeleteBacktest
<1> QED
    BY <1>1, <1>2, <1>3, <1>4, <1>5, <1>6, <1>7 DEF StartSweep, DeleteSweep

\* The Web process and the tasks of its runner.
LEMMA RunnerKeeps ==
    ASSUME QueueConstants, QueueIInv,
           StartWeb \/ StopWeb \/ StartNextQueued \/ LoseStart \/ \E b \in Backtests : RunnerStep(b)
    PROVE  Kept
<1> USE DEF QueueIInv, Kept, FinalStays, RowsInv, TypeOK, WritersAreOfRunning, TasksAreOfWeb, MembersComeFirst,
            ResultsAreWhole, LinksAreOfRows, LinkedBacktestExists, AliveSteps, Statuses, ChildSteps, Tasks, Final, Has,
            Unlocked, rows
<1>1. CASE StartWeb
    BY <1>1 DEF StartWeb
<1>2. CASE StopWeb
    BY <1>2 DEF StopWeb, QueueConstants
<1>3. CASE StartNextQueued
    BY <1>3, OldestIsQueued DEF StartNextQueued
<1>4. CASE LoseStart
    BY <1>4, OldestIsQueued DEF LoseStart, runner
<1>5. ASSUME NEW b \in Backtests, Spawn(b) PROVE Kept
    BY <1>5 DEF Spawn
<1>6. ASSUME NEW b \in Backtests, TimeOut(b) PROVE Kept
    BY <1>6 DEF TimeOut
<1>7. ASSUME NEW b \in Backtests, SeeExit(b) PROVE Kept
    BY <1>7 DEF SeeExit
<1>8. ASSUME NEW b \in Backtests, EndBacktest(b) PROVE Kept
    <2>1. b \in WithTask
        BY <1>8 DEF EndBacktest, WithTask
    <2>2. running_count - 1 \in Nat
        BY <2>1, TasksAreFinite, FS_EmptySet, FS_CardinalityType DEF CountIsRight
    <2> QED
        BY <1>8, <2>2 DEF EndBacktest
<1> QED
    BY <1>1, <1>2, <1>3, <1>4, <1>5, <1>6, <1>7, <1>8 DEF RunnerStep

\* A child process, its transactions, and its end after that of the Web process.
LEMMA ChildKeeps ==
    ASSUME QueueConstants, TypeOK, RowsInv, NEW b \in Backtests,
           ChildStep(b) \/ Commit(b) \/ RollBack(b) \/ StopAfterWebProcess(b)
    PROVE  Kept
<1> USE DEF Kept, FinalStays, RowsInv, TypeOK, WritersAreOfRunning, TasksAreOfWeb, MembersComeFirst, ResultsAreWhole,
            LinksAreOfRows, LinkedBacktestExists, AliveSteps, Statuses, ChildSteps, Final, Has, Unlocked, rows, runner
<1>1. CASE ReadInputs(b)
    BY <1>1 DEF ReadInputs
<1>2. CASE RunStrategy(b)
    BY <1>2 DEF RunStrategy
<1>3. CASE Save(b)
    BY <1>3 DEF Save
<1>4. CASE ChildFails(b)
    BY <1>4 DEF ChildFails
<1>5. CASE Commit(b)
    BY <1>5 DEF Commit, Leaves, QueueConstants
<1>6. CASE RollBack(b)
    BY <1>6 DEF RollBack, Leaves
<1>7. CASE StopAfterWebProcess(b)
    BY <1>7 DEF StopAfterWebProcess
<1> QED
    BY <1>1, <1>2, <1>3, <1>4, <1>5, <1>6, <1>7 DEF ChildStep

\* The runner counts each task when it starts and when it ends, and no other step changes the tasks.
LEMMA CountStep == ASSUME QueueConstants, QueueIInv, [Next]_vars PROVE CountIsRight'
<1> USE DEF CountIsRight
<1>1. CASE StartNextQueued
    <2> DEFINE b == Oldest(Has("queued"))
    <2>1. b \in Backtests /\ status[b] = "queued"
        BY <1>1, OldestIsQueued DEF StartNextQueued, Has
    <2>2. WithTask' = WithTask \cup {b} /\ b \notin WithTask
        BY <1>1, <2>1 DEF StartNextQueued, WithTask, QueueIInv, TypeOK, RowsInv, WritersAreOfRunning
    <2> QED
        BY <1>1, <2>2, TasksAreFinite, FS_AddElement DEF StartNextQueued, QueueIInv
<1>2. ASSUME NEW b \in Backtests, EndBacktest(b) PROVE CountIsRight'
    <2>1. WithTask' = WithTask \ {b} /\ b \in WithTask
        BY <1>2 DEF EndBacktest, WithTask, QueueIInv, TypeOK
    <2> QED
        BY <1>2, <2>1, TasksAreFinite, FS_RemoveElement DEF EndBacktest, QueueIInv
<1>3. CASE StopWeb
    <2>1. WithTask' = {}
        BY <1>3 DEF StopWeb, WithTask
    <2> QED
        BY <1>3, <2>1, FS_EmptySet DEF StopWeb
<1>4. ASSUME NEW b \in Backtests, Spawn(b) \/ TimeOut(b) \/ SeeExit(b) PROVE CountIsRight'
    <2>1. WithTask' = WithTask /\ running_count' = running_count
        BY <1>4 DEF Spawn, TimeOut, SeeExit, WithTask, QueueIInv, TypeOK
    <2> QED
        BY <2>1 DEF QueueIInv
<1>5. CASE UNCHANGED <<task, running_count>>
    BY <1>5 DEF WithTask, QueueIInv
<1> QED
    BY <1>1, <1>2, <1>3, <1>4, <1>5
    DEF Next, vars, rows, runner, RunnerStep, ChildStep, StartWeb, LoseStart, CancelSweep, DeleteSweep, Delete, ChangeLimits,
        StartSweep, Insert, StartBacktest, StartSamePeriod, LinkSamePeriod, DeleteBacktest, ReadInputs, RunStrategy, Save,
        ChildFails, Commit, RollBack, StopAfterWebProcess

\* The invariant is inductive, and no step takes a final status away.
LEMMA QueueStep == ASSUME QueueConstants, QueueIInv, [Next]_vars PROVE QueueIInv' /\ FinalStays
<1>1. Kept
    <2>1. CASE UNCHANGED vars
        BY <2>1 DEF vars, rows, runner, QueueIInv, Kept, FinalStays, RowsInv, TypeOK, WritersAreOfRunning, TasksAreOfWeb,
                    MembersComeFirst, ResultsAreWhole, LinksAreOfRows, LinkedBacktestExists, Has
    <2> QED
        BY <2>1, RoutesKeep, RunnerKeeps, ChildKeeps DEF Next, QueueIInv
<1> QED
    BY <1>1, CountStep DEF Kept, QueueIInv

\* The invariant is stronger than what the queue promises.
LEMMA QueueIInvIsEnough == QueueIInv => TypeOK /\ ResultsAreWhole /\ RunningHasRunner /\ LinkedBacktestExists
BY DEF QueueIInv, RowsInv, TasksAreOfWeb, CountIsRight, WithTask, LinksAreOfRows, RunningHasRunner, Has

-----------------------------------------------------------------------------
\* Whatever the routes, the runner, the children and the stops of the Web process do: a result is whole or not there, a
\* running row of a Web process that is up has a task that ends it, the tasks are counted, and a linked backtest exists.
THEOREM QueueIsConsistent ==
    ASSUME QueueConstants
    PROVE  Spec => [](TypeOK /\ ResultsAreWhole /\ RunningHasRunner /\ LinkedBacktestExists)
BY QueueInit, QueueStep, QueueIInvIsEnough, PTL DEF Spec

\* A final status stays until a user deletes the row, whichever of the three processes wrote it, and whichever of them
\* still runs.
THEOREM FinalStatusIsKept == ASSUME QueueConstants PROVE Spec => FinalStatusStays
<1>1. FinalStays <=> \A b \in Backtests : status[b] \in Final => status'[b] \in {status[b], "deleted"}
    BY DEF FinalStays
<1> QED
    BY <1>1, QueueInit, QueueStep, PTL DEF Spec, FinalStatusStays
=============================================================================
