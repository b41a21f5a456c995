----------------------------- MODULE Backtests -----------------------------
(***************************************************************************)
(* The queue of backtests and parameter sweeps: the routes that add,       *)
(* cancel and delete rows of the backtest table, the runner of the Web     *)
(* process that starts one child process per running backtest, the child   *)
(* that saves its result, and the restart of the Web process.              *)
(*                                                                         *)
(* The table is the queue: a row goes from "queued" to "running" and from  *)
(* there to one final status, which the child or the runner writes.        *)
(*                                                                         *)
(* A request that PostgreSQL does not answer is one that is not taken yet: *)
(* the runner tries it again (retry_until_database_answers).               *)
(***************************************************************************)
EXTENDS Integers, FiniteSets

CONSTANTS
    MaxBacktests,   \* bound: the rows of the backtest table, their IDs in the order of the queue
    Universes,      \* the universe kinds of this instance: "single", "recorded" (a list or a rule) and "screen"
    Limits,         \* the concurrency values that a user sets (1 to 16 in the code)
    MaxStops        \* bound: the stops of the Web process

Backtests == 1 .. MaxBacktests

Final == {"finished", "failed", "timed_out", "cancelled"}
Statuses == Final \cup {"none", "queued", "running", "deleted"}
ChildSteps == {"none", "reading", "computing", "saving_result", "saving_failure", "exited"}
Tasks == {"none", "spawning", "watching", "killed", "exited", "failed"}

VARIABLES
    status,         \* backtest.status
    universe,       \* the universe kind of the backtests of this behavior: each has its own members
    members,        \* the backtests with rows of universe members
    results,        \* the backtests with equity points, trades and metrics
    sweep,          \* the runs of the parameter sweep
    linking,        \* same-period backtests without their row yet: the route inserts it after the backtest
    linked,         \* rows of forward_test_same_period_backtest
    limit,          \* backtest_limits.concurrency
    web,            \* the Web process: "down", or "up" with its runner
    running_count,  \* BacktestRunner.running_count
    task,           \* the step of run_child of each backtest
    child,          \* the step of the child process of each backtest
    tx,             \* the open transaction of a child that has the lock of its row: the status it writes, or "none"
    lost,           \* the backtests whose start had no answer
    stops           \* the stops of the Web process so far

rows == <<status, universe, members, results, sweep, linking, linked, lost>>
runner == <<web, running_count, task, stops>>
vars == <<rows, limit, runner, child, tx>>

Has(s) == {b \in Backtests : status[b] = s}
Active == Has("queued") \cup Has("running")
Unlocked(b) == tx[b] = "none"

TypeOK ==
    /\ status \in [Backtests -> Statuses]
    /\ universe \in Universes
    /\ members \subseteq Backtests
    /\ results \subseteq Backtests
    /\ sweep \subseteq Backtests
    /\ linking \subseteq Backtests
    /\ linked \subseteq Backtests
    /\ limit \in Limits
    /\ web \in {"down", "up"}
    /\ running_count \in Nat
    /\ task \in [Backtests -> Tasks]
    /\ child \in [Backtests -> ChildSteps]
    /\ tx \in [Backtests -> {"none", "finished", "failed"}]
    /\ lost \subseteq Backtests
    /\ stops \in 0 .. MaxStops

Init ==
    /\ status = [b \in Backtests |-> "none"]
    /\ universe \in Universes
    /\ members = {}
    /\ results = {}
    /\ sweep = {}
    /\ linking = {}
    /\ linked = {}
    /\ limit \in Limits
    /\ web = "down"
    /\ running_count = 0
    /\ task = [b \in Backtests |-> "none"]
    /\ child = [b \in Backtests |-> "none"]
    /\ tx = [b \in Backtests |-> "none"]
    /\ lost = {}
    /\ stops = 0

-----------------------------------------------------------------------------
(* The routes. Each is one transaction of the Web process.                 *)

\* One transaction: the queued rows with the next IDs, and the members of a list or rule universe.
Insert(new) ==
    /\ web = "up"
    /\ new # {} /\ Has("none") # {}
    /\ \A b \in new : status[b] = "none" /\ \A c \in Has("none") \ new : b < c
    /\ status' = [b \in Backtests |-> IF b \in new THEN "queued" ELSE status[b]]
    /\ members' = IF universe = "recorded" THEN members \cup new ELSE members
    /\ UNCHANGED <<universe, results, linked, lost, limit, runner, child, tx>>

\* A request that the checks before the queue refuse adds no row.
StartBacktest(b) ==
    /\ Insert({b})
    /\ UNCHANGED <<sweep, linking>>

\* The same-period backtest of a forward test has the recorded members. Its link is a statement of its own. The
\* instance has one at a time.
StartSamePeriod(b) ==
    /\ universe # "screen"
    /\ linking \cup linked = {}
    /\ Insert({b})
    /\ linking' = linking \cup {b}
    /\ UNCHANGED sweep

\* A backtest that a user deleted in the meantime breaks the foreign key: the request fails.
LinkSamePeriod(b) ==
    /\ b \in linking
    /\ linking' = linking \ {b}
    /\ linked' = IF status[b] = "deleted" THEN linked ELSE linked \cup {b}
    /\ UNCHANGED <<status, universe, members, results, sweep, lost, limit, runner, child, tx>>

\* One queued run for each combination of the grid. The instance has one sweep.
StartSweep(runs) ==
    /\ sweep = {}
    /\ Insert(runs)
    /\ sweep' = runs
    /\ UNCHANGED linking

\* A running run continues to its end.
CancelSweep ==
    /\ web = "up"
    /\ sweep # {}
    /\ status' = [b \in Backtests |-> IF b \in sweep /\ status[b] = "queued" THEN "cancelled" ELSE status[b]]
    /\ UNCHANGED <<universe, members, results, sweep, linking, linked, lost, limit, runner, child, tx>>

\* The row locks of the check are held until the delete; the result and member rows cascade.
Delete(gone) ==
    /\ web = "up"
    /\ gone \cap Active = {}
    /\ gone \cap linked = {}
    /\ \A b \in gone : Unlocked(b)
    /\ status' = [b \in Backtests |-> IF b \in gone THEN "deleted" ELSE status[b]]
    /\ results' = results \ gone
    /\ members' = members \ gone
    /\ sweep' = sweep \ gone
    /\ UNCHANGED <<universe, linking, linked, lost, limit, runner, child, tx>>

DeleteBacktest(b) ==
    /\ status[b] \in Final
    /\ b \notin sweep
    /\ Delete({b})

DeleteSweep ==
    /\ sweep # {}
    /\ Delete(sweep)

ChangeLimits(n) ==
    /\ web = "up"
    /\ limit' = n
    /\ UNCHANGED <<rows, runner, child, tx>>

-----------------------------------------------------------------------------
(* The runner.                                                             *)

\* Mutation: the rows that an earlier Web process left running stay.
StartWebAsIs ==
    /\ web = "down"
    /\ \A b \in Backtests : child[b] = "none" /\ Unlocked(b)
    /\ web' = "up"
    /\ lost' = {}
    /\ UNCHANGED <<status, universe, members, results, sweep, linking, linked, limit, running_count, task, stops, child, tx>>

\* The runner starts, and the rows that an earlier Web process left running fail.
\* Assumed, as its comment says: no child of an earlier Web process is still running.
StartWeb ==
    /\ web = "down"
    /\ \A b \in Backtests : child[b] = "none" /\ Unlocked(b)
    /\ web' = "up"
    /\ status' = [b \in Backtests |-> IF status[b] = "running" THEN "failed" ELSE status[b]]
    /\ lost' = {}
    /\ UNCHANGED <<universe, members, results, sweep, linking, linked, limit, running_count, task, stops, child, tx>>

Oldest(queued) == CHOOSE b \in queued : \A c \in queued : b <= c

\* start_queued_backtests. It reads the limits once and starts backtests in a loop: a change of the limits in the
\* meantime is one after the loop, as no other step reads them.
StartNextQueued ==
    /\ web = "up"
    /\ running_count < limit
    /\ Has("queued") # {}
    /\ LET b == Oldest(Has("queued"))
       IN  /\ status' = [status EXCEPT ![b] = "running"]
           /\ task' = [task EXCEPT ![b] = "spawning"]
    /\ running_count' = running_count + 1
    /\ UNCHANGED <<universe, members, results, sweep, linking, linked, lost, limit, web, stops, child, tx>>

\* The database commits the start and the connection ends before the answer: the check starts again without the row.
LoseStart ==
    /\ web = "up"
    /\ running_count < limit
    /\ Has("queued") # {}
    /\ LET b == Oldest(Has("queued"))
       IN  /\ status' = [status EXCEPT ![b] = "running"]
           /\ lost' = lost \cup {b}
    /\ UNCHANGED <<universe, members, results, sweep, linking, linked, limit, runner, child, tx>>

Spawn(b) ==
    /\ task[b] = "spawning"
    /\ \/ /\ task' = [task EXCEPT ![b] = "watching"]
          /\ child' = [child EXCEPT ![b] = "reading"]
       \/ /\ task' = [task EXCEPT ![b] = "failed"]    \* run_child catches the error: fail_backtest
          /\ UNCHANGED child
    /\ UNCHANGED <<rows, limit, web, running_count, stops, tx>>

\* The process group is killed. A statement that the child has sent can still commit.
TimeOut(b) ==
    /\ task[b] = "watching"
    /\ child[b] \notin {"none", "exited"}
    /\ task' = [task EXCEPT ![b] = "killed"]
    /\ child' = [child EXCEPT ![b] = "none"]
    /\ UNCHANGED <<rows, limit, web, running_count, stops, tx>>

SeeExit(b) ==
    /\ task[b] = "watching"
    /\ child[b] = "exited"
    /\ task' = [task EXCEPT ![b] = "exited"]
    /\ child' = [child EXCEPT ![b] = "none"]
    /\ UNCHANGED <<rows, limit, web, running_count, stops, tx>>

\* Mutation: the UPDATE does not ask for the status "running".
EndAnyBacktest(b) ==
    /\ task[b] \in {"killed", "exited", "failed"}
    /\ Unlocked(b)
    /\ status' = [status EXCEPT ![b] = IF task[b] = "killed" THEN "timed_out" ELSE "failed"]
    /\ task' = [task EXCEPT ![b] = "none"]
    /\ running_count' = running_count - 1
    /\ UNCHANGED <<universe, members, results, sweep, linking, linked, lost, limit, web, stops, child, tx>>

\* Mutation: the place of a backtest that timed out stays taken.
EndAndKeepPlace(b) ==
    /\ task[b] \in {"killed", "exited", "failed"}
    /\ Unlocked(b)
    /\ status' = IF status[b] # "running" THEN status
                 ELSE [status EXCEPT ![b] = IF task[b] = "killed" THEN "timed_out" ELSE "failed"]
    /\ task' = [task EXCEPT ![b] = "none"]
    /\ running_count' = IF task[b] = "killed" THEN running_count ELSE running_count - 1
    /\ UNCHANGED <<universe, members, results, sweep, linking, linked, lost, limit, web, stops, child, tx>>

\* The UPDATE waits for the row lock of an open transaction, and finds only a running row.
EndBacktest(b) ==
    /\ task[b] \in {"killed", "exited", "failed"}
    /\ Unlocked(b)
    /\ status' = IF status[b] # "running" THEN status
                 ELSE [status EXCEPT ![b] = IF task[b] = "killed" THEN "timed_out" ELSE "failed"]
    /\ task' = [task EXCEPT ![b] = "none"]
    /\ running_count' = running_count - 1
    /\ UNCHANGED <<universe, members, results, sweep, linking, linked, lost, limit, web, stops, child, tx>>

-----------------------------------------------------------------------------
(* The child process and its transactions.                                 *)

\* The child of a screen universe runs the screen of each period and replaces the member rows.
ReadInputs(b) ==
    /\ child[b] = "reading"
    /\ members' = IF universe = "screen" THEN members \cup {b} ELSE members
    /\ \E next \in {"computing", "saving_failure"} : child' = [child EXCEPT ![b] = next]
    /\ UNCHANGED <<status, universe, results, sweep, linking, linked, lost, limit, runner, tx>>

\* The strategy runs to its end, or it fails with an error that has a message of its own.
RunStrategy(b) ==
    /\ child[b] = "computing"
    /\ \E next \in {"saving_result", "saving_failure"} : child' = [child EXCEPT ![b] = next]
    /\ UNCHANGED <<rows, limit, runner, tx>>

Save(b) ==
    /\ child[b] \in {"saving_result", "saving_failure"}
    /\ Unlocked(b)
    /\ tx' = [tx EXCEPT ![b] = IF child[b] = "saving_result" THEN "finished" ELSE "failed"]
    /\ UNCHANGED <<rows, limit, runner, child>>

Leaves(b) == child' = IF child[b] = "none" THEN child ELSE [child EXCEPT ![b] = "exited"]

\* save_result and save_failure write the status of their row without a condition.
Commit(b) ==
    /\ ~Unlocked(b)
    /\ status' = [status EXCEPT ![b] = tx[b]]
    /\ results' = IF tx[b] = "finished" THEN results \cup {b} ELSE results
    /\ tx' = [tx EXCEPT ![b] = "none"]
    /\ Leaves(b)
    /\ UNCHANGED <<universe, members, sweep, linking, linked, lost, limit, runner>>

RollBack(b) ==
    /\ ~Unlocked(b)
    /\ tx' = [tx EXCEPT ![b] = "none"]
    /\ Leaves(b)
    /\ UNCHANGED <<rows, limit, runner>>

\* Any other error, and a kill by the kernel: the child ends without a result.
ChildFails(b) ==
    /\ child[b] \notin {"none", "exited"}
    /\ child' = [child EXCEPT ![b] = "exited"]
    /\ UNCHANGED <<rows, limit, runner, tx>>

-----------------------------------------------------------------------------
(* The end of the Web process, in any way.                                 *)

StopWeb ==
    /\ web = "up"
    /\ stops < MaxStops
    /\ stops' = stops + 1
    /\ web' = "down"
    /\ task' = [b \in Backtests |-> "none"]
    /\ running_count' = 0
    /\ linking' = {}        \* the request ends between its two statements
    /\ UNCHANGED <<status, universe, members, results, sweep, linked, lost, limit, child, tx>>

\* Its standard input closes: the child kills its process group.
StopAfterWebProcess(b) ==
    /\ web = "down"
    /\ child[b] # "none"
    /\ child' = [child EXCEPT ![b] = "none"]
    /\ UNCHANGED <<rows, limit, runner, tx>>

-----------------------------------------------------------------------------
RunnerStep(b) == Spawn(b) \/ TimeOut(b) \/ SeeExit(b) \/ EndBacktest(b)
ChildStep(b) == ReadInputs(b) \/ RunStrategy(b) \/ Save(b) \/ ChildFails(b)

Next ==
    \/ StartWeb \/ StopWeb \/ StartNextQueued \/ LoseStart
    \/ CancelSweep \/ DeleteSweep
    \/ \E n \in Limits : ChangeLimits(n)
    \/ \E runs \in SUBSET Backtests : StartSweep(runs)
    \/ \E b \in Backtests :
        \/ StartBacktest(b) \/ StartSamePeriod(b) \/ LinkSamePeriod(b)
        \/ DeleteBacktest(b)
        \/ RunnerStep(b)
        \/ ChildStep(b) \/ Commit(b) \/ RollBack(b)
        \/ StopAfterWebProcess(b)

\* The Web process comes back (the restart policy of its container). The runner checks the queue again and again. A
\* child can run for ever: the runner ends it after the timeout. PostgreSQL ends a transaction that it has.
Fairness ==
    /\ WF_vars(StartWeb)
    /\ WF_vars(StartNextQueued)
    /\ \A b \in Backtests :
        /\ WF_vars(RunnerStep(b))
        /\ WF_vars(Commit(b) \/ RollBack(b))
        /\ WF_vars(StopAfterWebProcess(b))

Spec == Init /\ [][Next]_vars /\ Fairness

-----------------------------------------------------------------------------
\* A final status stays until a user deletes the row, whoever wrote it: the child, the runner after a timeout or an
\* exit, the runner after a restart, or a cancelled sweep. (end_backtest and save_result write one row from two
\* processes.)
FinalStatusStays ==
    [][\A b \in Backtests : status[b] \in Final => status'[b] \in {status[b], "deleted"}]_vars

\* A backtest has result rows exactly when it is finished, and a finished backtest of a universe has its members: a
\* kill, a timeout or a failed save leaves no part of a result. (save_result is one transaction.)
ResultsAreWhole ==
    /\ results = Has("finished")
    /\ \A b \in results : universe # "single" => b \in members

\* While the Web process is up, a running row has a task of the runner that ends it (or its start had no answer, the
\* limit that docs/architecture/backtest.md 10.3 names), a child belongs to such a task, and running_count, which the
\* concurrency limits, counts them.
RunningHasRunner ==
    web = "up" =>
        /\ \A b \in Has("running") : task[b] # "none" \/ b \in lost
        /\ \A b \in Backtests : child[b] # "none" => task[b] = "watching"
        /\ running_count = Cardinality({b \in Backtests : task[b] # "none"})

\* A same-period backtest in the list of a forward test exists: a delete does not take it away, before or after it ran.
LinkedBacktestExists == \A b \in linked : status[b] \notin {"none", "deleted"}

\* Every queued backtest ends: it waits for its turn, and a child that hangs is stopped. Only a backtest whose start
\* had no answer stays "running", until the Web process starts again.
QueuedEnds == \A b \in Backtests : status[b] = "queued" ~> (status[b] \in Final \cup {"deleted"} \/ b \in lost)
=============================================================================
