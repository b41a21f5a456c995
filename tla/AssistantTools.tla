--------------------------- MODULE AssistantTools ---------------------------
(***************************************************************************)
(* The backtests that the AI assistant starts for one user message. pi     *)
(* (external) runs the tool calls of one model turn in parallel; each call *)
(* of run_backtest counts in the budget of the message, starts a backtest  *)
(* on port 8001 of Web, and reads its status until it ends, at most for 15 *)
(* minutes. The user can stop the run, and Web can restart, at any time.   *)
(*                                                                         *)
(* The backtest itself goes on whatever the call does (module Backtests).  *)
(***************************************************************************)
EXTENDS Integers, FiniteSets

CONSTANTS
    Calls,          \* the tool calls of run_backtest
    MaxBacktests,   \* MAX_BACKTESTS_PER_USER_MESSAGE: 5 in the code
    Polls           \* the reads of a status in 15 minutes: 450 in the code

VARIABLES
    budget,         \* UserMessageBudget.startedBacktests
    call,           \* per call: "none", "posting", "waiting", "reading" (the result) or "ended"
    seen,           \* per call: the status that the call read last, or "none"
    polls,          \* per call: its reads
    result,         \* per call: "none", "error", "still_running" or "finished"
    backtest,       \* per call: the status of the backtest that it started, or "none"
    shown,          \* per call: the statuses of its tool_step events
    stopped         \* the run has an abort signal

toolVars == <<budget, call, seen, polls, result, backtest, shown, stopped>>

Final == {"finished", "failed", "timed_out"}
Statuses == {"queued", "running"} \cup Final

ToolTypeOK ==
    /\ budget \in 0 .. Cardinality(Calls)
    /\ call \in [Calls -> {"none", "posting", "waiting", "reading", "ended"}]
    /\ seen \in [Calls -> Statuses \cup {"none"}]
    /\ polls \in [Calls -> 0 .. Polls]
    /\ result \in [Calls -> {"none", "error", "still_running", "finished"}]
    /\ backtest \in [Calls -> Statuses \cup {"none"}]
    /\ shown \in [Calls -> SUBSET Statuses]

Init ==
    /\ budget = 0
    /\ call = [t \in Calls |-> "none"]
    /\ seen = [t \in Calls |-> "none"]
    /\ polls = [t \in Calls |-> 0]
    /\ result = [t \in Calls |-> "none"]
    /\ backtest = [t \in Calls |-> "none"]
    /\ shown = [t \in Calls |-> {}]
    /\ stopped = FALSE

EndCall(t, r) ==
    /\ call' = [call EXCEPT ![t] = "ended"]
    /\ result' = [result EXCEPT ![t] = r]

-----------------------------------------------------------------------------
\* A call above the budget starts no backtest. Another call counts before its POST.
RunBacktest(t) ==
    /\ call[t] = "none" /\ ~stopped
    /\ IF budget >= MaxBacktests
       THEN EndCall(t, "error") /\ UNCHANGED budget
       ELSE /\ call' = [call EXCEPT ![t] = "posting"]
            /\ budget' = budget + 1
            /\ UNCHANGED result
    /\ UNCHANGED <<seen, polls, backtest, shown, stopped>>

PostStarts(t) ==
    /\ call[t] = "posting" /\ ~stopped
    /\ backtest' = [backtest EXCEPT ![t] = "queued"]
    /\ seen' = [seen EXCEPT ![t] = "queued"]
    /\ shown' = [shown EXCEPT ![t] = @ \cup {"queued"}]
    /\ call' = [call EXCEPT ![t] = "waiting"]
    /\ UNCHANGED <<budget, polls, result, stopped>>

\* A refusal, an abort, or a connection that ends: the count goes back, also when Web started the backtest.
PostFails(t) ==
    /\ call[t] = "posting"
    /\ budget' = budget - 1
    /\ \E status \in {"none", "queued"} : backtest' = [backtest EXCEPT ![t] = status]
    /\ EndCall(t, "error")
    /\ UNCHANGED <<seen, polls, shown, stopped>>

Deadline(t) == polls[t] >= Polls

\* waitForEnd: a read of the status. A new status is shown. `polls` stays at its limit.
Poll(t) ==
    /\ call[t] = "waiting" /\ ~stopped
    /\ seen[t] \notin Final /\ ~Deadline(t)
    /\ polls' = [polls EXCEPT ![t] = IF @ < Polls THEN @ + 1 ELSE @]
    /\ seen' = [seen EXCEPT ![t] = backtest[t]]
    /\ shown' = [shown EXCEPT ![t] = @ \cup {backtest[t]}]
    /\ call' = [call EXCEPT ![t] = IF backtest[t] \in Final THEN "reading" ELSE "waiting"]
    /\ UNCHANGED <<budget, result, backtest, stopped>>

\* The deadline, an abort, or a Web that does not answer ends the wait, not the backtest.
GiveUp(t) ==
    /\ call[t] \in {"waiting", "reading"}
    /\ EndCall(t, "still_running")
    /\ UNCHANGED <<budget, seen, polls, backtest, shown, stopped>>

\* Web answers a read with an error: a backtest that a user deleted.
ReadIsRefused(t) ==
    /\ call[t] \in {"waiting", "reading"}
    /\ EndCall(t, "error")
    /\ UNCHANGED <<budget, seen, polls, backtest, shown, stopped>>

ReadResult(t) ==
    /\ call[t] = "reading" /\ ~stopped
    /\ EndCall(t, "finished")
    /\ UNCHANGED <<budget, seen, polls, backtest, shown, stopped>>

Stop ==
    /\ ~stopped
    /\ stopped' = TRUE
    /\ UNCHANGED <<budget, call, seen, polls, result, backtest, shown>>

\* External: the queue of the backtests.
BacktestMoves(t) ==
    /\ \/ backtest[t] = "queued" /\ backtest' = [backtest EXCEPT ![t] = "running"]
       \/ backtest[t] = "running" /\ \E status \in Final : backtest' = [backtest EXCEPT ![t] = status]
    /\ UNCHANGED <<budget, call, seen, polls, result, shown, stopped>>

CallStep(t) == PostStarts(t) \/ PostFails(t) \/ Poll(t) \/ ReadResult(t) \/ ((stopped \/ Deadline(t)) /\ GiveUp(t))

Next ==
    \/ Stop
    \/ \E t \in Calls : RunBacktest(t) \/ CallStep(t) \/ GiveUp(t) \/ ReadIsRefused(t) \/ BacktestMoves(t)

\* Each request of a call ends. A backtest can wait in the queue for ever.
Spec == Init /\ [][Next]_toolVars /\ \A t \in Calls : WF_toolVars(CallStep(t))

-----------------------------------------------------------------------------
\* One user message starts at most MAX_BACKTESTS_PER_USER_MESSAGE backtests, however the calls of one turn overlap.
\* Only a backtest whose start had no answer comes on top: its call counts as not started. And a result with the
\* metrics is one of a backtest that ended.
BudgetHolds ==
    /\ Cardinality({t \in Calls : backtest[t] # "none" /\ seen[t] # "none"}) <= MaxBacktests
    /\ budget = Cardinality({t \in Calls : call[t] = "posting" \/ seen[t] # "none"})
    /\ \A t \in Calls : result[t] = "finished" => backtest[t] \in Final
=============================================================================
