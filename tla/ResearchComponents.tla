------------------------- MODULE ResearchComponents --------------------------
(***************************************************************************)
(* The components of research: the queue of backtests, the orders of one   *)
(* engine run, the strategies of the rule builder while they trade, the    *)
(* saved strategies, the saved screens and the custom indicators, the      *)
(* exchange rates of a backtest start, and the AI assistant: the runs of a *)
(* conversation, the credentials that the runs share, and the backtests    *)
(* that the tools of a run start.                                          *)
(*                                                                         *)
(* A behavior runs one of them, `part`, as in MarketComponents.            *)
(***************************************************************************)
EXTENDS Integers, Sequences, FiniteSets

CONSTANTS
    MaxBacktests, Universes, Limits, MaxStops,                          \* Backtests
    Instruments, Opens, StartCash, MaxOrders,                           \* NextOpenOrders
    Members, HoldCount, MaxBarTime, MaxBars,                            \* UniverseStrategy, RulesStrategy
    Saves, Codes, MaxStrategies, MaxVersions, MaxPrompts,               \* Strategies
    Changes, Runs, Definitions, ScreenContents, MaxRows, MaxNames,   \* SavedScreens
    Conversations,                                                      \* SavedScreens, Strategies
    WebStarts, AssistantStarts, Late,                                   \* ExchangeRates
    Sockets, MaxRuns,                                                   \* AssistantRuns
    Users, Dialogs, MaxCredentials, MaxTokens, MaxLoginPrompts, MaxRestarts,    \* AssistantCredentials
    Calls, MaxToolBacktests, Polls                                      \* AssistantTools

ASSUME ResearchAssumption ==
    /\ Universes \subseteq {"single", "recorded", "screen"}
    /\ Limits \subseteq 1 .. 16
    /\ Opens \in [Instruments -> SUBSET Nat]
    /\ {MaxBacktests, MaxStops, StartCash, MaxOrders, MaxStrategies, MaxVersions, MaxPrompts, MaxRows, MaxNames,
        MaxRuns, MaxCredentials, MaxTokens, MaxLoginPrompts, MaxRestarts, MaxToolBacktests, Polls, Late} \subseteq Nat
    /\ Members \subseteq Nat /\ IsFiniteSet(Members) /\ HoldCount \in Nat
    /\ Sockets # {} /\ IsFiniteSet(Calls)
    /\ 0 \notin Saves \cup {MaxVersions, MaxPrompts}

VARIABLES
    part,
    status, universe, members, results, sweep, linking, linked, limit, web, running_count, task, child, tx, lost, stops,
    clock, cash, shares, waiting, closing, sent, orders,
    memory, positions, open_orders, time, had_bar, retries, old_sells,
    previous_values, bars_in_position, order_is_lost, last_retry, position, order, bar, started, is_warm, valued,
        sent_rules,
    strategies, created, versions, used, conversation, prompts, save, locked, collisions,
    screens, indicators, made, screen_results, chats, change, run, locked_rows,
    now, published, connected, rates, ranges, fillLock, at, request, asked_times, missing,
    row, title, title_state, file, messages, socket, is_running, owner, assistant_web, service, active, aborted, stopping,
        delete, waits, missed, crashed,
    entries, deleted, valid, outdated, reused, modify, refreshing, login, login_prompts, asked, answers, gone, restarts,
    budget, call, seen, polls, result, backtest, shown, stopped

queue == <<status, universe, members, results, sweep, linking, linked, limit, web, running_count, task, child, tx, lost,
           stops>>
engine == <<clock, cash, shares, waiting, closing, sent, orders>>
universe_strategy == <<memory, positions, open_orders, time, had_bar, retries, old_sells>>
rules_strategy == <<previous_values, bars_in_position, order_is_lost, last_retry, position, order, bar, started, is_warm,
                    valued, sent_rules>>
traders == <<universe_strategy, rules_strategy>>
versioning == <<strategies, created, versions, used, conversation, prompts, save, locked, collisions>>
saved == <<screens, indicators, made, screen_results, chats, change, run, locked_rows>>
exchange_rates == <<now, published, connected, rates, ranges, fillLock, at, request, asked_times, missing>>
runs == <<row, title, title_state, file, messages, socket, is_running, owner, assistant_web, service, active, aborted,
          stopping, delete, waits, missed, crashed>>
credentials == <<entries, deleted, valid, outdated, reused, modify, refreshing, login, login_prompts, asked, answers, gone,
                 restarts>>
tools == <<budget, call, seen, polls, result, backtest, shown, stopped>>
research == <<queue, engine, traders, versioning, saved, exchange_rates>>
assistant == <<runs, credentials, tools>>
vars == <<part, research, assistant>>

Queue == INSTANCE Backtests
Engine == INSTANCE NextOpenOrders
Universe == INSTANCE UniverseStrategy WITH orders <- open_orders
Rules == INSTANCE RulesStrategy WITH sent <- sent_rules
Versions == INSTANCE Strategies
Saved == INSTANCE SavedScreens WITH results <- screen_results, locked <- locked_rows
Screens == INSTANCE SavedScreens WITH results <- screen_results, locked <- locked_rows, Definitions <- ScreenContents
Rates == INSTANCE ExchangeRates WITH asked <- asked_times
Conversation == INSTANCE AssistantRuns WITH sent <- messages, web <- assistant_web
Vault == INSTANCE AssistantCredentials WITH prompts <- login_prompts, MaxPrompts <- MaxLoginPrompts
Tools == INSTANCE AssistantTools WITH MaxBacktests <- MaxToolBacktests

Parts ==
    {"queue", "engine", "universe", "rules", "versions", "screens", "indicators", "rates", "runs", "credentials", "tools"}

InitOf(parts) ==
    /\ part \in parts
    /\ Queue!Init /\ Engine!Init /\ Universe!Init /\ Rules!Init /\ Versions!Init /\ Saved!Init /\ Rates!Init
    /\ Conversation!Init /\ Vault!Init /\ Tools!Init
    /\ part # "queue" => universe = (CHOOSE kind \in Universes : TRUE) /\ limit = (CHOOSE n \in Limits : TRUE)
    /\ part # "rates" => connected

Init == InitOf(Parts)

ResearchStep ==
    \/ part = "queue" /\ Queue!Next /\ UNCHANGED <<engine, traders, versioning, saved, exchange_rates>>
    \/ part = "engine" /\ Engine!Next /\ UNCHANGED <<queue, traders, versioning, saved, exchange_rates>>
    \/ part = "universe" /\ Universe!Next
       /\ UNCHANGED <<queue, engine, rules_strategy, versioning, saved, exchange_rates>>
    \/ part = "rules" /\ Rules!Next
       /\ UNCHANGED <<queue, engine, universe_strategy, versioning, saved, exchange_rates>>
    \/ part = "versions" /\ Versions!Next /\ UNCHANGED <<queue, engine, traders, saved, exchange_rates>>
    \/ part = "screens" /\ Screens!ScreenStep /\ UNCHANGED <<queue, engine, traders, versioning, exchange_rates>>
    \/ part = "indicators" /\ Saved!IndicatorStep
       /\ UNCHANGED <<queue, engine, traders, versioning, exchange_rates>>
    \/ part = "rates" /\ Rates!Next /\ UNCHANGED <<queue, engine, traders, versioning, saved>>

AssistantStep ==
    \/ part = "runs" /\ Conversation!Next /\ UNCHANGED <<credentials, tools>>
    \/ part = "credentials" /\ Vault!Next /\ UNCHANGED <<runs, tools>>
    \/ part = "tools" /\ Tools!Next /\ UNCHANGED <<runs, credentials>>

Next ==
    \/ ResearchStep /\ UNCHANGED <<part, assistant>>
    \/ AssistantStep /\ UNCHANGED <<part, research>>

\* The fairness of Backtests and of the assistant modules, each while it is the one that runs.
Fairness ==
    /\ WF_queue(part = "queue" /\ Queue!StartWeb)
    /\ WF_queue(part = "queue" /\ Queue!StartNextQueued)
    /\ \A b \in Queue!Backtests :
        /\ WF_queue(part = "queue" /\ Queue!RunnerStep(b))
        /\ WF_queue(part = "queue" /\ (Queue!Commit(b) \/ Queue!RollBack(b)))
        /\ WF_queue(part = "queue" /\ Queue!StopAfterWebProcess(b))
    /\ \A s \in Sockets : WF_runs(part = "runs" /\ Conversation!StopActiveRun(s))
    /\ \A r \in Conversation!MessageRuns :
        /\ WF_runs(part = "runs" /\ Conversation!WebStep(r))
        /\ WF_runs(part = "runs" /\ Conversation!ServiceStep(r))
        /\ WF_runs(part = "runs" /\ stopping /\ Conversation!EndPrompt(r))

Spec == Init /\ [][Next]_vars /\ Fairness

-----------------------------------------------------------------------------
\* Backtests: a result is whole or not there, a running row has a runner that ends it, and a linked backtest exists.
QueueInv == part = "queue" => Queue!TypeOK /\ Queue!ResultsAreWhole /\ Queue!RunningHasRunner /\ Queue!LinkedBacktestExists
\* Backtests: a final status stays until the row is deleted, whichever process wrote it.
FinalStatusStays == Queue!FinalStatusStays
\* Backtests: every queued backtest ends.
QueuedEnds == Queue!QueuedEnds

\* NextOpenOrders: the cash pays for every fill, no share is sold two times, and no held order misses its open.
OrdersInv == part = "engine" => Engine!FillsAreCovered /\ Engine!NoOrderMissesItsOpen

\* ExchangeRates: each amount of an accepted backtest has one rate, of a day that ended before it.
BacktestsAreConverted == part = "rates" => Rates!AcceptedIsConverted

\* Strategies and SavedScreens: versions are a history without gaps, also when two ports save at one time; names are
\* unique and references exist, whatever is deleted in the middle of a save or a run.
SavedWorkInv ==
    /\ part = "versions" => Versions!StrategiesTypeOK /\ Versions!VersionsAreAHistory
    /\ part \in {"screens", "indicators"} => Saved!ScreensTypeOK /\ Saved!RowsAreConsistent

\* UniverseStrategy and RulesStrategy: a universe holds at most its targets and forgets none, no lost order repeats on
\* each bar, and a cross compares a bar with the live bar before it.
TradersInv ==
    /\ part = "universe" => Universe!UniverseIsHeld
    /\ part = "rules" => Rules!RulesAreTraded

\* SavedScreens and AssistantRuns: a kept custom indicator changes only by the user; the title that the user gave a
\* conversation stays, and a title is generated at most once.
ChoicesOfUserStay == Saved!KeptIndicatorStays /\ Conversation!TitleOfUserStays

\* One run of a conversation at a time works on its file. No refresh token is sent two times, a deleted credential does
\* not return, and each prompt of a login waits for one answer. One user message starts at most its budget of backtests.
AssistantInv ==
    /\ part = "runs" => Conversation!AssistantTypeOK /\ Conversation!OneRunWrites
    /\ part = "credentials" =>
        Vault!CredentialTypeOK /\ Vault!TokensAreUsedOnce /\ Vault!PromptsWaitForTheirLogin
    /\ part = "tools" => Tools!ToolTypeOK /\ Tools!BudgetHolds

\* AssistantRuns: the file is deleted only when no run can write it again.
FileIsDeletedAtRest == Conversation!FileIsDeletedAtRest
\* AssistantRuns: the run of a browser that left ends, and no title stays "generating".
NothingStaysBehind == Conversation!NothingStaysBehind
=============================================================================
