--------------------------- MODULE ForwardTestData ---------------------------
(***************************************************************************)
(* The daily bars and the members of one multi-instrument forward test:    *)
(* the bar fetcher of the worker reads the bars from IBKR and saves them,  *)
(* the universe poller of the child gives the strategy the new bars and    *)
(* the members of each quarter, and the worker starts the child only after *)
(* the warm-up fill.                                                       *)
(*                                                                         *)
(* Day d has one bar, complete when `day` is later. "Saved" is what a bar  *)
(* source saved for a member, from the start of the warm-up on.            *)
(***************************************************************************)
EXTENDS Integers, Sequences, FiniteSets

CONSTANTS
    FirstMembers,       \* the members of the recorded quarter at the start
    NextMembers,        \* the members of the next quarter
    MaxDay,             \* bound: the days
    MaxFailures         \* bound: refused instruments, lost connections and stops of the child

Members == FirstMembers \cup NextMembers
MembersOf(q) == IF q = 1 THEN FirstMembers ELSE NextMembers
Never == 0

VARIABLES
    day,        \* the UTC day: the bars of the earlier days are complete
    quarter,    \* the stored universe quarter
    recorded,   \* the last quarter in forward_test_universe_member
    saved,      \* the days of each member that a bar source saved
    refused,    \* members with a refused or late warm-up, for the properties
    filled,     \* BarFetcher.filled_members of the forward test
    has_fill,   \* is_warm_up_filled: filled_members has the forward test
    read_day,   \* BarFetcher.last_read_day_utc
    child,      \* "stopped", "starting" (its strategy does not run yet) or "running"
    known,      \* UniversePoller.quarter
    first_sent, \* UniversePoller.is_first_update_sent
    waiting,    \* UniversePoller.waiting_members while wait_start_utc is set, or {"none"}
    updates,    \* universe updates that the strategy did not take yet
    next_bar,   \* BarStoreDataClient.next_bar_starts: 0 without a subscription
    from,       \* the first day of each subscription, for the properties
    got,        \* the bars that each subscription gave the strategy, in their order
    failures

fetcher == <<filled, has_fill, read_day>>
poller == <<known, first_sent, waiting, updates>>
feed == <<next_bar, from, got>>
dataVars == <<day, quarter, recorded, saved, refused, fetcher, child, poller, feed, failures>>

NoWait == {"none"}
Complete == 1 .. day - 1
NoFeed ==
    /\ next_bar' = [m \in Members |-> Never] /\ from' = [m \in Members |-> Never]
    /\ got' = [m \in Members |-> <<>>]

Init ==
    /\ day = 2 /\ quarter = 1 /\ recorded = 1
    /\ saved = [m \in Members |-> {}] /\ refused = {}
    /\ filled = {} /\ has_fill = FALSE /\ read_day = Never
    /\ child = "stopped" /\ known = 1 /\ first_sent = FALSE /\ waiting = NoWait /\ updates = <<>>
    /\ next_bar = [m \in Members |-> Never] /\ from = [m \in Members |-> Never]
    /\ got = [m \in Members |-> <<>>]
    /\ failures = 0

MayFail == failures < MaxFailures /\ failures' = failures + 1

-----------------------------------------------------------------------------
(* The bar fetcher.                                                        *)

\* fill_warm_up: IBKR gives the missing complete days of each instrument, or refuses one instrument, which is not saved.
ReadBars(ms, no) == [m \in Members |-> IF m \in ms \ no THEN saved[m] \cup Complete ELSE saved[m]]

FillWarmUp(ms) ==
    \/ saved' = ReadBars(ms, {}) /\ UNCHANGED <<refused, failures>>
    \/ \E m \in ms : MayFail /\ saved' = ReadBars(ms, {m}) /\ refused' = refused \cup {m}

Unfilled == MembersOf(recorded) \ filled

LoseConnectionAsRead ==
    /\ MayFail
    /\ Unfilled # {} \/ ~has_fill \/ read_day # day
    /\ \E done \in SUBSET MembersOf(recorded) : saved' = ReadBars(done, {})
    /\ filled' = filled \cup MembersOf(recorded) /\ has_fill' = TRUE /\ read_day' = day
    /\ UNCHANGED <<day, quarter, recorded, refused, child, poller, feed>>

\* The connection ends in the middle: what is saved stays, and the fetcher records nothing.
LoseConnection ==
    /\ MayFail
    /\ Unfilled # {} \/ ~has_fill \/ read_day # day
    /\ \E done \in SUBSET MembersOf(recorded) : saved' = ReadBars(done, {})
    /\ UNCHANGED <<day, quarter, recorded, refused, fetcher, child, poller, feed>>

RecordFilled(ms) == filled' = filled \cup ms /\ has_fill' = TRUE

FillNewForwardTests ==
    /\ Unfilled # {} \/ ~has_fill
    /\ FillWarmUp(Unfilled) /\ RecordFilled(Unfilled)
    /\ UNCHANGED <<day, quarter, recorded, read_day, child, poller, feed>>

FetchWhenDue ==
    /\ read_day # day
    /\ FillWarmUp(MembersOf(recorded)) /\ RecordFilled(MembersOf(recorded))
    /\ read_day' = day
    /\ UNCHANGED <<day, quarter, recorded, child, poller, feed>>

NextDay ==
    /\ day < MaxDay
    /\ day' = day + 1
    /\ UNCHANGED <<quarter, recorded, saved, refused, fetcher, child, poller, feed, failures>>

\* The quarterly update stores the members of the next quarter.
StoreQuarter ==
    /\ quarter = 1
    /\ quarter' = 2
    /\ UNCHANGED <<day, recorded, saved, refused, fetcher, child, poller, feed, failures>>

-----------------------------------------------------------------------------
(* The child.                                                              *)

StartChild ==
    /\ child = "stopped" /\ has_fill
    /\ child' = "starting"
    /\ recorded' = quarter /\ known' = quarter      \* update_current_quarter in read_universe_node_input
    /\ first_sent' = FALSE /\ waiting' = NoWait /\ updates' = <<>>
    /\ NoFeed
    /\ UNCHANGED <<day, quarter, saved, refused, fetcher, failures>>

StrategyRuns ==
    /\ child = "starting"
    /\ child' = "running"
    /\ UNCHANGED <<day, quarter, recorded, saved, refused, fetcher, poller, feed, failures>>

EndChild ==
    /\ child' = "stopped"
    /\ first_sent' = FALSE /\ waiting' = NoWait /\ updates' = <<>>
    /\ NoFeed
    /\ UNCHANGED <<day, quarter, recorded, known, saved, refused>>

\* The child is interrupted or crashes, or the worker restarts and its fetcher loses its memory.
StopChild ==
    /\ child # "stopped" /\ MayFail
    /\ EndChild
    /\ \/ UNCHANGED fetcher
       \/ filled' = {} /\ has_fill' = FALSE /\ read_day' = Never

\* One poll up to the new daily bars: a new quarter, the update that waits for its warm-up, and the first update.
NewMembers == IF known = quarter THEN {} ELSE MembersOf(quarter) \ MembersOf(known)
StartsWait == known # quarter /\ first_sent

Waiting == IF StartsWait THEN NewMembers ELSE waiting

WarmUpIsSaved(ms) == \A m \in ms : Complete \subseteq saved[m]
Update(kind, new) == [kind |-> kind, members |-> MembersOf(quarter), new |-> new, day |-> day]

PollUniverse ==
    /\ child # "stopped"
    /\ known # quarter \/ waiting # NoWait \/ (~first_sent /\ child = "running")
    /\ recorded' = quarter /\ known' = quarter
    /\ \E late \in BOOLEAN :      \* NEW_MEMBER_WARM_UP_WAIT is over
        LET waits == Waiting # NoWait
            sends == waits /\ (late \/ WarmUpIsSaved(Waiting))
            first == ~first_sent /\ child = "running"
        IN  /\ late => waits /\ ~WarmUpIsSaved(Waiting)
            /\ refused' = IF late THEN refused \cup Waiting ELSE refused
            /\ waiting' = IF sends THEN NoWait ELSE Waiting
            /\ first_sent' = (first_sent \/ first)
            /\ updates' = updates \o (IF sends THEN <<Update("quarter", Waiting)>> ELSE <<>>)
                                  \o (IF first THEN <<Update("first", MembersOf(quarter))>> ELSE <<>>)
    /\ UNCHANGED <<day, quarter, saved, fetcher, child, feed, failures>>

\* The strategy takes an update: it requests the saved bars of its new members and subscribes to their next bars.
TakeUpdate ==
    /\ child = "running" /\ updates # <<>>
    /\ LET members == Head(updates).members
           new(m) == m \in members /\ next_bar[m] = Never
       IN  /\ next_bar' = [m \in Members |-> IF new(m) THEN day ELSE IF m \in members THEN next_bar[m] ELSE Never]
           /\ from' = [m \in Members |-> IF new(m) THEN day ELSE IF m \in members THEN from[m] ELSE Never]
           /\ got' = [m \in Members |-> IF m \in members THEN got[m] ELSE <<>>]
    /\ updates' = Tail(updates)
    /\ UNCHANGED <<day, quarter, recorded, saved, refused, fetcher, child, known, first_sent, waiting, failures>>

\* send_new_bars for one subscription: all saved bars from its next bar on, in time order.
NewDays(m) == {d \in saved[m] : d >= next_bar[m]}
InTimeOrder(days) ==
    [i \in 1 .. Cardinality(days) |-> CHOOSE d \in days : Cardinality({e \in days : e < d}) = i - 1]
NewBars(m) == InTimeOrder(NewDays(m))

NextBarIsLast(m, bars) == IF bars = <<>> THEN next_bar[m] ELSE bars[Len(bars)]

NextBar(m, bars) == IF bars = <<>> THEN next_bar[m] ELSE bars[Len(bars)] + 1

SendNewBars(m) ==
    /\ child # "stopped" /\ next_bar[m] # Never
    /\ LET bars == NewBars(m)
       IN  /\ got' = [got EXCEPT ![m] = @ \o bars]
           /\ next_bar' = [next_bar EXCEPT ![m] = NextBar(m, bars)]
    /\ UNCHANGED <<day, quarter, recorded, saved, refused, fetcher, child, poller, from, failures>>

Next ==
    \/ FillNewForwardTests \/ FetchWhenDue \/ LoseConnection
    \/ NextDay \/ StoreQuarter
    \/ StartChild \/ StrategyRuns \/ StopChild
    \/ PollUniverse \/ TakeUpdate
    \/ \E m \in Members : SendNewBars(m)

\* The worker compares every 2 seconds, the fetcher checks every 5 seconds, and the child polls every 60 seconds.
Fairness ==
    /\ WF_dataVars(FillNewForwardTests) /\ WF_dataVars(FetchWhenDue)
    /\ WF_dataVars(StartChild) /\ WF_dataVars(StrategyRuns)
    /\ WF_dataVars(PollUniverse) /\ WF_dataVars(TakeUpdate)
    /\ \A m \in Members : WF_dataVars(SendNewBars(m))

Spec == Init /\ [][Next]_dataVars /\ Fairness

DataTypeOK ==
    /\ day \in 2 .. MaxDay /\ quarter \in 1 .. 2 /\ recorded \in 1 .. quarter /\ known \in 1 .. recorded
    /\ \A m \in Members : saved[m] \subseteq Complete /\ next_bar[m] \in Never .. day
    /\ child \in {"stopped", "starting", "running"}
    /\ waiting = NoWait \/ waiting \subseteq Members
    /\ Len(updates) <= 2 /\ failures \in 0 .. MaxFailures

\* The strategy gets each bar of a subscription once, in time order and without a gap from its first day on: also when
\* the fetcher saves several days late, when polls come between its saves, and across an update of the universe.
BarsHaveNoGap ==
    \A m \in Members : got[m] = [i \in 1 .. Len(got[m]) |-> from[m] + i - 1]

\* A quarter that starts while the child runs gives the strategy a new member only with its whole warm-up, unless IBKR
\* refused it or the wait for it ended.
NewMembersAreWarm ==
    \A i \in DOMAIN updates :
        LET u == updates[i]
        IN  u.kind = "quarter" => \A m \in u.new \ refused : 1 .. u.day - 1 \subseteq saved[m]

\* A subscription gets the bar of each complete day in the end, also after a read that lost its connection, while it
\* stays and IBKR refuses no bar of its instrument.
EachBarComes ==
    []<>(\A m \in Members, d \in 2 .. MaxDay - 1 :
            from[m] # Never /\ from[m] <= d /\ d < day /\ m \notin refused => \E i \in DOMAIN got[m] : got[m][i] = d)
=============================================================================
