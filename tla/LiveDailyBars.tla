---------------------------- MODULE LiveDailyBars ----------------------------
(***************************************************************************)
(* The live daily bars of the watchlist (live_daily_bars.py and            *)
(* watchlist/live_bar_socket.py): each open page follows the watchlist     *)
(* through a listener, and all listeners share one IBKR stream for each    *)
(* instrument. The hub has a limited number of streams; one without a      *)
(* listener ends after a delay, or gives its place to a new instrument.    *)
(* Each action is code between two awaits of the event loop.               *)
(***************************************************************************)
EXTENDS Integers, Sequences, FiniteSets, SequencesExt

CONSTANTS
    Instruments,
    Pages,          \* bound: pages that are open at one time
    MaxStreams,
    MaxChanges      \* bound: changes of the watchlist

NoBar == "no live bar"

VARIABLES
    watchlist,  \* its instruments in their order
    changes,
    notified,   \* pages whose table change event is set
    streams,    \* the streams of the hub: listeners, last bar, release timer, and if the IBKR stream runs
    listeners,  \* the listener of each open page: instruments and changed
    shown       \* what each page shows for an instrument

liveVars == <<watchlist, changes, notified, streams, listeners, shown>>

Lists == {list \in UNION {[1 .. n -> Instruments] : n \in 0 .. Cardinality(Instruments)} : IsInjective(list)}

Init ==
    /\ watchlist \in Lists
    /\ changes = 0 /\ notified = {}
    /\ streams = <<>> /\ listeners = <<>>
    /\ shown = [p \in Pages |-> [i \in Instruments |-> NoBar]]

Open == DOMAIN listeners
Unused(table) == {i \in DOMAIN table : table[i].listeners = {}}

-----------------------------------------------------------------------------
(* LiveDailyBarHub.acquire and release on a table of streams.              *)

NewStream(p) == [listeners |-> {p}, bar |-> NoBar, timer |-> FALSE]
Start(table, i, p) == [j \in DOMAIN table \cup {i} |-> IF j = i THEN NewStream(p) ELSE table[j]]
Without(table, u) == [j \in DOMAIN table \ {u} |-> table[j]]

\* A new stream takes a free place, or the place of the first stream without a listener.
Acquire(table, i, p) ==
    IF i \in DOMAIN table
    THEN {[table EXCEPT ![i].listeners = @ \cup {p}, ![i].timer = FALSE]}
    ELSE IF Cardinality(DOMAIN table) < MaxStreams
    THEN {Start(table, i, p)}
    ELSE {Start(Without(table, u), i, p) : u \in Unused(table)}

Release(s, p) == LET rest == s.listeners \ {p} IN [s EXCEPT !.listeners = rest, !.timer = @ \/ rest = {}]

\* follow: first the releases, then an acquire for each new instrument in the order of the list. An instrument
\* without a free place is not followed.
ReleaseAll(table, gone, p) == [i \in DOMAIN table |-> IF i \in gone THEN Release(table[i], p) ELSE table[i]]
AcquireNext(s, i, p) ==
    LET tables == Acquire(s.table, i, p)
    IN  IF i \in s.followed \/ tables = {} THEN {s}
        ELSE {[table |-> t, followed |-> s.followed \cup {i}] : t \in tables}
FollowResults(p, wanted) ==
    LET kept == listeners[p].instruments \cap ToSet(wanted)
        start == [table |-> ReleaseAll(streams, listeners[p].instruments \ kept, p), followed |-> kept]
        results[n \in 0 .. Len(wanted)] ==
            IF n = 0 THEN {start} ELSE UNION {AcquireNext(s, wanted[n], p) : s \in results[n - 1]}
    IN  results[Len(wanted)]

Follow(p, wanted) ==
    \E result \in FollowResults(p, wanted) :
        LET before == listeners[p].instruments
        IN  /\ streams' = result.table
            /\ listeners' = [listeners EXCEPT ![p].instruments = result.followed,
                    ![p].changed = @ \cup (before \ result.followed) \cup (result.followed \ before)]

-----------------------------------------------------------------------------
(* A page: its socket subscribes to the table changes before the first     *)
(* read of the watchlist.                                                  *)

OpenPage(p) ==
    /\ p \notin Open
    /\ listeners' = [q \in Open \cup {p} |->
                        IF q = p THEN [instruments |-> {}, changed |-> {}] ELSE listeners[q]]
    /\ notified' = notified \cup {p}
    /\ shown' = [shown EXCEPT ![p] = [i \in Instruments |-> NoBar]]
    /\ UNCHANGED <<watchlist, changes, streams>>

FollowWatchlist(p) ==
    /\ p \in Open /\ p \in notified
    /\ notified' = notified \ {p}
    /\ Follow(p, watchlist)
    /\ UNCHANGED <<watchlist, changes, shown>>

\* take_changes and the message to the page.
ReadBar(p, i) == IF i \in listeners[p].instruments /\ i \in DOMAIN streams THEN streams[i].bar ELSE NoBar
SendChanges(p) ==
    /\ p \in Open /\ listeners[p].changed # {}
    /\ shown' = [shown EXCEPT ![p] = [i \in Instruments |->
                    IF i \in listeners[p].changed THEN ReadBar(p, i) ELSE @[i]]]
    /\ listeners' = [listeners EXCEPT ![p].changed = {}]
    /\ UNCHANGED <<watchlist, changes, notified, streams>>

\* The end of `listen`: the listener follows no instrument.
ClosePage(p) ==
    /\ p \in Open
    /\ streams' = ReleaseAll(streams, listeners[p].instruments, p)
    /\ listeners' = [q \in Open \ {p} |-> listeners[q]]
    /\ notified' = notified \ {p}
    /\ shown' = [shown EXCEPT ![p] = [i \in Instruments |-> NoBar]]
    /\ UNCHANGED <<watchlist, changes>>

ChangeWatchlist ==
    /\ changes < MaxChanges
    /\ \E list \in Lists : list # watchlist /\ watchlist' = list
    /\ changes' = changes + 1
    /\ notified' = Open
    /\ UNCHANGED <<streams, listeners, shown>>

-----------------------------------------------------------------------------
(* The streams.                                                            *)

PublishToFirst(i) == IF streams[i].listeners = {} THEN {} ELSE {CHOOSE p \in streams[i].listeners : TRUE}

PublishTo(i) == streams[i].listeners

\* A bar of IBKR, or the end of the IBKR stream: "no live bar" until the retry gives a bar.
Publish(i) ==
    /\ i \in DOMAIN streams
    /\ \E bar \in {NoBar, "bar 1", "bar 2"} :
        /\ bar # streams[i].bar
        /\ streams' = [streams EXCEPT ![i].bar = bar]
    /\ listeners' = [p \in Open |-> IF p \in PublishTo(i)
                                    THEN [listeners[p] EXCEPT !.changed = @ \cup {i}] ELSE listeners[p]]
    /\ UNCHANGED <<watchlist, changes, notified, shown>>

StopStream(i) ==
    /\ i \in DOMAIN streams /\ streams[i].timer
    /\ streams' = Without(streams, i)
    /\ UNCHANGED <<watchlist, changes, notified, listeners, shown>>

Next ==
    \/ \E p \in Pages : OpenPage(p) \/ FollowWatchlist(p) \/ SendChanges(p) \/ ClosePage(p)
    \/ ChangeWatchlist
    \/ \E i \in Instruments : Publish(i) \/ StopStream(i)

Fairness == \A i \in Instruments : WF_liveVars(StopStream(i))
Spec == Init /\ [][Next]_liveVars /\ Fairness

LiveTypeOK ==
    /\ watchlist \in Lists /\ changes \in 0 .. MaxChanges
    /\ notified \subseteq Pages /\ Open \subseteq Pages
    /\ DOMAIN streams \subseteq Instruments
    /\ \A i \in DOMAIN streams : streams[i].listeners \subseteq Open /\ streams[i].timer \in BOOLEAN

\* Each instrument that a page follows has a stream that knows the page and does not wait for its end, a stream in
\* its delay has no page, and the streams keep their limit although all pages share them.
FollowedIsStreamed ==
    /\ Cardinality(DOMAIN streams) <= MaxStreams
    /\ \A p \in Open, i \in Instruments :
        (i \in listeners[p].instruments) <=> (i \in DOMAIN streams /\ p \in streams[i].listeners)
    /\ \A i \in DOMAIN streams : streams[i].timer <=> streams[i].listeners = {}

\* A page never keeps an old bar without a change that waits for it: also across a release, a shared stream, and a
\* stream that stopped for a new instrument.
NoChangeIsMissed ==
    \A p \in Open, i \in Instruments : shown[p][i] = ReadBar(p, i) \/ i \in listeners[p].changed
=============================================================================
