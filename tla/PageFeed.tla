------------------------------ MODULE PageFeed -------------------------------
(***************************************************************************)
(* The table change feed (foundation/table_changes.py, socket_push.py):    *)
(* PostgreSQL notifies the Web process of each change of a watched table,  *)
(* the feed sets the signal of each change socket, the push of the socket  *)
(* sends "changed", and the page reads its data again over HTTP. No part   *)
(* reads on a timer, so a change that one part loses stays unseen.         *)
(*                                                                         *)
(* The browser side (read_on_change.ts: one read at a time, one more read  *)
(* after changes in a read) is external.                                   *)
(***************************************************************************)
EXTENDS Integers

CONSTANTS
    Pages, Tables,
    Watched,        \* the tables of the change socket of each page
    MaxVersion,     \* bound: changes of each table
    MaxFeedFaults   \* bound: lost connections and failed reads

VARIABLES
    version,        \* of the rows of each table
    feed,           \* the LISTEN connection: "listening", "dead" (lost, and not known yet) or "down"
    notifications,  \* tables of the notifications that the feed did not receive yet
    socket,         \* of each page: "open" or "closed"
    signal,         \* the event of its ChangeSignal is set
    push,           \* its push_table_changes: "wait", or the message that it sends
    on_way,         \* a "changed" message is on its way to the page
    reader,         \* the page: "idle", "request" (a read is on its way) or "answer" (the rows are read)
    again,          \* a change came in the read
    snapshot,       \* the versions in the answer
    shown,          \* the versions on the page
    failed,         \* the last read failed
    feed_faults

page_vars == <<reader, again, snapshot, shown, failed>>
socket_vars == <<socket, signal, push, on_way>>
vars == <<version, feed, notifications, socket_vars, page_vars, feed_faults>>

TypeOK ==
    /\ version \in [Tables -> Nat] /\ feed \in {"listening", "dead", "down"} /\ notifications \subseteq Tables
    /\ socket \in [Pages -> {"open", "closed"}] /\ push \in [Pages -> {"wait", "changed", "heartbeat"}]
    /\ signal \in [Pages -> BOOLEAN] /\ on_way \in [Pages -> BOOLEAN]
    /\ reader \in [Pages -> {"idle", "request", "answer"}]
    /\ again \in [Pages -> BOOLEAN] /\ failed \in [Pages -> BOOLEAN]
    /\ snapshot \in [Pages -> [Tables -> Nat]] /\ shown \in [Pages -> [Tables -> Nat]]
    /\ feed_faults \in Nat

NoRows == [t \in Tables |-> 0]
Init ==
    /\ version = [t \in Tables |-> 1] /\ feed = "down" /\ notifications = {}
    /\ socket = [p \in Pages |-> "closed"] /\ push = [p \in Pages |-> "wait"]
    /\ signal = [p \in Pages |-> FALSE] /\ on_way = [p \in Pages |-> FALSE]
    /\ reader = [p \in Pages |-> "request"] /\ again = [p \in Pages |-> FALSE]
    /\ snapshot = [p \in Pages |-> NoRows] /\ shown = [p \in Pages |-> NoRows]
    /\ failed = [p \in Pages |-> FALSE]
    /\ feed_faults = 0

Fault == feed_faults < MaxFeedFaults /\ feed_faults' = feed_faults + 1

-----------------------------------------------------------------------------
(* The feed.                                                               *)

\* A statement of any process changes a table; the trigger notifies the connection that listens.
Change(t) ==
    /\ version[t] < MaxVersion
    /\ version' = [version EXCEPT ![t] = @ + 1]
    /\ notifications' = IF feed = "listening" THEN notifications \cup {t} ELSE notifications
    /\ UNCHANGED <<feed, socket_vars, page_vars, feed_faults>>

ConnectionIsLost ==
    /\ Fault /\ feed = "listening"
    /\ feed' = "dead" /\ notifications' = {}
    /\ UNCHANGED <<version, socket_vars, page_vars>>
LossIsSeen ==
    /\ feed = "dead" /\ feed' = "down"
    /\ UNCHANGED <<version, notifications, socket_vars, page_vars, feed_faults>>

\* receive: the signals of the sockets that are subscribed now.
SetSignals(tables) ==
    signal' = [p \in Pages |-> signal[p] \/ (socket[p] = "open" /\ Watched[p] \cap tables # {})]

\* A new connection: LISTEN, then all signals, because changes can be lost.
Listen ==
    /\ feed = "down" /\ feed' = "listening"
    /\ SetSignals(Tables)
    /\ UNCHANGED <<version, notifications, socket, push, on_way, page_vars, feed_faults>>
Receive(t) ==
    /\ feed = "listening" /\ t \in notifications
    /\ notifications' = notifications \ {t}
    /\ SetSignals({t})
    /\ UNCHANGED <<version, feed, socket, push, on_way, page_vars, feed_faults>>

-----------------------------------------------------------------------------
(* A change socket and its page.                                           *)

\* readNow: a request in a read gives one more read after it.
ReadNow(p) ==
    /\ reader' = [reader EXCEPT ![p] = IF @ = "idle" THEN "request" ELSE @]
    /\ again' = [again EXCEPT ![p] = reader[p] # "idle"]
    /\ UNCHANGED <<snapshot, shown, failed>>

\* The accept and the subscription are one step of the event loop, so they are before each read that the open asks for.
OpenSocket(p) ==
    /\ socket[p] = "closed" /\ socket' = [socket EXCEPT ![p] = "open"]
    /\ ReadNow(p)
    /\ UNCHANGED <<version, feed, notifications, signal, push, on_way, feed_faults>>
LoseSockets(pages) ==
    /\ socket' = [p \in Pages |-> IF p \in pages THEN "closed" ELSE socket[p]]
    /\ signal' = [p \in Pages |-> signal[p] /\ p \notin pages]
    /\ push' = [p \in Pages |-> IF p \in pages THEN "wait" ELSE push[p]]
    /\ on_way' = [p \in Pages |-> on_way[p] /\ p \notin pages]
CloseSocket(p) ==
    /\ Fault /\ socket[p] = "open" /\ LoseSockets({p})
    /\ UNCHANGED <<version, feed, notifications, page_vars>>
WebRestarts ==
    /\ Fault /\ LoseSockets(Pages)
    /\ feed' = "down" /\ notifications' = {}
    /\ UNCHANGED <<version, page_vars>>

\* ChangeSignal.wait: the signal is reset before the message goes out.
WakePush(p) ==
    /\ socket[p] = "open" /\ push[p] = "wait" /\ signal[p]
    /\ signal' = [signal EXCEPT ![p] = FALSE] /\ push' = [push EXCEPT ![p] = "changed"]
    /\ UNCHANGED <<version, feed, notifications, socket, on_way, page_vars, feed_faults>>
\* The wait ends by its timeout, also when a change just set the signal: the signal stays.
HeartbeatIsDue(p) ==
    /\ socket[p] = "open" /\ push[p] = "wait" /\ push' = [push EXCEPT ![p] = "heartbeat"]
    /\ UNCHANGED <<version, feed, notifications, socket, signal, on_way, page_vars, feed_faults>>
SendMessage(p) ==
    /\ push[p] # "wait" /\ push' = [push EXCEPT ![p] = "wait"]
    /\ on_way' = [on_way EXCEPT ![p] = @ \/ push[p] = "changed"]
    /\ UNCHANGED <<version, feed, notifications, socket, signal, page_vars, feed_faults>>

GetChanged(p) ==
    /\ on_way[p] /\ on_way' = [on_way EXCEPT ![p] = FALSE]
    /\ ReadNow(p)
    /\ UNCHANGED <<version, feed, notifications, socket, signal, push, feed_faults>>
ReadRows(p) ==
    /\ reader[p] = "request" /\ reader' = [reader EXCEPT ![p] = "answer"]
    /\ snapshot' = [snapshot EXCEPT ![p] = version]
    /\ UNCHANGED <<version, feed, notifications, socket_vars, again, shown, failed, feed_faults>>
ReadEnds(p) ==
    /\ reader' = [reader EXCEPT ![p] = IF again[p] THEN "request" ELSE "idle"]
    /\ again' = [again EXCEPT ![p] = FALSE]
    /\ UNCHANGED <<version, feed, notifications, socket_vars, snapshot>>
GetAnswer(p) ==
    /\ reader[p] = "answer" /\ ReadEnds(p)
    /\ shown' = [shown EXCEPT ![p] = snapshot[p]] /\ failed' = [failed EXCEPT ![p] = FALSE]
    /\ UNCHANGED feed_faults
ReadFails(p) ==
    /\ Fault /\ reader[p] # "idle" /\ ReadEnds(p)
    /\ failed' = [failed EXCEPT ![p] = TRUE]
    /\ UNCHANGED shown

PageStep(p) == GetChanged(p) \/ ReadRows(p) \/ GetAnswer(p)
Next ==
    \/ \E t \in Tables : Change(t) \/ Receive(t)
    \/ ConnectionIsLost \/ LossIsSeen \/ Listen \/ WebRestarts
    \/ \E p \in Pages :
        \/ OpenSocket(p) \/ CloseSocket(p) \/ WakePush(p) \/ HeartbeatIsDue(p) \/ SendMessage(p)
        \/ PageStep(p) \/ ReadFails(p)

\* The connection of the feed comes back after its delay, the browser opens a lost socket again, and the event loop runs.
\* A heartbeat comes between any two signals, but it does not take their turn for ever.
Fairness ==
    /\ WF_vars(LossIsSeen) /\ WF_vars(Listen) /\ \A t \in Tables : WF_vars(Receive(t))
    /\ \A p \in Pages :
        /\ WF_vars(OpenSocket(p)) /\ SF_vars(WakePush(p)) /\ WF_vars(SendMessage(p))
        /\ WF_vars(GetChanged(p)) /\ WF_vars(ReadRows(p)) /\ WF_vars(GetAnswer(p))

Spec == Init /\ [][Next]_vars /\ Fairness

-----------------------------------------------------------------------------
IsCurrent(p, versions) == \A t \in Watched[p] : versions[t] = version[t]
\* Something on the way makes the page read again.
ReadComes(p) ==
    \/ again[p] \/ on_way[p] \/ push[p] = "changed" \/ signal[p]
    \/ socket[p] = "closed" \/ feed # "listening" \/ Watched[p] \cap notifications # {}

\* A page at rest with old rows, whose last read did not fail, always has a read before it: no order of changes, lost
\* connections, heartbeats and reads loses a change (the docstring of ChangeSignal: "so none is lost").
NoChangeIsLost ==
    \A p \in Pages :
        /\ reader[p] = "idle" => IsCurrent(p, shown[p]) \/ failed[p] \/ ReadComes(p)
        /\ reader[p] = "answer" => IsCurrent(p, snapshot[p]) \/ ReadComes(p)

\* After the last change each page shows it, when its last read did not fail.
PageShowsLastChange == \A p \in Pages : <>[](IsCurrent(p, shown[p]) \/ failed[p])
=============================================================================
