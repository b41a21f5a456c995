--------------------------- MODULE PageFeed_proofs ---------------------------
(***************************************************************************)
(* NoChangeIsLost for any pages, tables and bounds. With the type it is    *)
(* inductive: each step that takes away one reason to read again gives     *)
(* the next one (notification, signal, push, message, read).               *)
(***************************************************************************)
EXTENDS PageFeed, TLAPS

FeedInv == TypeOK /\ NoChangeIsLost

\* The first state: each page reads.
LEMMA FeedInit == Init => FeedInv
BY DEF Init, FeedInv, TypeOK, NoChangeIsLost, NoRows

\* A request for a read keeps the types, and the page is not at rest after it.
LEMMA ReadNowAsks ==
    ASSUME TypeOK, NEW p \in Pages, ReadNow(p)
    PROVE  /\ reader' \in [Pages -> {"idle", "request", "answer"}] /\ again' \in [Pages -> BOOLEAN]
           /\ snapshot' = snapshot /\ shown' = shown /\ failed' = failed
           /\ reader'[p] # "idle" /\ (reader'[p] = "answer" => again'[p])
           /\ \A q \in Pages \ {p} : reader'[q] = reader[q] /\ again'[q] = again[q]
BY DEF ReadNow, TypeOK

\* Each step keeps the types.
LEMMA TypeStep == TypeOK /\ [Next]_vars => TypeOK'
<1> SUFFICES ASSUME TypeOK, [Next]_vars PROVE TypeOK'
    OBVIOUS
<1> USE DEF TypeOK
<1>1. ASSUME NEW t \in Tables, Change(t) PROVE TypeOK'
    BY <1>1 DEF Change, socket_vars, page_vars
<1>2. ASSUME NEW t \in Tables, Receive(t) PROVE TypeOK'
    BY <1>2 DEF Receive, SetSignals, page_vars
<1>3. CASE ConnectionIsLost
    BY <1>3 DEF ConnectionIsLost, Fault, socket_vars, page_vars
<1>4. CASE LossIsSeen
    BY <1>4 DEF LossIsSeen, socket_vars, page_vars
<1>5. CASE Listen
    BY <1>5 DEF Listen, SetSignals, page_vars
<1>6. CASE WebRestarts
    BY <1>6 DEF WebRestarts, LoseSockets, Fault, page_vars
<1>7. ASSUME NEW p \in Pages, OpenSocket(p) PROVE TypeOK'
    BY <1>7, ReadNowAsks DEF OpenSocket
<1>8. ASSUME NEW p \in Pages, CloseSocket(p) PROVE TypeOK'
    BY <1>8 DEF CloseSocket, LoseSockets, Fault, page_vars
<1>9. ASSUME NEW p \in Pages, WakePush(p) PROVE TypeOK'
    BY <1>9 DEF WakePush, page_vars
<1>10. ASSUME NEW p \in Pages, HeartbeatIsDue(p) PROVE TypeOK'
    BY <1>10 DEF HeartbeatIsDue, page_vars
<1>11. ASSUME NEW p \in Pages, SendMessage(p) PROVE TypeOK'
    BY <1>11 DEF SendMessage, page_vars
<1>12. ASSUME NEW p \in Pages, GetChanged(p) PROVE TypeOK'
    BY <1>12, ReadNowAsks DEF GetChanged
<1>13. ASSUME NEW p \in Pages, ReadRows(p) PROVE TypeOK'
    BY <1>13 DEF ReadRows, socket_vars
<1>14. ASSUME NEW p \in Pages, GetAnswer(p) PROVE TypeOK'
    BY <1>14 DEF GetAnswer, ReadEnds, socket_vars
<1>15. ASSUME NEW p \in Pages, ReadFails(p) PROVE TypeOK'
    BY <1>15 DEF ReadFails, ReadEnds, Fault, socket_vars
<1>16. CASE UNCHANGED vars
    BY <1>16 DEF vars, socket_vars, page_vars
<1> QED
    BY <1>1, <1>2, <1>3, <1>4, <1>5, <1>6, <1>7, <1>8, <1>9, <1>10, <1>11, <1>12, <1>13, <1>14, <1>15, <1>16
    DEF Next, PageStep

\* What one page says of its reads.
PageInv(q) ==
    /\ reader[q] = "idle" => IsCurrent(q, shown[q]) \/ failed[q] \/ ReadComes(q)
    /\ reader[q] = "answer" => IsCurrent(q, snapshot[q]) \/ ReadComes(q)

\* Each step of the feed keeps a reason to read, or gives the next one.
LEMMA FeedStep ==
    ASSUME Watched \in [Pages -> SUBSET Tables], FeedInv, NEW q \in Pages,
           \/ \E t \in Tables : Change(t) \/ Receive(t)
           \/ ConnectionIsLost \/ LossIsSeen \/ Listen \/ WebRestarts
    PROVE  PageInv(q)'
<1> USE DEF FeedInv, TypeOK, NoChangeIsLost, PageInv, IsCurrent, ReadComes
<1>1. ASSUME NEW t \in Tables, Change(t) PROVE PageInv(q)'
    BY <1>1 DEF Change, socket_vars, page_vars
<1>2. ASSUME NEW t \in Tables, Receive(t) PROVE PageInv(q)'
    BY <1>2 DEF Receive, SetSignals, page_vars
<1>3. CASE ConnectionIsLost \/ LossIsSeen
    BY <1>3 DEF ConnectionIsLost, LossIsSeen, socket_vars, page_vars
<1>4. CASE Listen
    BY <1>4 DEF Listen, SetSignals, page_vars
<1>5. CASE WebRestarts
    BY <1>5 DEF WebRestarts, LoseSockets, page_vars
<1> QED
    BY <1>1, <1>2, <1>3, <1>4, <1>5

\* So does each step of a socket or of a page.
LEMMA SocketStep ==
    ASSUME Watched \in [Pages -> SUBSET Tables], FeedInv, NEW q \in Pages, NEW p \in Pages,
           \/ OpenSocket(p) \/ CloseSocket(p) \/ WakePush(p) \/ HeartbeatIsDue(p) \/ SendMessage(p)
           \/ PageStep(p) \/ ReadFails(p)
    PROVE  PageInv(q)'
<1> USE DEF FeedInv, TypeOK, NoChangeIsLost, PageInv, IsCurrent, ReadComes
<1>1. CASE OpenSocket(p)
    <2>1. /\ snapshot' = snapshot /\ shown' = shown /\ failed' = failed
          /\ reader'[p] # "idle" /\ (reader'[p] = "answer" => again'[p])
          /\ \A x \in Pages \ {p} : reader'[x] = reader[x] /\ again'[x] = again[x]
        BY <1>1, ReadNowAsks DEF OpenSocket
    <2>2. CASE q = p
        BY <2>1, <2>2
    <2>3. CASE q # p
        BY <1>1, <2>1, <2>3 DEF OpenSocket
    <2> QED
        BY <2>2, <2>3
<1>2. CASE CloseSocket(p)
    BY <1>2 DEF CloseSocket, LoseSockets, page_vars
<1>3. CASE WakePush(p)
    BY <1>3 DEF WakePush, page_vars
<1>4. CASE HeartbeatIsDue(p)
    BY <1>4 DEF HeartbeatIsDue, page_vars
<1>5. CASE SendMessage(p)
    BY <1>5 DEF SendMessage, page_vars
<1>6. CASE GetChanged(p)
    <2>1. /\ snapshot' = snapshot /\ shown' = shown /\ failed' = failed
          /\ reader'[p] # "idle" /\ (reader'[p] = "answer" => again'[p])
          /\ \A x \in Pages \ {p} : reader'[x] = reader[x] /\ again'[x] = again[x]
        BY <1>6, ReadNowAsks DEF GetChanged
    <2>2. CASE q = p
        BY <2>1, <2>2
    <2>3. CASE q # p
        BY <1>6, <2>1, <2>3 DEF GetChanged
    <2> QED
        BY <2>2, <2>3
<1>7. CASE ReadRows(p)
    BY <1>7 DEF ReadRows, socket_vars
<1>8. CASE GetAnswer(p)
    BY <1>8 DEF GetAnswer, ReadEnds, socket_vars
<1>9. CASE ReadFails(p)
    BY <1>9 DEF ReadFails, ReadEnds, socket_vars
<1> QED
    BY <1>1, <1>2, <1>3, <1>4, <1>5, <1>6, <1>7, <1>8, <1>9 DEF PageStep

\* Each step keeps a reason to read.
LEMMA FeedInvStep == ASSUME Watched \in [Pages -> SUBSET Tables], FeedInv, [Next]_vars PROVE FeedInv'
<1>1. CASE UNCHANGED vars
    BY <1>1, TypeStep DEF FeedInv, NoChangeIsLost, IsCurrent, ReadComes, vars, socket_vars, page_vars
<1>2. CASE Next
    <2> SUFFICES ASSUME NEW q \in Pages PROVE PageInv(q)'
        BY TypeStep DEF FeedInv, NoChangeIsLost, PageInv
    <2> QED
        BY <1>2, FeedStep, SocketStep DEF Next
<1> QED
    BY <1>1, <1>2

\* The feed loses no change of a watched table (table_changes.py): a page at rest with old rows has a read before it,
\* in whatever order changes, lost connections, restarts, heartbeats and reads come.
THEOREM NoChangeOfAPageIsLost ==
    ASSUME Watched \in [Pages -> SUBSET Tables]
    PROVE  Spec => []NoChangeIsLost
<1>1. FeedInv /\ [Next]_vars => FeedInv'
    BY FeedInvStep
<1>2. FeedInv => NoChangeIsLost
    BY DEF FeedInv
<1> QED
    BY FeedInit, <1>1, <1>2, PTL DEF Spec
=============================================================================
