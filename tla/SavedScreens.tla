---------------------------- MODULE SavedScreens ----------------------------
(***************************************************************************)
(* The saved screens with their results, and the custom indicators. Both   *)
(* are made by the user (kept) or by the AI assistant in a conversation    *)
(* (not kept until the user keeps them); the AI assistant changes only     *)
(* what it made in its conversation and what is not kept.                  *)
(*                                                                         *)
(* The change of a screen reads its row and updates it later; the change   *)
(* of an indicator locks its row first. A run of a screen computes with a  *)
(* copy of the screen and saves the result at its end. One row of a table  *)
(* has a name: names of the AI assistant have a suffix, in a series.       *)
(***************************************************************************)
EXTENDS Integers, FiniteSets

CONSTANTS
    Changes,        \* requests of port 8001 that change a screen or an indicator
    Runs,           \* runs of a screen
    Definitions,    \* screen definitions, expressions of indicators
    Conversations,
    MaxRows,        \* bound: the rows so far of each table
    MaxNames        \* the names of a series that fit into the maximum length

Ids == 1 .. MaxRows
User == 0
Names == 0 .. MaxNames      \* 0: the name of the user; n: the n-th name of the AI assistant

VARIABLES
    screens, indicators,    \* id -> [name, kept, conversation, content, by]; `by` made the content
    made,                   \* [screens, indicators]: the rows so far
    results,                \* [screen, conversation]; the definition of a result is a copy
    chats,                  \* the conversations that exist
    change,                 \* per request: its step
    run,                    \* per run: "none", or its screen
    locked                  \* the indicators with a row lock

screenVars == <<screens, indicators, made, results, chats, change, run, locked>>

None == [step |-> "none"]
Row(name, by, content) ==
    [name |-> name, kept |-> by = User, conversation |-> by, content |-> content, by |-> by]
NamesOf(table) == {table[i].name : i \in DOMAIN table}
Add(table, id, row) == [i \in DOMAIN table \cup {id} |-> IF i = id THEN row ELSE table[i]]
Remove(table, id) == [i \in DOMAIN table \ {id} |-> table[i]]

ScreensTypeOK ==
    /\ \A table \in {screens, indicators} : DOMAIN table \subseteq Ids
    /\ chats \subseteq Conversations /\ locked \subseteq Ids
    /\ \A r \in Changes : change[r].step \in {"none", "checked"}

Init ==
    /\ screens = [i \in {} |-> User] /\ indicators = [i \in {} |-> User]
    /\ made = [screens |-> 0, indicators |-> 0]
    /\ results = {} /\ chats = Conversations
    /\ change = [r \in Changes |-> None] /\ run = [r \in Runs |-> None]
    /\ locked = {}

-----------------------------------------------------------------------------
(* The screens.                                                            *)

FirstFree(table) == {n \in 1 .. MaxNames : n \notin NamesOf(table) /\ \A m \in 1 .. n - 1 : m \in NamesOf(table)}

\* The user has the name itself; the AI assistant the first free name of its series, as long as it fits.
CreateScreen(by, content) ==
    /\ made.screens < MaxRows
    /\ by # User => by \in chats
    /\ \E name \in IF by = User THEN {0} \ NamesOf(screens) ELSE FirstFree(screens) :
          screens' = Add(screens, made.screens + 1, Row(name, by, content))
    /\ made' = [made EXCEPT !.screens = @ + 1]
    /\ UNCHANGED <<indicators, results, chats, change, run, locked>>

Changed(row, by, name, content) == [row EXCEPT !.name = name, !.content = content, !.by = by]
IsFree(table, id, name) == \A i \in DOMAIN table : table[i].name = name => i = id

\* The user: the last change wins.
ChangeScreen(i, name, content) ==
    /\ i \in DOMAIN screens /\ IsFree(screens, i, name)
    /\ screens' = [screens EXCEPT ![i] = Changed(@, User, name, content)]
    /\ UNCHANGED <<indicators, made, results, chats, change, run, locked>>

\* change_screen_of on port 8001 reads the row: not kept, and of this conversation.
MayChange(row, c) == ~row.kept /\ row.conversation = c

ReadScreen(r, i, c, content) ==
    /\ change[r] = None /\ c \in chats
    /\ i \in DOMAIN screens /\ MayChange(screens[i], c)
    /\ change' = [change EXCEPT ![r] = [step |-> "checked", of |-> "screen", id |-> i, by |-> c, content |-> content]]
    /\ UNCHANGED <<screens, indicators, made, results, chats, run, locked>>

\* The update has no condition but the ID. A name of another screen is refused.
UpdateScreen(r, name) ==
    /\ change[r].step = "checked" /\ change[r].of = "screen"
    /\ LET i == change[r].id
       IN  screens' = IF i \in DOMAIN screens /\ IsFree(screens, i, name)
                      THEN [screens EXCEPT ![i] = Changed(@, change[r].by, name, change[r].content)] ELSE screens
    /\ change' = [change EXCEPT ![r] = None]
    /\ UNCHANGED <<indicators, made, results, chats, run, locked>>

KeepScreen(i) ==
    /\ i \in DOMAIN screens
    /\ screens' = [screens EXCEPT ![i].kept = TRUE]
    /\ UNCHANGED <<indicators, made, results, chats, change, run, locked>>

\* The results cascade.
DeleteScreen(i) ==
    /\ i \in DOMAIN screens
    /\ screens' = Remove(screens, i)
    /\ results' = {x \in results : x.screen # i}
    /\ UNCHANGED <<indicators, made, chats, change, run, locked>>

\* run_screen_of: the run has its own copy of the definition.
StartRun(r, i, by) ==
    /\ run[r] = None
    /\ i \in DOMAIN screens
    /\ by \in chats \cup {User}
    /\ run' = [run EXCEPT ![r] = [step |-> "running", screen |-> i, by |-> by]]
    /\ UNCHANGED <<screens, indicators, made, results, chats, change, locked>>

\* A screen or a conversation that was deleted during the run refuses the result.
SaveResult(r) ==
    /\ run[r] # None
    /\ LET result == [screen |-> run[r].screen, conversation |-> run[r].by]
       IN  results' = IF result.screen \in DOMAIN screens /\ result.conversation \in chats \cup {User}
                      THEN results \cup {result} ELSE results
    /\ run' = [run EXCEPT ![r] = None]
    /\ UNCHANGED <<screens, indicators, made, chats, change, locked>>

-----------------------------------------------------------------------------
(* The custom indicators.                                                  *)

\* create_of: user and AI assistant share the names.
CreateIndicator(by, name, content) ==
    /\ made.indicators < MaxRows
    /\ by # User => by \in chats
    /\ name \notin NamesOf(indicators)
    /\ indicators' = Add(indicators, made.indicators + 1, Row(name, by, content))
    /\ made' = [made EXCEPT !.indicators = @ + 1]
    /\ UNCHANGED <<screens, results, chats, change, run, locked>>

\* The update of the user waits for the row lock.
ChangeIndicator(i, name, content) ==
    /\ i \in DOMAIN indicators \ locked /\ IsFree(indicators, i, name)
    /\ indicators' = [indicators EXCEPT ![i] = Changed(@, User, name, content)]
    /\ UNCHANGED <<screens, made, results, chats, change, run, locked>>

LockedForNone(i) == locked
LockedFor(i) == locked \cup {i}

\* require_change_allowed: SELECT ... FOR UPDATE.
LockIndicator(r, i, c, content) ==
    /\ change[r] = None /\ c \in chats
    /\ i \in DOMAIN indicators \ locked /\ MayChange(indicators[i], c)
    /\ locked' = LockedFor(i)
    /\ change' = [change EXCEPT ![r] = [step |-> "checked", of |-> "indicator", id |-> i, by |-> c, content |-> content]]
    /\ UNCHANGED <<screens, indicators, made, results, chats, run>>

\* The check of the fields and of the name, the update, and the commit; a problem ends the transaction without it.
UpdateIndicator(r, name) ==
    /\ change[r].step = "checked" /\ change[r].of = "indicator"
    /\ LET i == change[r].id
       IN  /\ indicators' = IF i \in DOMAIN indicators /\ IsFree(indicators, i, name)
                            THEN [indicators EXCEPT ![i] = Changed(@, change[r].by, name, change[r].content)]
                            ELSE indicators
           /\ locked' = locked \ {i}
    /\ change' = [change EXCEPT ![r] = None]
    /\ UNCHANGED <<screens, made, results, chats, run>>

KeepIndicator(i) ==
    /\ i \in DOMAIN indicators \ locked
    /\ indicators' = [indicators EXCEPT ![i].kept = TRUE]
    /\ UNCHANGED <<screens, made, results, chats, change, run, locked>>

DeleteIndicator(i) ==
    /\ i \in DOMAIN indicators \ locked
    /\ indicators' = Remove(indicators, i)
    /\ UNCHANGED <<screens, made, results, chats, change, run, locked>>

-----------------------------------------------------------------------------
\* ON DELETE SET NULL. A row of a conversation that is gone stays as it is, and only the user can change it.
DeleteConversation(c) ==
    LET forget(row) == [row EXCEPT !.conversation = IF @ = c THEN User ELSE @]
    IN  /\ c \in chats
        /\ chats' = chats \ {c}
        /\ screens' = [i \in DOMAIN screens |-> forget(screens[i])]
        /\ indicators' = [i \in DOMAIN indicators |-> forget(indicators[i])]
        /\ results' = {forget(x) : x \in results}
        /\ UNCHANGED <<made, change, run, locked>>

\* The steps of a screen and those of an indicator touch no common row but the conversation.
ScreenStep ==
    \/ \E by \in Conversations \cup {User} :
        \/ \E content \in Definitions : CreateScreen(by, content)
        \/ \E r \in Runs, i \in Ids : StartRun(r, i, by)
    \/ \E i \in Ids :
        \/ KeepScreen(i) \/ DeleteScreen(i)
        \/ \E name \in Names, content \in Definitions : ChangeScreen(i, name, content)
        \/ \E r \in Changes, c \in Conversations, content \in Definitions : ReadScreen(r, i, c, content)
    \/ \E r \in Changes, name \in Names : UpdateScreen(r, name)
    \/ \E r \in Runs : SaveResult(r)
    \/ \E c \in Conversations : DeleteConversation(c)

IndicatorStep ==
    \/ \E by \in Conversations \cup {User}, name \in Names, content \in Definitions : CreateIndicator(by, name, content)
    \/ \E i \in Ids :
        \/ KeepIndicator(i) \/ DeleteIndicator(i)
        \/ \E name \in Names, content \in Definitions : ChangeIndicator(i, name, content)
        \/ \E r \in Changes, c \in Conversations, content \in Definitions : LockIndicator(r, i, c, content)
    \/ \E r \in Changes, name \in Names : UpdateIndicator(r, name)
    \/ \E c \in Conversations : DeleteConversation(c)

Next == ScreenStep \/ IndicatorStep

Spec == Init /\ [][Next]_screenVars

-----------------------------------------------------------------------------
\* One row of a table has a name, also when two requests save at one time; a result names a screen that exists, and a
\* row names a conversation that exists.
RowsAreConsistent ==
    /\ \A table \in {screens, indicators} :
        /\ \A i, j \in DOMAIN table : table[i].name = table[j].name => i = j
        /\ \A i \in DOMAIN table : table[i].conversation \in chats \cup {User}
    /\ \A x \in results : x.screen \in DOMAIN screens /\ x.conversation \in chats \cup {User}

KeptStays(table, next) ==
    \A i \in DOMAIN table \cap DOMAIN next :
        table[i].kept => next[i].kept /\ (next[i].by = User \/ next[i] = table[i] \/ next[i].content = table[i].content)

\* A kept custom indicator changes only by the user, also when Keep meets a change of the AI assistant that has read
\* the row before ("a Keep at the same time cannot come before the change").
KeptIndicatorStays == [][KeptStays(indicators, indicators')]_screenVars

\* The same of a screen: "`kept` becomes true, so port 8001 cannot change the screen" (ScreenRoutes.keep_screen).
KeptScreenStays == [][KeptStays(screens, screens')]_screenVars
=============================================================================
