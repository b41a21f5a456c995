--------------------------- MODULE AssistantRuns ----------------------------
(***************************************************************************)
(* One conversation with the AI assistant: the browser sockets that send   *)
(* user messages, the Web process that forwards them, the assistant        *)
(* service that runs them one at a time and writes the JSONL file, the     *)
(* title that Web generates once, and the delete of the conversation.      *)
(*                                                                         *)
(* A run is one user message. Its request, an abort and a delete are       *)
(* requests of their own from Web to the service, so they can pass each    *)
(* other. The model provider (external) answers or never ends.             *)
(***************************************************************************)
EXTENDS Integers, FiniteSets

CONSTANTS
    Sockets,        \* browser sockets of the conversation
    MaxRuns         \* bound: the user messages

MessageRuns == 1 .. MaxRuns
None == 0

VARIABLES
    row, title, title_state,    \* assistant_conversation
    file,           \* the JSONL file exists
    sent,           \* the user messages so far
    socket,         \* per socket: "open", "leaving" (stop_active_run follows) or "closed"
    is_running,     \* the sockets with is_running
    owner,          \* the socket of each run
    web,            \* per run: the step of ConversationSocket.run; "answered": streaming, with has_answer
    service,        \* per run: its step in the assistant service
    active,         \* activeRuns: the run of the conversation, or None
    aborted,        \* abortedRuns has the conversation
    stopping,       \* session.abort was called
    delete,         \* the step of a delete of the conversation
    waits,          \* the run that the delete waits for
    missed,         \* runs whose request the service read after an abort of the browser that left
    crashed         \* Web ended during a title generation

rows == <<row, title, title_state>>
page == <<sent, socket, is_running, owner, web, missed, crashed>>
run == <<service, active, aborted, stopping>>
deletion == <<delete, waits>>
assistant == <<rows, file, page, run, deletion>>

HasSession == active # None /\ service[active] = "prompting"

FlagsOK == {row, file, crashed, aborted, stopping} \subseteq BOOLEAN

AssistantTypeOK ==
    /\ FlagsOK
    /\ title \in {"start", "generated", "of_user"}
    /\ title_state \in {"new", "generating", "generated", "not_generated", "renamed"}
    /\ socket \in [Sockets -> {"open", "leaving", "closed"}]
    /\ is_running \subseteq Sockets
    /\ owner \in [MessageRuns -> Sockets]
    /\ web \in [MessageRuns -> {"none", "preparing", "streaming", "answered", "settled", "title", "ending_title", "ended"}]
    /\ service \in [MessageRuns -> {"none", "sent", "opening", "creating", "prompting", "ended"}]
    /\ active \in MessageRuns \cup {None} /\ waits \in MessageRuns \cup {None}
    /\ delete \in {"none", "asked", "aborting", "waiting", "row", "done"}

Init ==
    /\ row = TRUE /\ title = "start" /\ title_state = "new"
    /\ file = FALSE
    /\ sent = 0
    /\ socket = [s \in Sockets |-> "open"]
    /\ is_running = {}
    /\ owner \in {[r \in MessageRuns |-> CHOOSE s \in Sockets : TRUE]}
    /\ web = [r \in MessageRuns |-> "none"]
    /\ missed = {} /\ crashed = FALSE
    /\ service = [r \in MessageRuns |-> "none"]
    /\ active = None /\ aborted = FALSE /\ stopping = FALSE
    /\ delete = "none" /\ waits = None

-----------------------------------------------------------------------------
(* Web: one socket of the conversation.                                    *)

\* A second prompt of a socket that has a run is refused.
Prompt(s) ==
    /\ socket[s] = "open"
    /\ s \notin is_running
    /\ sent < MaxRuns
    /\ sent' = sent + 1
    /\ owner' = [owner EXCEPT ![sent + 1] = s]
    /\ web' = [web EXCEPT ![sent + 1] = "preparing"]
    /\ is_running' = is_running \cup {s}
    /\ UNCHANGED <<socket, missed, crashed, rows, file, run, deletion>>

\* read_system_prompt: a conversation without its row has no prompt, and the run settles.
SendRun(r) ==
    /\ web[r] = "preparing"
    /\ web' = [web EXCEPT ![r] = IF row THEN "streaming" ELSE "ended"]
    /\ service' = IF row THEN [service EXCEPT ![r] = "sent"] ELSE service
    /\ is_running' = IF row THEN is_running ELSE is_running \ {owner[r]}
    /\ UNCHANGED <<sent, socket, owner, missed, crashed, rows, file, active, aborted, stopping, deletion>>

\* The answer of the service ended.
Settle(r) ==
    /\ web[r] \in {"streaming", "answered"}
    /\ service[r] = "ended"
    /\ web' = [web EXCEPT ![r] = IF @ = "answered" THEN "settled" ELSE "ended"]
    /\ is_running' = is_running \ {owner[r]}
    /\ UNCHANGED <<sent, socket, owner, missed, crashed, rows, file, run, deletion>>

ClaimTitle(r) ==
    /\ web[r] = "settled"
    /\ LET claimed == row /\ title_state = "new"
       IN  /\ web' = [web EXCEPT ![r] = IF claimed THEN "title" ELSE "ended"]
           /\ title_state' = IF claimed THEN "generating" ELSE title_state
    /\ UNCHANGED <<row, title, file, sent, socket, is_running, owner, missed, crashed, run, deletion>>

TitleUnguarded(found) == [title |-> IF found THEN "generated" ELSE title,
                          state |-> IF found THEN "generated" ELSE "not_generated"]

\* end_title_generation: only a conversation that is still generating changes.
TitleAfter(found) ==
    IF row /\ title_state = "generating"
    THEN [title |-> IF found THEN "generated" ELSE title, state |-> IF found THEN "generated" ELSE "not_generated"]
    ELSE [title |-> title, state |-> title_state]

EndTitle(r) ==
    /\ web[r] \in {"title", "ending_title"}
    /\ \E found \in BOOLEAN :
        /\ web[r] = "ending_title" => ~found
        /\ title' = TitleAfter(found).title
        /\ title_state' = TitleAfter(found).state
    /\ web' = [web EXCEPT ![r] = "ended"]
    /\ UNCHANGED <<row, file, sent, socket, is_running, owner, missed, crashed, run, deletion>>

Rename ==
    /\ row
    /\ title' = "of_user" /\ title_state' = "renamed"
    /\ UNCHANGED <<row, file, page, run, deletion>>

\* The tasks of the socket are cancelled. is_running stays for stop_active_run; the end of a title is shielded.
Cancelled(r) == CASE web[r] = "title" -> "ending_title"
                  [] web[r] \in {"none", "ending_title"} -> web[r]
                  [] OTHER -> "ended"

RunningAfterLeaveCleared(s) == is_running \ {s}
RunningAfterLeave(s) == is_running

Leave(s) ==
    /\ socket[s] = "open"
    /\ socket' = [socket EXCEPT ![s] = "leaving"]
    /\ web' = [r \in MessageRuns |-> IF owner[r] = s THEN Cancelled(r) ELSE web[r]]
    /\ is_running' = RunningAfterLeave(s)
    /\ UNCHANGED <<sent, owner, missed, crashed, rows, file, run, deletion>>

\* The Web process ends. A run of the service goes on, and a title generation keeps its state.
WebEnds ==
    /\ ~crashed
    /\ crashed' = TRUE
    /\ web' = [r \in MessageRuns |-> IF web[r] = "none" THEN "none" ELSE "ended"]
    /\ is_running' = {}
    /\ socket' = [s \in Sockets |-> "closed"]
    /\ missed' = 1 .. sent
    /\ UNCHANGED <<sent, owner, rows, file, run, deletion>>

-----------------------------------------------------------------------------
(* The assistant service.                                                  *)

\* Conversations.abort: without a run nothing; before its session the run is marked; else the session aborts.
Abort ==
    /\ stopping' = (stopping \/ HasSession)
    /\ aborted' = (aborted \/ (active # None /\ ~HasSession))

StopRun(s) ==
    /\ socket[s] = "open"
    /\ Abort
    /\ UNCHANGED <<rows, file, page, service, active, deletion>>

InFlight(s) == {r \in MessageRuns : owner[r] = s /\ service[r] = "sent"}

\* stop_active_run; the request can fail. A run request that the service did not read yet misses the abort.
StopActiveRun(s) ==
    /\ socket[s] = "leaving"
    /\ socket' = [socket EXCEPT ![s] = "closed"]
    /\ \/ s \in is_running /\ Abort /\ missed' = missed \cup InFlight(s)
       \/ s \in is_running /\ UNCHANGED <<stopping, aborted>> /\ missed' = missed \cup {r \in MessageRuns : owner[r] = s}
       \/ s \notin is_running /\ UNCHANGED <<stopping, aborted, missed>>
    /\ UNCHANGED <<sent, is_running, owner, web, crashed, rows, file, service, active, deletion>>

\* Conversations.run: one active run for a conversation.
ReceiveRun(r) ==
    /\ service[r] = "sent"
    /\ active' = IF active = None THEN r ELSE active
    /\ service' = [service EXCEPT ![r] = IF active = None THEN "opening" ELSE "ended"]
    /\ UNCHANGED <<aborted, stopping, rows, file, page, deletion>>

\* The end of a run, and of a delete that waits for it: nothing runs between the two.
EndRun(r) ==
    /\ service' = [service EXCEPT ![r] = "ended"]
    /\ active' = None /\ aborted' = FALSE /\ stopping' = FALSE
    /\ LET deletes == delete = "waiting" /\ waits = r
       IN  /\ file' = (file /\ ~deletes)
           /\ delete' = IF deletes THEN "row" ELSE delete
           /\ waits' = IF deletes THEN None ELSE waits

\* openModel can fail. A marked run ends.
OpenModel(r) ==
    /\ service[r] = "opening"
    /\ \/ EndRun(r)
       \/ /\ ~aborted
          /\ service' = [service EXCEPT ![r] = "creating"]
          /\ UNCHANGED <<active, aborted, stopping, file, deletion>>
    /\ UNCHANGED <<rows, page>>

\* createAssistantSession; the run entry is the first line of the run in the file.
CreateSession(r) ==
    /\ service[r] = "creating"
    /\ \/ EndRun(r)
       \/ /\ ~aborted
          /\ service' = [service EXCEPT ![r] = "prompting"]
          /\ file' = TRUE
          /\ UNCHANGED <<active, aborted, stopping, deletion>>
    /\ UNCHANGED <<rows, page>>

\* A message_end event. Web saves the last model with it.
Answer(r) ==
    /\ service[r] = "prompting"
    /\ web[r] = "streaming"
    /\ web' = [web EXCEPT ![r] = "answered"]
    /\ UNCHANGED <<sent, socket, is_running, owner, missed, crashed, rows, file, run, deletion>>

\* session.prompt ends, by itself or after an abort.
EndPrompt(r) ==
    /\ service[r] = "prompting"
    /\ EndRun(r)
    /\ UNCHANGED <<rows, page>>

-----------------------------------------------------------------------------
(* The delete of the conversation.                                         *)

\* The instance has one delete.
AskDelete ==
    /\ delete = "none" /\ row /\ ~crashed
    /\ delete' = "asked"
    /\ UNCHANGED <<rows, file, page, run, waits>>

\* Conversations.delete: the abort, then the wait for the run that is active then, then the file.
DeleteAborts ==
    /\ delete = "asked"
    /\ Abort
    /\ delete' = "aborting"
    /\ waits' = IF HasSession THEN active ELSE None
    /\ UNCHANGED <<rows, file, page, service, active>>

WaitsForNone == None
WaitsFor == active

DeleteWaits ==
    /\ delete = "aborting"
    /\ waits # None => service[waits] = "ended"
    /\ waits' = WaitsFor
    /\ delete' = IF WaitsFor = None THEN "row" ELSE "waiting"
    /\ file' = (file /\ WaitsFor # None)
    /\ UNCHANGED <<rows, page, run>>

\* Web deletes the row; or it did not wait so long (503, or it ended), and the row stays.
DeleteRow ==
    /\ delete = "row"
    /\ \E is_deleted \in {FALSE, ~crashed} : row' = (row /\ ~is_deleted)
    /\ delete' = "done"
    /\ UNCHANGED <<title, title_state, file, page, run, waits>>

-----------------------------------------------------------------------------
WebStep(r) == SendRun(r) \/ Settle(r) \/ ClaimTitle(r) \/ EndTitle(r)
ServiceStep(r) == ReceiveRun(r) \/ OpenModel(r) \/ CreateSession(r)

Next ==
    \/ \E s \in Sockets : Prompt(s) \/ StopRun(s) \/ Leave(s) \/ StopActiveRun(s)
    \/ \E r \in MessageRuns : WebStep(r) \/ ServiceStep(r) \/ Answer(r) \/ EndPrompt(r)
    \/ Rename \/ WebEnds
    \/ AskDelete \/ DeleteAborts \/ DeleteWaits \/ DeleteRow

\* The tasks of Web and the service go on, and pi ends a prompt after an abort. A prompt that nobody stops can run for
\* ever.
Fairness ==
    /\ \A s \in Sockets : WF_assistant(StopActiveRun(s))
    /\ \A r \in MessageRuns :
        /\ WF_assistant(WebStep(r))
        /\ WF_assistant(ServiceStep(r))
        /\ WF_assistant(stopping /\ EndPrompt(r))

Spec == Init /\ [][Next]_assistant /\ Fairness

-----------------------------------------------------------------------------
\* Only one run of a conversation works on its file, from its first await on (Conversations.run).
OneRunWrites == Cardinality({r \in MessageRuns : service[r] \in {"opening", "creating", "prompting"}}) <= 1

\* The file of a conversation is deleted only when no run can write it again (Conversations.delete waits for the run).
FileIsDeletedAtRest == [][file /\ ~file' => active' = None]_assistant

\* A rename before or during the generation wins, and the title is generated once at most (25.8.3).
TitleOfUserStays ==
    [][/\ title_state = "renamed" => title' = "of_user" /\ title_state' = "renamed"
       /\ title_state # "new" => title_state' # "new"
       /\ title_state' = "generating" => title_state \in {"new", "generating"}]_assistant

\* A browser that leaves leaves nothing behind: its run ends, when the abort found it, and a title generation does not
\* stay "generating", when Web does not end.
NothingStaysBehind ==
    /\ \A r \in MessageRuns :
        socket[owner[r]] = "closed" /\ service[r] \in {"sent", "opening", "creating", "prompting"}
            ~> service[r] = "ended" \/ r \in missed
    /\ row /\ title_state = "generating" ~> ~row \/ title_state # "generating" \/ crashed
=============================================================================
