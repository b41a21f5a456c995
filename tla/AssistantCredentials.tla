------------------------ MODULE AssistantCredentials ------------------------
(***************************************************************************)
(* The credentials of the AI assistant: the credential file that all runs  *)
(* of all conversations share, the refresh of an OAuth token through it,   *)
(* and the logins that add a credential.                                   *)
(*                                                                         *)
(* A provider (external) takes a refresh token once: it answers with the   *)
(* next token, and the token before is not valid any more. Tokens are      *)
(* numbers. The file is read and written in one step of the service, which *)
(* has one thread; only a wait for pi lets another step come between.      *)
(***************************************************************************)
EXTENDS Integers, Sequences, FiniteSets

CONSTANTS
    Users,          \* runs that use a credential
    Dialogs,        \* open Credentials dialogs
    MaxCredentials, \* bound: the credentials that logins add
    MaxTokens,      \* bound: the refreshes of a credential
    MaxPrompts,     \* bound: the prompts of all logins
    MaxRestarts     \* bound: the restarts of the assistant service

Credentials == 1 .. MaxCredentials

VARIABLES
    entries,        \* the credential file: credential -> [token, state]
    deleted,        \* credentials that a user deleted
    valid,          \* the token that the provider takes
    outdated,       \* credentials whose next token was lost in a restart
    reused,         \* credentials whose provider got an old token, in spite of the file
    modify,         \* the queue of modify: a sequence of <<user, credential>>
    refreshing,     \* the token that the first of the queue sends to its provider, or none
    login,          \* per dialog: "none", "talking" (pi works) or "waiting" (for an answer)
    prompts,        \* pendingPrompts: [id, dialog]
    asked,          \* the prompts so far
    answers,        \* the answers that each prompt got
    gone,           \* dialogs whose browser left
    restarts

file == <<entries, deleted, valid, outdated, reused>>
calls == <<modify, refreshing>>
vault == <<file, calls, login, prompts, asked, answers, gone, restarts>>

Stored == DOMAIN entries
NotAdded == Credentials \ (Stored \cup deleted)
NoToken == -1

CredentialTypeOK ==
    /\ Stored \subseteq Credentials
    /\ \A c \in Stored : entries[c] \in [token : 0 .. MaxTokens, state : {"ready", "failed"}]
    /\ deleted \subseteq Credentials
    /\ refreshing \in {NoToken} \cup 0 .. MaxTokens
    /\ login \in [Dialogs -> {"none", "talking", "waiting"}]
    /\ prompts \subseteq [id : 1 .. MaxPrompts, dialog : Dialogs]

Init ==
    /\ entries = [c \in {} |-> 0]
    /\ deleted = {} /\ outdated = {} /\ reused = {}
    /\ valid = [c \in Credentials |-> 0]
    /\ modify = <<>> /\ refreshing = NoToken
    /\ login = [d \in Dialogs |-> "none"]
    /\ prompts = {} /\ asked = 0 /\ answers = [p \in 1 .. MaxPrompts |-> 0]
    /\ gone = {} /\ restarts = 0

-----------------------------------------------------------------------------
(* The logins.                                                             *)

\* One login for each dialog.
StartLogin(d) ==
    /\ d \notin gone
    /\ login[d] = "none"
    /\ login' = [login EXCEPT ![d] = "talking"]
    /\ UNCHANGED <<file, calls, prompts, asked, answers, gone, restarts>>

\* pi asks: the prompt waits for the answer of the browser. After the abort, the prompt rejects at once.
Ask(d) ==
    /\ login[d] = "talking"
    /\ asked < MaxPrompts
    /\ asked' = asked + 1
    /\ prompts' = IF d \in gone THEN prompts ELSE prompts \cup {[id |-> asked + 1, dialog |-> d]}
    /\ login' = [login EXCEPT ![d] = IF d \in gone THEN "none" ELSE "waiting"]
    /\ UNCHANGED <<file, calls, answers, gone, restarts>>

\* Any dialog can answer. A prompt that is not pending gets no answer.
AnswerLogin(id) ==
    \E p \in prompts :
        /\ p.id = id
        /\ prompts' = prompts \ {p}
        /\ answers' = [answers EXCEPT ![id] = @ + 1]
        /\ login' = [login EXCEPT ![p.dialog] = "talking"]
        /\ UNCHANGED <<file, calls, asked, gone, restarts>>

\* pi ended the login: the file gets the credential, also of a browser that left during the last step of pi.
AddCredential(d) ==
    /\ login[d] = "talking"
    /\ NotAdded # {}
    /\ LET c == CHOOSE n \in NotAdded : \A m \in NotAdded : n <= m
       IN  entries' = [x \in Stored \cup {c} |-> IF x = c THEN [token |-> 0, state |-> "ready"] ELSE entries[x]]
    /\ login' = [login EXCEPT ![d] = "none"]
    /\ UNCHANGED <<deleted, valid, outdated, reused, calls, prompts, asked, answers, gone, restarts>>

LoginFails(d) ==
    /\ login[d] = "talking"
    /\ login' = [login EXCEPT ![d] = "none"]
    /\ UNCHANGED <<file, calls, prompts, asked, answers, gone, restarts>>

\* The browser leaves: Web closes the request, and its close aborts the login.
LeaveDialog(d) ==
    /\ d \notin gone
    /\ gone' = gone \cup {d}
    /\ prompts' = {p \in prompts : p.dialog # d}
    /\ login' = [login EXCEPT ![d] = IF @ = "waiting" THEN "none" ELSE @]
    /\ UNCHANGED <<file, calls, asked, answers, restarts>>

-----------------------------------------------------------------------------
(* The credential file.                                                    *)

Delete(c) ==
    /\ c \in Stored
    /\ entries' = [x \in Stored \ {c} |-> entries[x]]
    /\ deleted' = deleted \cup {c}
    /\ UNCHANGED <<valid, outdated, reused, calls, login, prompts, asked, answers, gone, restarts>>

\* A run needs a token of its credential: pi calls modify of its SelectedCredentialStore.
Modify(u, c) ==
    /\ c \in Stored
    /\ valid[c] < MaxTokens
    /\ \A i \in DOMAIN modify : modify[i][1] # u
    /\ modify' = Append(modify, <<u, c>>)
    /\ UNCHANGED <<file, refreshing, login, prompts, asked, answers, gone, restarts>>

\* The first of the queue reads the file; pi refreshes a token that expired.
ReadToken ==
    /\ modify # <<>> /\ refreshing = NoToken
    /\ LET c == Head(modify)[2]
       IN  \/ c \in Stored /\ refreshing' = entries[c].token /\ UNCHANGED modify
           \/ modify' = Tail(modify) /\ UNCHANGED refreshing      \* it is deleted, or its token did not expire
    /\ UNCHANGED <<file, login, prompts, asked, answers, gone, restarts>>

WriteTokenAnyway(c, entry) == [x \in Stored \cup {c} |-> IF x = c THEN entry ELSE entries[x]]
WriteToken(c, entry) == IF c \in Stored THEN [entries EXCEPT ![c] = entry] ELSE entries

\* The provider answers with the next token, and the file gets it.
Refresh ==
    /\ refreshing # NoToken
    /\ LET c == Head(modify)[2]
       IN  /\ refreshing = valid[c] /\ valid[c] < MaxTokens
           /\ valid' = [valid EXCEPT ![c] = @ + 1]
           /\ entries' = WriteToken(c, [token |-> valid[c] + 1, state |-> "ready"])
    /\ modify' = Tail(modify) /\ refreshing' = NoToken
    /\ UNCHANGED <<deleted, outdated, reused, login, prompts, asked, answers, gone, restarts>>

\* The provider refuses, or it does not answer: the user must log in again.
RefreshFails ==
    /\ refreshing # NoToken
    /\ LET c == Head(modify)[2]
       IN  /\ entries' = IF c \in Stored THEN [entries EXCEPT ![c].state = "failed"] ELSE entries
           /\ reused' = IF refreshing # valid[c] /\ c \notin outdated THEN reused \cup {c} ELSE reused
    /\ modify' = Tail(modify) /\ refreshing' = NoToken
    /\ UNCHANGED <<deleted, valid, outdated, login, prompts, asked, answers, gone, restarts>>

\* The service ends, also between the answer of a provider and the write of the file. The file is whole: it is renamed.
Restart ==
    /\ restarts < MaxRestarts
    /\ restarts' = restarts + 1
    /\ \/ UNCHANGED <<valid, outdated>>
       \/ /\ refreshing # NoToken
          /\ LET c == Head(modify)[2]
             IN  /\ refreshing = valid[c] /\ valid[c] < MaxTokens
                 /\ valid' = [valid EXCEPT ![c] = @ + 1]
                 /\ outdated' = outdated \cup {c}
    /\ modify' = <<>> /\ refreshing' = NoToken
    /\ login' = [d \in Dialogs |-> "none"] /\ prompts' = {}
    /\ UNCHANGED <<entries, deleted, reused, asked, answers, gone>>

Next ==
    \/ \E d \in Dialogs : StartLogin(d) \/ Ask(d) \/ AddCredential(d) \/ LoginFails(d) \/ LeaveDialog(d)
    \/ \E id \in 1 .. MaxPrompts : AnswerLogin(id)
    \/ \E c \in Credentials : Delete(c)
    \/ \E u \in Users, c \in Credentials : Modify(u, c)
    \/ ReadToken \/ Refresh \/ RefreshFails \/ Restart

Spec == Init /\ [][Next]_vault

-----------------------------------------------------------------------------
\* A deleted credential does not return with a refresh that was running, and a credential that is ready has the token
\* that its provider takes: two runs with one credential never send one refresh token two times (modify is a queue).
\* Only a restart between the answer of the provider and the write of the file loses the token.
TokensAreUsedOnce ==
    /\ Stored \cap deleted = {}
    /\ \A c \in Stored \ outdated : entries[c].state = "ready" => entries[c].token = valid[c]
    /\ reused = {}

\* A prompt waits exactly while its login waits for it, and no prompt gets two answers.
PromptsWaitForTheirLogin ==
    /\ {p.dialog : p \in prompts} = {d \in Dialogs : login[d] = "waiting"}
    /\ \A p, q \in prompts : p.dialog = q.dialog => p = q
    /\ \A id \in DOMAIN answers : answers[id] <= 1 /\ (answers[id] = 1 => \A p \in prompts : p.id # id)
=============================================================================
