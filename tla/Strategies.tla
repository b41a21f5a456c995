----------------------------- MODULE Strategies ------------------------------
(***************************************************************************)
(* The saved strategies: their versions, which only grow, the save that    *)
(* the user and the AI assistant make from two ports, the discarded mark,  *)
(* the delete that a use of a version refuses, the conversations of a      *)
(* strategy, and the versions of the prompt of the AI assistant.           *)
(*                                                                         *)
(* A request of port 8001 names its conversation; it is read before the    *)
(* code check, which waits for ruff. PostgreSQL (external) holds row locks *)
(* until a commit, refuses a second row of a unique key and a reference to *)
(* a row that is gone, and cascades a delete.                              *)
(***************************************************************************)
EXTENDS Integers, FiniteSets

CONSTANTS
    Saves,              \* the requests that save a version
    Codes,              \* strategy codes; a rule builder code has one of two rule sets
    Conversations,
    MaxStrategies,      \* bound: the strategies so far
    MaxVersions,        \* bound: the versions of a strategy
    MaxPrompts          \* bound: the prompt versions

Ids == 1 .. MaxStrategies
None == 0
Sources == {"user", "rule_builder", "ai_assistant"}

VARIABLES
    strategies,         \* the IDs of the strategies that exist; all have one name
    created,            \* the strategies so far
    versions,           \* rows [strategy, number, code, rules, source, conversation, discarded]
    used,               \* <<strategy, number>>: a backtest, sweep or forward test references the version
    conversation,       \* conversation -> [strategy, prompt]; the domain is the rows
    prompts,            \* the latest prompt version
    save,               \* per request: its step, with its content
    locked,             \* strategy -> the request with its row lock, or None
    collisions          \* saves that the unique key of the version number refused

table == <<strategies, created, versions, used>>
chats == <<conversation, prompts>>
strategyVars == <<table, chats, save, locked, collisions>>

NoSave == [step |-> "none"]
Content == {c \in [code : Codes, rules : {0, 1, 2}, source : Sources, conversation : Conversations \cup {None}] :
               /\ c.rules # 0 <=> c.source = "rule_builder"
               /\ c.conversation # None <=> c.source = "ai_assistant"}
Of(s) == {v \in versions : v.strategy = s}
Numbers(s) == {v.number : v \in Of(s)}
Latest(s) == CHOOSE v \in Of(s) : \A w \in Of(s) : w.number <= v.number

StrategiesTypeOK ==
    /\ strategies \subseteq Ids /\ created \in 0 .. MaxStrategies
    /\ \A v \in versions : v.strategy \in Ids /\ v.number \in 1 .. MaxVersions /\ v.source \in Sources
    /\ used \subseteq Ids \X (1 .. MaxVersions)
    /\ DOMAIN conversation \subseteq Conversations
    /\ prompts \in 0 .. MaxPrompts
    /\ \A r \in Saves : save[r].step \in {"none", "checked", "locked"}

Init ==
    /\ strategies = {} /\ created = 0 /\ versions = {} /\ used = {}
    /\ conversation = [c \in {} |-> None] /\ prompts = 0
    /\ save = [r \in Saves |-> NoSave]
    /\ locked = [s \in Ids |-> None] /\ collisions = 0

-----------------------------------------------------------------------------
Row(s, number, content) ==
    [strategy |-> s, number |-> number, code |-> content.code, rules |-> content.rules, source |-> content.source,
     conversation |-> content.conversation, discarded |-> FALSE]

\* insert_strategy and version 1, in one transaction. A second strategy with the name is refused.
CreateStrategy(content) ==
    /\ content.conversation = None
    /\ strategies = {} /\ created < MaxStrategies
    /\ created' = created + 1
    /\ strategies' = {created + 1}
    /\ versions' = versions \cup {Row(created + 1, 1, content)}
    /\ UNCHANGED <<used, chats, save, locked, collisions>>

\* read_conversation_id, then check_strategy_code: a code with problems saves nothing.
CheckCode(r, s, content) ==
    /\ save[r] = NoSave
    /\ s \in 1 .. created
    /\ content.conversation # None => content.conversation \in DOMAIN conversation
    /\ save' = [save EXCEPT ![r] = [step |-> "checked", strategy |-> s, content |-> content]]
    /\ UNCHANGED <<table, chats, locked, collisions>>

LockUnlocked(s, r) == locked
Lock(s, r) == [locked EXCEPT ![s] = r]

\* SELECT ... FOR UPDATE, then the latest version.
LockStrategy(r) ==
    /\ save[r].step = "checked"
    /\ LET s == save[r].strategy
       IN  /\ locked[s] = None
           /\ IF s \in strategies
              THEN /\ locked' = Lock(s, r)
                   /\ save' = [save EXCEPT ![r] = [step |-> "locked", strategy |-> s, content |-> save[r].content,
                                                   latest |-> Latest(s)]]
              ELSE save' = [save EXCEPT ![r] = NoSave] /\ UNCHANGED locked
    /\ UNCHANGED <<table, chats, collisions>>

\* A rule builder save is also new with other rules only.
IsSameContent(latest, content) ==
    /\ latest.code = content.code
    /\ content.source = "rule_builder" => latest.rules = content.rules

\* The INSERT and the commit. A conversation that is gone, or a number that is taken, ends the request with an error.
AppendVersion(r) ==
    /\ save[r].step = "locked"
    /\ LET s == save[r].strategy
           content == save[r].content
           latest == save[r].latest
           is_known == content.conversation = None \/ content.conversation \in DOMAIN conversation
           is_taken == latest.number + 1 \in Numbers(s)
       IN  /\ latest.number < MaxVersions
           /\ IF IsSameContent(latest, content)
              THEN UNCHANGED <<versions, collisions>>
              ELSE /\ versions' = IF is_known /\ ~is_taken
                                  THEN versions \cup {Row(s, latest.number + 1, content)} ELSE versions
                   /\ collisions' = IF is_taken THEN 1 ELSE collisions
           /\ locked' = [locked EXCEPT ![s] = None]
    /\ save' = [save EXCEPT ![r] = NoSave]
    /\ UNCHANGED <<strategies, created, used, chats>>

\* The mark is a row of its own; a second discard changes nothing.
DiscardVersion(v) ==
    /\ v \in versions
    /\ v.source = "ai_assistant"
    /\ versions' = (versions \ {v}) \cup {[v EXCEPT !.discarded = TRUE]}
    /\ UNCHANGED <<strategies, created, used, chats, save, locked, collisions>>

\* The versions, the marks and the conversations cascade. A use of a version refuses the delete.
DeleteStrategy(s) ==
    /\ s \in strategies /\ locked[s] = None
    /\ \A n \in Numbers(s) : <<s, n>> \notin used
    /\ strategies' = strategies \ {s}
    /\ LET kept == {c \in DOMAIN conversation : conversation[c].strategy # s}
       IN  /\ conversation' = [c \in kept |-> conversation[c]]
           /\ versions' = {[v EXCEPT !.conversation = IF @ \in kept THEN @ ELSE None] : v \in versions \ Of(s)}
    /\ UNCHANGED <<created, used, prompts, save, locked, collisions>>

\* External: the insert of a backtest, sweep or forward test.
UseVersion(v) ==
    /\ v \in versions
    /\ used' = used \cup {<<v.strategy, v.number>>}
    /\ UNCHANGED <<strategies, created, versions, chats, save, locked, collisions>>

-----------------------------------------------------------------------------
(* The conversations and the prompt versions. The table lock makes each    *)
(* transaction on the prompt versions one step.                            *)

\* insert_prompt_version: the next number.
SavePrompt ==
    /\ prompts < MaxPrompts
    /\ prompts' = prompts + 1
    /\ UNCHANGED <<table, conversation, save, locked, collisions>>

\* The latest prompt version, or the default text as version 1. A strategy that is gone refuses the conversation.
CreateConversation(c, s) ==
    /\ c \notin DOMAIN conversation
    /\ s \in strategies \cup {None}
    /\ LET latest == IF prompts = 0 THEN 1 ELSE prompts
       IN  /\ prompts' = latest
           /\ conversation' = [x \in DOMAIN conversation \cup {c} |->
                                  IF x = c THEN [strategy |-> s, prompt |-> latest] ELSE conversation[x]]
    /\ UNCHANGED <<table, save, locked, collisions>>

\* ON DELETE SET NULL of its versions: the only update that the trigger of strategy_version lets through.
DeleteConversation(c) ==
    /\ c \in DOMAIN conversation
    /\ conversation' = [x \in DOMAIN conversation \ {c} |-> conversation[x]]
    /\ versions' = {[v EXCEPT !.conversation = IF @ = c THEN None ELSE @] : v \in versions}
    /\ UNCHANGED <<strategies, created, used, prompts, save, locked, collisions>>

Next ==
    \/ \E content \in Content : CreateStrategy(content)
    \/ \E r \in Saves : LockStrategy(r) \/ AppendVersion(r)
    \/ \E r \in Saves, s \in Ids, content \in Content : CheckCode(r, s, content)
    \/ \E v \in versions : DiscardVersion(v) \/ UseVersion(v)
    \/ \E s \in Ids : DeleteStrategy(s)
    \/ SavePrompt
    \/ \E c \in Conversations : DeleteConversation(c) \/ \E s \in Ids \cup {None} : CreateConversation(c, s)

Spec == Init /\ [][Next]_strategyVars

-----------------------------------------------------------------------------
\* The versions of a strategy are 1, 2, 3, ... without a gap, each one differs from the one before, and no save fails
\* because another save took its number (save_version locks the strategy). A version in use exists, only a version of
\* the AI assistant has the discarded mark, and a conversation that a version names exists.
VersionsAreAHistory ==
    /\ \A s \in strategies : Numbers(s) = 1 .. Cardinality(Of(s))
    /\ \A v, w \in versions : v.strategy = w.strategy /\ w.number = v.number + 1 => ~IsSameContent(v, w)
    /\ collisions = 0
    /\ \A u \in used : \E v \in versions : <<v.strategy, v.number>> = u
    /\ \A v \in versions :
        /\ v.strategy \in strategies
        /\ v.discarded => v.source = "ai_assistant"
        /\ v.conversation \in DOMAIN conversation \cup {None}
=============================================================================
