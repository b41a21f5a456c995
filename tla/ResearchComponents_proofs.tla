---------------------- MODULE ResearchComponents_proofs ----------------------
(***************************************************************************)
(* The properties of the components of research, in each behavior of       *)
(* ResearchComponents: each step is a step of one component and changes    *)
(* nothing of the others. The queue of backtests is proved in a module of  *)
(* its own; the invariants of the other components are here, one section   *)
(* for each component.                                                     *)
(***************************************************************************)
EXTENDS ResearchComponents, FunctionTheorems, FiniteSetTheorems, WellFoundedInduction, TLAPS

QueueProofs == INSTANCE Backtests_proofs

\* The queue of this module is the one that Backtests_proofs is about.
LEMMA QueueIsProved == (Queue!Init <=> QueueProofs!Init) /\ (Queue!Next <=> QueueProofs!Next)
<1> USE DEF Queue!Backtests, Queue!Final, Queue!Has, Queue!Active, Queue!Unlocked, Queue!rows, Queue!runner, Queue!Oldest,
            QueueProofs!Backtests, QueueProofs!Final, QueueProofs!Has, QueueProofs!Active, QueueProofs!Unlocked,
            QueueProofs!rows, QueueProofs!runner, QueueProofs!Oldest
<1>1. Queue!Init <=> QueueProofs!Init
    BY DEF Queue!Init, QueueProofs!Init
<1>2. Queue!Next <=> QueueProofs!Next
    BY DEF
        Queue!Next, Queue!StartWeb, Queue!StopWeb, Queue!StartNextQueued, Queue!LoseStart, Queue!CancelSweep,
        Queue!DeleteSweep, Queue!Delete, Queue!ChangeLimits, Queue!StartSweep, Queue!Insert, Queue!StartBacktest,
        Queue!StartSamePeriod, Queue!LinkSamePeriod, Queue!DeleteBacktest, Queue!RunnerStep, Queue!Spawn, Queue!TimeOut,
        Queue!SeeExit, Queue!EndBacktest, Queue!ChildStep, Queue!ReadInputs, Queue!RunStrategy, Queue!Save,
        Queue!ChildFails, Queue!Commit, Queue!RollBack, Queue!StopAfterWebProcess, Queue!Leaves,
        QueueProofs!Next, QueueProofs!StartWeb, QueueProofs!StopWeb, QueueProofs!StartNextQueued, QueueProofs!LoseStart,
        QueueProofs!CancelSweep, QueueProofs!DeleteSweep, QueueProofs!Delete, QueueProofs!ChangeLimits,
        QueueProofs!StartSweep, QueueProofs!Insert, QueueProofs!StartBacktest, QueueProofs!StartSamePeriod,
        QueueProofs!LinkSamePeriod, QueueProofs!DeleteBacktest, QueueProofs!RunnerStep, QueueProofs!Spawn,
        QueueProofs!TimeOut, QueueProofs!SeeExit, QueueProofs!EndBacktest, QueueProofs!ChildStep, QueueProofs!ReadInputs,
        QueueProofs!RunStrategy, QueueProofs!Save, QueueProofs!ChildFails, QueueProofs!Commit, QueueProofs!RollBack,
        QueueProofs!StopAfterWebProcess, QueueProofs!Leaves
<1> QED
    BY <1>1, <1>2

\* The composition and the queue module count with the same operator.
LEMMA QueueCardinality == ASSUME NEW S PROVE Queue!Cardinality(S) = QueueProofs!Cardinality(S)
BY DEF Queue!Cardinality, QueueProofs!Cardinality

\* A step of another part changes no row and no process of the queue.
LEMMA QueueSteps == [Next]_vars => [QueueProofs!Next]_(QueueProofs!vars)
<1> SUFFICES ASSUME [Next]_vars PROVE [QueueProofs!Next]_(QueueProofs!vars)
    OBVIOUS
<1>1. Queue!Next \/ UNCHANGED queue
    BY DEF Next, ResearchStep, AssistantStep, vars, research
<1>2. UNCHANGED queue => UNCHANGED QueueProofs!vars
    BY DEF queue, QueueProofs!vars, QueueProofs!rows, QueueProofs!runner
<1> QED
    BY <1>1, <1>2, QueueIsProved

\* The assumption of the composition has what the queue module assumes.
LEMMA QueueConstantsHold == QueueProofs!QueueConstants
BY ResearchAssumption DEF QueueProofs!QueueConstants

\* QueueInv for every number of backtests: a result is whole or not there, a running row has a task that ends it, and a
\* linked backtest exists, whatever the routes, the runner, the children and the stops of the Web process do.
THEOREM QueueIsConsistent == Spec => []QueueInv
<1>1. Init => QueueProofs!QueueIInv
    BY QueueIsProved, QueueConstantsHold, QueueProofs!QueueInit DEF Init, InitOf
<1>2. QueueProofs!QueueIInv /\ [Next]_vars => QueueProofs!QueueIInv'
    BY QueueSteps, QueueConstantsHold, QueueProofs!QueueStep
<1>3. QueueProofs!QueueIInv => QueueInv
    BY QueueProofs!QueueIInvIsEnough, QueueCardinality
    DEF QueueInv, Queue!Backtests, Queue!Final, Queue!Statuses, Queue!ChildSteps, Queue!Tasks, Queue!Has, Queue!TypeOK,
        Queue!ResultsAreWhole, Queue!RunningHasRunner, Queue!LinkedBacktestExists,
        QueueProofs!Backtests, QueueProofs!Final, QueueProofs!Statuses, QueueProofs!ChildSteps, QueueProofs!Tasks,
        QueueProofs!Has, QueueProofs!TypeOK, QueueProofs!ResultsAreWhole, QueueProofs!RunningHasRunner,
        QueueProofs!LinkedBacktestExists
<1> QED
    BY <1>1, <1>2, <1>3, PTL DEF Spec

\* FinalStatusStays for every number of backtests: a final status stays until a user deletes the row, whichever of the
\* three processes wrote it, and whichever of them still runs.
THEOREM FinalStatusIsKept == Spec => FinalStatusStays
<1>1. Init => QueueProofs!QueueIInv
    BY QueueIsProved, QueueConstantsHold, QueueProofs!QueueInit DEF Init, InitOf
<1>2. QueueProofs!QueueIInv /\ [Next]_vars =>
        /\ QueueProofs!QueueIInv'
        /\ \A b \in Queue!Backtests : status[b] \in Queue!Final => status'[b] \in {status[b], "deleted"}
    BY QueueSteps, QueueConstantsHold, QueueProofs!QueueStep
    DEF QueueProofs!FinalStays, Queue!Backtests, Queue!Final, QueueProofs!Backtests, QueueProofs!Final
<1> QED
    BY <1>1, <1>2, PTL DEF Spec, FinalStatusStays, Queue!FinalStatusStays

-----------------------------------------------------------------------------
(* The saved strategies and their versions.                                *)
VersionRows ==
    [strategy : Versions!Ids, number : 1 .. MaxVersions, code : Codes, rules : {0, 1, 2}, source : Versions!Sources,
     conversation : Conversations \cup {Versions!None}, discarded : BOOLEAN]
\* A save that has checked its code, and one that has locked its strategy and read the latest version.
CheckedSaves == [step : {"checked"}, strategy : Versions!Ids, content : Versions!Content]
LockedSaves == [step : {"locked"}, strategy : Versions!Ids, content : Versions!Content, latest : VersionRows]

\* The types of the strategies, their versions and the saves in progress.
VersionsOK ==
    /\ created \in 0 .. MaxStrategies /\ strategies \subseteq 1 .. created
    /\ versions \subseteq VersionRows
    /\ used \subseteq Versions!Ids \X (1 .. MaxVersions)
    /\ save \in [Saves -> {Versions!NoSave} \cup CheckedSaves \cup LockedSaves]
    /\ locked \in [Versions!Ids -> Saves \cup {Versions!None}]

ConversationsOK == DOMAIN conversation \subseteq Conversations /\ prompts \in 0 .. MaxPrompts

\* The versions of each strategy are numbered from 1 without a gap, and only the strategies that exist have versions.
VersionsAreNumbered ==
    /\ \A v, w \in versions : v.strategy = w.strategy /\ v.number = w.number => v = w
    /\ \A v \in versions : \A n \in 1 .. v.number : \E w \in versions : w.strategy = v.strategy /\ w.number = n
    /\ \A s \in strategies : \E v \in versions : v.strategy = s
    /\ \A v, w \in versions : v.strategy = w.strategy /\ w.number = v.number + 1 => ~Versions!IsSameContent(v, w)
    /\ \A u \in used : \E v \in versions : <<v.strategy, v.number>> = u
    /\ \A v \in versions : v.strategy \in strategies
    /\ collisions = 0

\* Only a version of the assistant is discarded, and its conversation exists.
MarksAreTrue ==
    \A v \in versions :
        (v.discarded => v.source = "ai_assistant") /\ v.conversation \in DOMAIN conversation \cup {Versions!None}

\* v is the latest version of its strategy.
IsLatest(v) == v \in versions /\ \A w \in versions : w.strategy = v.strategy => w.number <= v.number

\* The contents of a version, without its mark and its conversation.
SameVersion(v, w) ==
    v.strategy = w.strategy /\ v.number = w.number /\ v.code = w.code /\ v.rules = w.rules /\ v.source = w.source

\* A save that locked the strategy has read the latest version, and it stays the latest.
LatestIsRead ==
    \A r \in Saves : save[r].step = "locked" =>
        /\ save[r].strategy \in strategies /\ locked[save[r].strategy] = r
        /\ \E v \in versions : v.strategy = save[r].strategy /\ SameVersion(v, save[r].latest) /\ IsLatest(v)

\* The inductive invariant of the saved strategies. VersionsAreAHistory alone is not inductive: a save must know that the
\* version it read under the lock is still the latest.
VersionsIInv == VersionsOK /\ ConversationsOK /\ VersionsAreNumbered /\ MarksAreTrue /\ LatestIsRead

\* What the proofs need of the constants.
LEMMA VersionConstants ==
    /\ MaxStrategies \in Nat /\ MaxVersions \in Nat \ {0} /\ MaxPrompts \in Nat \ {0} /\ Versions!None \notin Saves
BY ResearchAssumption DEF Versions!None

\* Without strategies, the invariant holds.
LEMMA VersionsInit == Versions!Init => VersionsIInv
BY VersionConstants
DEF Versions!Init, VersionsIInv, VersionsOK, ConversationsOK, VersionsAreNumbered, MarksAreTrue, LatestIsRead,
    Versions!NoSave, Versions!Ids

\* A strategy has a latest version.
LEMMA LatestExists ==
    ASSUME VersionsOK, VersionsAreNumbered, NEW s \in strategies
    PROVE  /\ Versions!Latest(s) \in versions /\ Versions!Latest(s).strategy = s /\ IsLatest(Versions!Latest(s))
<1> DEFINE distances == {MaxVersions - v.number : v \in Versions!Of(s)}
<1>1. \A v \in versions : v.number \in 1 .. MaxVersions
    BY DEF VersionsOK, VersionRows
<1>2. distances \subseteq Nat
    BY <1>1, VersionConstants DEF Versions!Of
<1>3. \E v \in Versions!Of(s) : TRUE
    BY DEF VersionsAreNumbered, Versions!Of
<1>4. distances # {}
    BY <1>3
<1> HIDE DEF distances
<1>5. PICK d \in distances : \A e \in distances : <<e, d>> \notin OpToRel(<, Nat)
    BY <1>2, <1>4, NatLessThanWellFounded, WFMin
<1>6. \A e \in distances : ~(e < d)
    BY <1>2, <1>5 DEF OpToRel
<1>7. PICK v \in Versions!Of(s) : d = MaxVersions - v.number
    BY <1>5 DEF distances
<1>8. \A w \in Versions!Of(s) : MaxVersions - w.number \in distances
    BY DEF distances
<1>9. \A w \in Versions!Of(s) : w.number <= v.number
    BY <1>1, <1>6, <1>7, <1>8, VersionConstants DEF Versions!Of
<1>10. Versions!Latest(s) \in Versions!Of(s) /\ \A w \in Versions!Of(s) : w.number <= Versions!Latest(s).number
    BY <1>9 DEF Versions!Latest
<1> QED
    BY <1>10 DEF Versions!Of, IsLatest

\* A step that changes only marks and conversations of the versions, and deletes all versions of a strategy or none.
LEMMA MarkedVersions ==
    ASSUME VersionsIInv, UNCHANGED <<created, used, save, locked, collisions>>, strategies' \subseteq strategies,
           versions' \subseteq VersionRows,
           \A w \in versions' : w.strategy \in strategies' /\ \E v \in versions : SameVersion(v, w),
           \A v \in versions : v.strategy \in strategies' => \E w \in versions' : SameVersion(v, w),
           \A v, w \in versions' : v.strategy = w.strategy /\ v.number = w.number => v = w,
           \A v \in versions : <<v.strategy, v.number>> \in used => v.strategy \in strategies',
           \A s \in strategies : locked[s] # Versions!None => s \in strategies'
    PROVE  VersionsOK' /\ VersionsAreNumbered' /\ LatestIsRead'
<1> USE DEF VersionsIInv
<1>1. VersionsOK'
    BY DEF VersionsOK
<1>2. \A v \in versions : v.number \in 1 .. MaxVersions
    BY DEF VersionsOK, VersionRows
<1>3. VersionsAreNumbered'
    <2>1. ASSUME NEW w \in versions', NEW n \in 1 .. w.number
          PROVE  \E x \in versions' : x.strategy = w.strategy /\ x.number = n
        <3>1. PICK v \in versions : SameVersion(v, w)
            OBVIOUS
        <3>2. PICK y \in versions : y.strategy = v.strategy /\ y.number = n
            BY <3>1 DEF SameVersion, VersionsAreNumbered
        <3>3. PICK x \in versions' : SameVersion(y, x)
            BY <3>1, <3>2 DEF SameVersion
        <3> QED
            BY <3>1, <3>2, <3>3 DEF SameVersion
    <2>2. \A s \in strategies' : \E v \in versions' : v.strategy = s
        BY DEF VersionsAreNumbered, SameVersion
    <2>3. ASSUME NEW v \in versions', NEW w \in versions', v.strategy = w.strategy, w.number = v.number + 1
          PROVE  ~Versions!IsSameContent(v, w)
        <3>1. PICK x \in versions, y \in versions : SameVersion(x, v) /\ SameVersion(y, w)
            OBVIOUS
        <3>2. ~Versions!IsSameContent(x, y)
            BY <2>3, <3>1 DEF SameVersion, VersionsAreNumbered
        <3> QED
            BY <3>1, <3>2 DEF SameVersion, Versions!IsSameContent
    <2>4. ASSUME NEW u \in used PROVE \E v \in versions' : <<v.strategy, v.number>> = u
        <3>1. PICK v \in versions : <<v.strategy, v.number>> = u
            BY DEF VersionsAreNumbered
        <3>2. PICK w \in versions' : SameVersion(v, w)
            BY <3>1
        <3> QED
            BY <3>1, <3>2 DEF SameVersion
    <2> QED
        BY <2>1, <2>2, <2>3, <2>4 DEF VersionsAreNumbered
<1>4. ASSUME NEW r \in Saves, save[r].step = "locked"
      PROVE  /\ save[r].strategy \in strategies' /\ locked[save[r].strategy] = r
             /\ \E v \in versions' : v.strategy = save[r].strategy /\ SameVersion(v, save[r].latest) /\ IsLatest(v)'
    <2>1. save[r].strategy \in strategies' /\ locked[save[r].strategy] = r
        BY <1>4, VersionConstants DEF LatestIsRead
    <2>2. PICK v \in versions : v.strategy = save[r].strategy /\ SameVersion(v, save[r].latest) /\ IsLatest(v)
        BY <1>4 DEF LatestIsRead
    <2>3. PICK w \in versions' : SameVersion(v, w)
        BY <2>1, <2>2
    <2>4. \A x \in versions' : x.strategy = w.strategy => x.number <= w.number
        BY <2>2, <2>3 DEF SameVersion, IsLatest
    <2> QED
        BY <2>1, <2>2, <2>3, <2>4 DEF SameVersion, IsLatest
<1> QED
    BY <1>1, <1>3, <1>4 DEF LatestIsRead

\* A strategy that gets a next version: the content differs from the latest version.
LEMMA AppendedVersion ==
    ASSUME VersionsIInv, NEW s \in strategies, NEW latest \in versions, latest.strategy = s, IsLatest(latest),
           NEW v \in VersionRows, v.strategy = s, v.number = latest.number + 1, ~Versions!IsSameContent(latest, v),
           versions' = versions \cup {v}, UNCHANGED <<strategies, used, collisions>>
    PROVE  VersionsAreNumbered'
<1> USE DEF VersionsIInv
<1>1. \A w \in versions : w.number \in 1 .. MaxVersions /\ (w.strategy = s => w.number <= latest.number)
    BY DEF VersionsOK, VersionRows, IsLatest
<1>2. v.number \in 1 .. MaxVersions
    BY DEF VersionRows
<1>3. \A w, x \in versions' : w.strategy = x.strategy /\ w.number = x.number => w = x
    BY <1>1, <1>2 DEF VersionsAreNumbered
<1>4. ASSUME NEW w \in versions', NEW n \in 1 .. w.number
      PROVE  \E x \in versions' : x.strategy = w.strategy /\ x.number = n
    <2>1. CASE w \in versions
        BY <2>1 DEF VersionsAreNumbered
    <2>2. CASE w = v /\ n = v.number
        BY <2>2
    <2>3. CASE w = v /\ n # v.number
        <3>1. n \in 1 .. latest.number
            BY <1>1, <1>2, <2>3
        <3> QED
            BY <2>3, <3>1 DEF VersionsAreNumbered
    <2> QED
        BY <2>1, <2>2, <2>3
<1>5. ASSUME NEW w \in versions', NEW x \in versions', w.strategy = x.strategy, x.number = w.number + 1
      PROVE  ~Versions!IsSameContent(w, x)
    <2>1. CASE x \in versions /\ w \in versions
        BY <1>5, <2>1 DEF VersionsAreNumbered
    <2>2. CASE x = v /\ w = v
        BY <1>2, <1>5, <2>2
    <2>3. CASE x = v /\ w \in versions
        <3>1. w = latest
            BY <1>1, <1>2, <1>5, <2>3 DEF VersionsAreNumbered
        <3> QED
            BY <2>3, <3>1
    <2>4. CASE w = v /\ x \in versions
        BY <1>1, <1>2, <1>5, <2>4
    <2> QED
        BY <2>1, <2>2, <2>3, <2>4
<1> QED
    BY <1>3, <1>4, <1>5 DEF VersionsAreNumbered

\* The rows that a cascade or a mark writes.
Marked(v, is_discarded) == [v EXCEPT !.discarded = is_discarded]
WithConversation(v, kept) == [v EXCEPT !.conversation = IF @ \in kept THEN @ ELSE Versions!None]

\* A mark or a lost conversation leaves the content of a version.
LEMMA MarkedRows ==
    ASSUME NEW v \in VersionRows, NEW kept \in SUBSET Conversations
    PROVE  /\ Marked(v, TRUE) \in VersionRows /\ SameVersion(v, Marked(v, TRUE))
           /\ Marked(v, TRUE).conversation = v.conversation
           /\ WithConversation(v, kept) \in VersionRows /\ SameVersion(v, WithConversation(v, kept))
           /\ WithConversation(v, kept).conversation \in kept \cup {Versions!None}
           /\ WithConversation(v, kept).discarded = v.discarded
BY DEF Marked, WithConversation, VersionRows, SameVersion

\* A delete of a strategy or of a conversation: the versions that stay keep the conversations that stay.
LEMMA Cascade ==
    ASSUME VersionsIInv, UNCHANGED <<created, used, save, locked, collisions, prompts>>,
           strategies' \subseteq strategies, NEW kept \in SUBSET DOMAIN conversation, DOMAIN conversation' = kept,
           versions' = {WithConversation(v, kept) : v \in {w \in versions : w.strategy \in strategies'}},
           \A v \in versions : <<v.strategy, v.number>> \in used => v.strategy \in strategies',
           \A s \in strategies : locked[s] # Versions!None => s \in strategies'
    PROVE  VersionsIInv'
<1> USE DEF VersionsIInv
<1>1. kept \in SUBSET Conversations /\ ConversationsOK'
    BY DEF ConversationsOK
<1>2. \A v \in versions : /\ v \in VersionRows
                          /\ WithConversation(v, kept) \in VersionRows /\ SameVersion(v, WithConversation(v, kept))
                          /\ WithConversation(v, kept).conversation \in kept \cup {Versions!None}
                          /\ WithConversation(v, kept).discarded = v.discarded
    BY <1>1, MarkedRows DEF VersionsOK
<1>3. \A w \in versions' : \E v \in versions : w = WithConversation(v, kept) /\ v.strategy \in strategies'
    OBVIOUS
<1>4. \A v \in versions : v.strategy \in strategies' => WithConversation(v, kept) \in versions'
    OBVIOUS
<1>5. versions' \subseteq VersionRows
    BY <1>2, <1>3
<1>6. \A w \in versions' : w.strategy \in strategies' /\ \E v \in versions : SameVersion(v, w)
    BY <1>2, <1>3 DEF SameVersion
<1>7. \A v \in versions : v.strategy \in strategies' => \E w \in versions' : SameVersion(v, w)
    BY <1>2, <1>4
<1>8. \A v, w \in versions' : v.strategy = w.strategy /\ v.number = w.number => v = w
    <2> SUFFICES ASSUME NEW v \in versions', NEW w \in versions', v.strategy = w.strategy, v.number = w.number
                 PROVE  v = w
        OBVIOUS
    <2>1. PICK x \in versions, y \in versions : v = WithConversation(x, kept) /\ w = WithConversation(y, kept)
        BY <1>3
    <2>2. x = y
        BY <1>2, <2>1 DEF SameVersion, VersionsAreNumbered
    <2> QED
        BY <2>1, <2>2
<1>9. MarksAreTrue'
    BY <1>2, <1>3 DEF MarksAreTrue, SameVersion
<1> QED
    BY <1>1, <1>5, <1>6, <1>7, <1>8, <1>9, MarkedVersions

\* Each save, mark, delete and rename keeps the invariant of the versions.
LEMMA VersionsStep == VersionsIInv /\ [Versions!Next]_(Versions!strategyVars) => VersionsIInv'
<1> SUFFICES ASSUME VersionsIInv, [Versions!Next]_(Versions!strategyVars) PROVE VersionsIInv'
    OBVIOUS
<1> USE VersionConstants DEF VersionsIInv, Versions!table, Versions!chats
<1>1. CASE UNCHANGED Versions!strategyVars
    BY <1>1
    DEF Versions!strategyVars, VersionsOK, ConversationsOK, VersionsAreNumbered, MarksAreTrue, LatestIsRead, IsLatest
<1>2. ASSUME NEW content \in Versions!Content, Versions!CreateStrategy(content) PROVE VersionsIInv'
    <2> DEFINE v == Versions!Row(created + 1, 1, content)
    <2>1. /\ strategies = {} /\ content.conversation = Versions!None /\ created < MaxStrategies
          /\ created' = created + 1 /\ strategies' = {created + 1} /\ versions' = versions \cup {v}
          /\ UNCHANGED <<used, conversation, prompts, save, locked, collisions>>
        BY <1>2 DEF Versions!CreateStrategy
    <2>2. versions = {} /\ used = {}
        BY <2>1 DEF VersionsAreNumbered
    <2>3. created \in Nat /\ created + 1 \in Versions!Ids
        BY <2>1 DEF VersionsOK, Versions!Ids
    <2>4. v \in VersionRows /\ v.strategy = created + 1 /\ v.number = 1 /\ ~v.discarded /\ v.conversation = Versions!None
        BY <2>1, <2>3 DEF Versions!Row, Versions!Content, VersionRows
    <2> HIDE DEF v
    <2>5. VersionsOK'
        BY <2>1, <2>2, <2>3, <2>4 DEF VersionsOK
    <2>6. VersionsAreNumbered'
        BY <2>1, <2>2, <2>4 DEF VersionsAreNumbered
    <2>7. MarksAreTrue' /\ ConversationsOK' /\ LatestIsRead'
        BY <2>1, <2>2, <2>4 DEF MarksAreTrue, ConversationsOK, LatestIsRead
    <2> QED
        BY <2>5, <2>6, <2>7
<1>3. ASSUME NEW r \in Saves, NEW s \in Versions!Ids, NEW content \in Versions!Content, Versions!CheckCode(r, s, content)
      PROVE  VersionsIInv'
    <2> DEFINE checked_save == [step |-> "checked", strategy |-> s, content |-> content]
    <2>1. /\ save' = [save EXCEPT ![r] = checked_save]
          /\ UNCHANGED <<strategies, created, versions, used, conversation, prompts, locked, collisions>>
        BY <1>3 DEF Versions!CheckCode
    <2>2. checked_save \in CheckedSaves /\ checked_save.step = "checked"
        BY DEF CheckedSaves
    <2> HIDE DEF checked_save
    <2>3. VersionsOK' /\ \A q \in Saves : save'[q].step = "locked" => save'[q] = save[q]
        BY <2>1, <2>2 DEF VersionsOK
    <2> QED
        BY <2>1, <2>3 DEF ConversationsOK, VersionsAreNumbered, MarksAreTrue, LatestIsRead, IsLatest
<1>4. ASSUME NEW r \in Saves, Versions!LockStrategy(r) PROVE VersionsIInv'
    <2> DEFINE s == save[r].strategy
    <2>1. /\ save[r].step = "checked" /\ locked[s] = Versions!None
          /\ UNCHANGED <<strategies, created, versions, used, conversation, prompts, collisions>>
        BY <1>4 DEF Versions!LockStrategy
    <2>2. s \in Versions!Ids /\ save[r].content \in Versions!Content
        BY <2>1 DEF VersionsOK, CheckedSaves, LockedSaves, Versions!NoSave
    <2>3. CASE s \in strategies
        <3> DEFINE locked_save ==
                [step |-> "locked", strategy |-> s, content |-> save[r].content, latest |-> Versions!Latest(s)]
        <3>1. locked' = [locked EXCEPT ![s] = r] /\ save' = [save EXCEPT ![r] = locked_save]
            BY <1>4, <2>3 DEF Versions!LockStrategy, Versions!Lock
        <3>2. /\ Versions!Latest(s) \in versions /\ Versions!Latest(s).strategy = s /\ IsLatest(Versions!Latest(s))
              /\ Versions!Latest(s) \in VersionRows
            BY <2>3, LatestExists DEF VersionsOK
        <3>3. /\ locked_save \in LockedSaves /\ locked_save.strategy = s /\ locked_save.latest = Versions!Latest(s)
              /\ locked_save.step = "locked"
            BY <2>2, <3>2 DEF LockedSaves
        <3> HIDE DEF locked_save, s
        <3>4. VersionsOK'
            BY <2>1, <2>2, <3>1, <3>3 DEF VersionsOK
        <3>5. \A q \in Saves : save'[q] = IF q = r THEN locked_save ELSE save[q]
            BY <3>1 DEF VersionsOK
        <3>6. \A t \in Versions!Ids : locked'[t] = IF t = s THEN r ELSE locked[t]
            BY <3>1 DEF VersionsOK
        <3>7. strategies \subseteq Versions!Ids
            BY DEF VersionsOK, Versions!Ids
        <3>8. ASSUME NEW q \in Saves, save'[q].step = "locked"
              PROVE  /\ save'[q].strategy \in strategies /\ locked'[save'[q].strategy] = q
                     /\ \E v \in versions : v.strategy = save'[q].strategy /\ SameVersion(v, save'[q].latest) /\ IsLatest(v)
            <4>1. CASE q = r
                BY <2>2, <2>3, <3>2, <3>3, <3>5, <3>6, <3>7, <4>1 DEF SameVersion
            <4>2. CASE q # r
                BY <2>1, <3>5, <3>6, <3>7, <3>8, <4>2 DEF LatestIsRead
            <4> QED
                BY <4>1, <4>2
        <3>9. LatestIsRead'
            BY <2>1, <3>8 DEF LatestIsRead, IsLatest
        <3> QED
            BY <2>1, <3>4, <3>9 DEF ConversationsOK, VersionsAreNumbered, MarksAreTrue
    <2>4. CASE s \notin strategies
        <3>1. locked' = locked /\ save' = [save EXCEPT ![r] = Versions!NoSave]
            BY <1>4, <2>4 DEF Versions!LockStrategy
        <3>2. VersionsOK' /\ \A q \in Saves : save'[q].step = "locked" => save'[q] = save[q]
            BY <2>1, <3>1 DEF VersionsOK, Versions!NoSave
        <3> QED
            BY <2>1, <3>1, <3>2 DEF ConversationsOK, VersionsAreNumbered, MarksAreTrue, LatestIsRead, IsLatest
    <2> QED
        BY <2>3, <2>4
<1>5. ASSUME NEW r \in Saves, Versions!AppendVersion(r) PROVE VersionsIInv'
    <2> DEFINE s == save[r].strategy
               content == save[r].content
               latest == save[r].latest
    <2>1. /\ save[r].step = "locked" /\ latest.number < MaxVersions
          /\ locked' = [locked EXCEPT ![s] = Versions!None] /\ save' = [save EXCEPT ![r] = Versions!NoSave]
          /\ UNCHANGED <<strategies, created, used, conversation, prompts>>
        BY <1>5 DEF Versions!AppendVersion
    <2>2. /\ s \in strategies /\ s \in Versions!Ids /\ locked[s] = r /\ content \in Versions!Content
          /\ latest \in VersionRows
        BY <2>1 DEF LatestIsRead, VersionsOK, CheckedSaves, LockedSaves, Versions!NoSave
    <2>3. PICK v \in versions : v.strategy = s /\ SameVersion(v, latest) /\ IsLatest(v)
        BY <2>1 DEF LatestIsRead
    <2> DEFINE is_known == content.conversation = Versions!None \/ content.conversation \in DOMAIN conversation
               is_taken == latest.number + 1 \in Versions!Numbers(s)
               row1 == Versions!Row(s, latest.number + 1, content)
    <2>4. \/ versions' = versions /\ collisions' = collisions
          \/ /\ ~Versions!IsSameContent(latest, content)
             /\ versions' = IF is_known /\ ~is_taken THEN versions \cup {row1} ELSE versions
             /\ collisions' = IF is_taken THEN 1 ELSE collisions
        BY <1>5 DEF Versions!AppendVersion
    <2>5. \A w \in versions : w.number \in 1 .. MaxVersions
        BY DEF VersionsOK, VersionRows
    <2>6. ~is_taken
        BY <2>3, <2>5 DEF Versions!Numbers, Versions!Of, SameVersion, IsLatest
    <2>7. /\ row1 \in VersionRows /\ row1.strategy = s /\ row1.number = v.number + 1 /\ row1.code = content.code
          /\ row1.rules = content.rules /\ row1.source = content.source /\ row1.conversation = content.conversation
          /\ ~row1.discarded
        BY <2>1, <2>2, <2>3, <2>5 DEF Versions!Row, Versions!Content, VersionRows, SameVersion
    <2>8. ~Versions!IsSameContent(latest, content) => ~Versions!IsSameContent(v, row1)
        BY <2>3, <2>7 DEF Versions!IsSameContent, SameVersion
    <2> HIDE DEF row1, content, latest
    <2>9. VersionsAreNumbered'
        <3>1. CASE versions' = versions /\ collisions' = collisions
            BY <2>1, <3>1 DEF VersionsAreNumbered
        <3>2. CASE ~Versions!IsSameContent(latest, content) /\ versions' = versions \cup {row1} /\ collisions' = collisions
            BY <2>1, <2>2, <2>3, <2>7, <2>8, <3>2, AppendedVersion
        <3> QED
            BY <2>4, <2>6, <3>1, <3>2
    <2>10. versions' \subseteq versions \cup {row1} /\ versions \subseteq versions'
           /\ (versions' = versions \/ content.conversation \in DOMAIN conversation \cup {Versions!None})
        BY <2>4
    <2>11. VersionsOK'
        BY <2>1, <2>2, <2>7, <2>10 DEF VersionsOK
    <2>12. MarksAreTrue' /\ ConversationsOK'
        BY <2>1, <2>7, <2>10 DEF MarksAreTrue, ConversationsOK
    <2> HIDE DEF s
    <2>13. ASSUME NEW q \in Saves, save'[q].step = "locked"
           PROVE  /\ save'[q].strategy \in strategies' /\ locked'[save'[q].strategy] = q
                  /\ \E x \in versions' : x.strategy = save'[q].strategy /\ SameVersion(x, save'[q].latest) /\ IsLatest(x)'
        <3>1. q # r /\ save'[q] = save[q]
            BY <2>1, <2>13 DEF VersionsOK, Versions!NoSave
        <3>2. save[q].strategy \in strategies /\ locked[save[q].strategy] = q /\ save[q].strategy # s
            BY <2>2, <2>13, <3>1 DEF LatestIsRead
        <3>3. PICK x \in versions : x.strategy = save[q].strategy /\ SameVersion(x, save[q].latest) /\ IsLatest(x)
            BY <2>13, <3>1 DEF LatestIsRead
        <3>4. IsLatest(x)'
            BY <2>7, <2>10, <3>2, <3>3 DEF IsLatest
        <3>5. locked'[save[q].strategy] = q
            BY <2>1, <2>2, <3>2 DEF VersionsOK, Versions!Ids
        <3> QED
            BY <2>1, <2>10, <3>1, <3>2, <3>3, <3>4, <3>5
    <2>14. LatestIsRead'
        BY <2>13 DEF LatestIsRead
    <2> QED
        BY <2>9, <2>11, <2>12, <2>14
<1>6. ASSUME NEW v \in versions, Versions!DiscardVersion(v) PROVE VersionsIInv'
    <2> DEFINE marked == Marked(v, TRUE)
    <2>1. /\ v.source = "ai_assistant" /\ versions' = (versions \ {v}) \cup {marked}
          /\ UNCHANGED <<strategies, created, used, conversation, prompts, save, locked, collisions>>
        BY <1>6 DEF Versions!DiscardVersion, Marked
    <2>2. /\ marked \in VersionRows /\ SameVersion(v, marked) /\ marked.conversation = v.conversation
          /\ \A w : SameVersion(w, w)
        BY MarkedRows DEF VersionsOK, SameVersion
    <2> HIDE DEF marked
    <2>3. versions' \subseteq VersionRows
        BY <2>1, <2>2 DEF VersionsOK
    <2>4. \A w \in versions' : w.strategy \in strategies /\ \E x \in versions : SameVersion(x, w)
        BY <2>1, <2>2 DEF SameVersion, VersionsAreNumbered
    <2>5. \A x \in versions : \E w \in versions' : SameVersion(x, w)
        BY <2>1, <2>2
    <2>6. \A x, w \in versions' : x.strategy = w.strategy /\ x.number = w.number => x = w
        BY <2>1, <2>2 DEF SameVersion, VersionsAreNumbered
    <2>7. MarksAreTrue'
        BY <2>1, <2>2 DEF MarksAreTrue, SameVersion
    <2>8. VersionsOK' /\ VersionsAreNumbered' /\ LatestIsRead'
        BY <2>1, <2>3, <2>4, <2>5, <2>6, MarkedVersions DEF VersionsAreNumbered
    <2> QED
        BY <2>1, <2>7, <2>8 DEF ConversationsOK
<1>7. ASSUME NEW v \in versions, Versions!UseVersion(v) PROVE VersionsIInv'
    <2>1. /\ used' = used \cup {<<v.strategy, v.number>>}
          /\ UNCHANGED <<strategies, created, versions, conversation, prompts, save, locked, collisions>>
        BY <1>7 DEF Versions!UseVersion
    <2>2. <<v.strategy, v.number>> \in Versions!Ids \X (1 .. MaxVersions)
        BY DEF VersionsOK, VersionRows
    <2>3. VersionsOK'
        BY <2>1, <2>2 DEF VersionsOK
    <2>4. VersionsAreNumbered'
        BY <2>1 DEF VersionsAreNumbered
    <2> QED
        BY <2>1, <2>3, <2>4 DEF ConversationsOK, MarksAreTrue, LatestIsRead, IsLatest
<1>8. ASSUME NEW s \in Versions!Ids, Versions!DeleteStrategy(s) PROVE VersionsIInv'
    <2> DEFINE kept == {c \in DOMAIN conversation : conversation[c].strategy # s}
    <2>1. /\ s \in strategies /\ locked[s] = Versions!None /\ \A n \in Versions!Numbers(s) : <<s, n>> \notin used
          /\ strategies' = strategies \ {s} /\ conversation' = [c \in kept |-> conversation[c]]
          /\ versions' = {[v EXCEPT !.conversation = IF @ \in kept THEN @ ELSE Versions!None] :
                  v \in versions \ Versions!Of(s)}
          /\ UNCHANGED <<created, used, prompts, save, locked, collisions>>
        BY <1>8 DEF Versions!DeleteStrategy
    <2>2. kept \in SUBSET DOMAIN conversation
        OBVIOUS
    <2> HIDE DEF kept
    <2>3. versions \ Versions!Of(s) = {w \in versions : w.strategy \in strategies'}
        BY <2>1 DEF Versions!Of, VersionsAreNumbered
    <2>4. versions' = {WithConversation(v, kept) : v \in {w \in versions : w.strategy \in strategies'}}
        BY <2>1, <2>3 DEF WithConversation
    <2>5. \A v \in versions : <<v.strategy, v.number>> \in used => v.strategy \in strategies'
        BY <2>1 DEF Versions!Numbers, Versions!Of, VersionsAreNumbered
    <2> QED
        BY <2>1, <2>2, <2>4, <2>5, Cascade
<1>9. CASE Versions!SavePrompt
    BY <1>9
    DEF Versions!SavePrompt, VersionsOK, ConversationsOK, VersionsAreNumbered, MarksAreTrue, LatestIsRead, IsLatest
<1>10. ASSUME NEW c \in Conversations, NEW s \in Versions!Ids \cup {Versions!None}, Versions!CreateConversation(c, s)
       PROVE  VersionsIInv'
    <2>1. /\ prompts' = (IF prompts = 0 THEN 1 ELSE prompts) /\ DOMAIN conversation' = DOMAIN conversation \cup {c}
          /\ UNCHANGED <<strategies, created, versions, used, save, locked, collisions>>
        BY <1>10 DEF Versions!CreateConversation
    <2>2. ConversationsOK'
        BY <2>1 DEF ConversationsOK
    <2> QED
        BY <2>1, <2>2 DEF VersionsOK, VersionsAreNumbered, MarksAreTrue, LatestIsRead, IsLatest
<1>11. ASSUME NEW c \in Conversations, Versions!DeleteConversation(c) PROVE VersionsIInv'
    <2> DEFINE kept == DOMAIN conversation \ {c}
    <2>1. /\ DOMAIN conversation' = kept
          /\ versions' = {[v EXCEPT !.conversation = IF @ = c THEN Versions!None ELSE @] : v \in versions}
          /\ UNCHANGED <<strategies, created, used, prompts, save, locked, collisions>>
        BY <1>11 DEF Versions!DeleteConversation
    <2>2. ASSUME NEW v \in versions
          PROVE  [v EXCEPT !.conversation = IF @ = c THEN Versions!None ELSE @] = WithConversation(v, kept)
        BY DEF WithConversation, MarksAreTrue, VersionsOK, VersionRows
    <2>3. versions = {w \in versions : w.strategy \in strategies'}
        BY <2>1 DEF VersionsAreNumbered
    <2>4. versions' = {WithConversation(v, kept) : v \in {w \in versions : w.strategy \in strategies'}}
        BY <2>1, <2>2, <2>3
    <2>5. kept \in SUBSET DOMAIN conversation
        OBVIOUS
    <2> HIDE DEF kept
    <2>6. \A v \in versions : v.strategy \in strategies'
        BY <2>1 DEF VersionsAreNumbered
    <2> QED
        BY <2>1, <2>4, <2>5, <2>6, Cascade
<1> QED
    BY <1>1, <1>2, <1>3, <1>4, <1>5, <1>6, <1>7, <1>8, <1>9, <1>10, <1>11 DEF Versions!Next

\* The invariant has what SavedWorkInv says of the strategies: the numbers are 1 .. the count of the versions.
LEMMA VersionsAreEnough == VersionsIInv => Versions!StrategiesTypeOK /\ Versions!VersionsAreAHistory
<1> SUFFICES ASSUME VersionsIInv PROVE Versions!StrategiesTypeOK /\ Versions!VersionsAreAHistory
    OBVIOUS
<1> USE DEF VersionsIInv
<1>1. \A r \in Saves : save[r].step \in {"none", "checked", "locked"}
    BY DEF VersionsOK, Versions!NoSave, CheckedSaves, LockedSaves
<1>2. Versions!StrategiesTypeOK
    BY <1>1, VersionConstants DEF VersionsOK, ConversationsOK, VersionRows, Versions!StrategiesTypeOK, Versions!Ids
<1>3. ASSUME NEW s \in strategies PROVE Versions!Numbers(s) = 1 .. Versions!Cardinality(Versions!Of(s))
    <2> DEFINE latest == Versions!Latest(s)
               rows == Versions!Of(s)
               number_of == [v \in rows |-> v.number]
    <2>1. latest \in versions /\ latest.strategy = s /\ IsLatest(latest)
        BY LatestExists
    <2> HIDE DEF latest
    <2>2. \A v \in rows : v \in versions /\ v.strategy = s /\ v.number \in 1 .. latest.number
        BY <2>1 DEF VersionsOK, VersionRows, IsLatest, Versions!Of
    <2>3. \A n \in 1 .. latest.number : \E v \in rows : v.number = n
        BY <2>1 DEF VersionsAreNumbered, Versions!Of
    <2>4. Versions!Numbers(s) = 1 .. latest.number
        BY <2>2, <2>3 DEF Versions!Numbers
    <2>5. latest.number \in Nat
        BY <2>1 DEF VersionsOK, VersionRows
    <2>6. \A v, w \in rows : v.number = w.number => v = w
        BY <2>2 DEF VersionsAreNumbered
    <2> HIDE DEF rows
    <2>7. number_of \in Bijection(rows, 1 .. latest.number)
        BY <2>2, <2>3, <2>6 DEF Bijection, Injection, Surjection, IsInjective
    <2>8. ExistsBijection(1 .. latest.number, rows)
        BY <2>7, Fun_ExistsBijSymmetric DEF ExistsBijection
    <2>9. IsFiniteSet(1 .. latest.number) /\ Cardinality(1 .. latest.number) = latest.number
        BY <2>5, FS_Interval
    <2>10. Cardinality(rows) = latest.number
        BY <2>8, <2>9, FS_Bijection
    <2>11. Versions!Cardinality(rows) = Cardinality(rows)
        BY DEF Versions!Cardinality, Cardinality
    <2> QED
        BY <2>4, <2>10, <2>11 DEF rows
<1> QED
    BY <1>2, <1>3 DEF VersionsAreNumbered, MarksAreTrue, Versions!VersionsAreAHistory

-----------------------------------------------------------------------------
(* The saved screens and the custom indicators.                            *)
\* Who makes a screen or an indicator, and what a row holds.
Makers == Conversations \cup {Saved!User}
Contents == Definitions \cup ScreenContents
SavedRows == [name : Saved!Names, kept : BOOLEAN, conversation : Makers, content : Contents, by : Makers]

\* A table has the rows 1, 2, ... up to the last one made, without those that are deleted, and each name once.
TableOK(table, last) ==
    /\ table \in [DOMAIN table -> SavedRows] /\ DOMAIN table \subseteq 1 .. last
    /\ \A i, j \in DOMAIN table : table[i].name = table[j].name => i = j
    /\ \A i \in DOMAIN table : table[i].conversation \in chats \cup {Saved!User}

ChangeRecords ==
    [step : {"checked"}, of : {"screen", "indicator"}, id : Saved!Ids, by : Conversations, content : Contents]
\* The types of the requests that change a row, of the conversations and of the row locks.
ChangesOK ==
    /\ change \in [Changes -> {Saved!None} \cup ChangeRecords]
    /\ chats \subseteq Conversations /\ locked_rows \subseteq Saved!Ids

\* A request that changes an indicator has the lock of its row alone, and the row is there and is not kept.
Holds(r) == change[r].step = "checked" /\ change[r].of = "indicator"
LocksAreHeld ==
    /\ \A r \in Changes : Holds(r) =>
        change[r].id \in locked_rows \cap DOMAIN indicators /\ ~indicators[change[r].id].kept
    /\ \A r, q \in Changes : Holds(r) /\ Holds(q) /\ change[r].id = change[q].id => r = q

\* The counts of the rows that were made.
MadeOK ==
    /\ made.screens \in 0 .. MaxRows /\ made.indicators \in 0 .. MaxRows
    /\ made = [screens |-> made.screens, indicators |-> made.indicators]

\* A result and a run name a screen of the table.
ResultsOK ==
    /\ screen_results \subseteq [screen : DOMAIN screens, conversation : chats \cup {Saved!User}]
    /\ run \in [Runs -> {Saved!None} \cup [step : {"running"}, screen : Saved!Ids, by : Makers]]

\* The inductive invariant of the screens and indicators: the row locks are in it because an assistant changes an
\* indicator after it has read that the row is not kept.
SavedIInv ==
    /\ ChangesOK /\ MadeOK /\ LocksAreHeld /\ ResultsOK
    /\ TableOK(screens, made.screens) /\ TableOK(indicators, made.indicators)

\* What the proofs need of the constants.
LEMMA RowCounts == MaxRows \in Nat /\ MaxNames \in Nat
BY ResearchAssumption

\* Empty tables are consistent.
LEMMA SavedInit == Saved!Init => SavedIInv
BY RowCounts
DEF Saved!Init, SavedIInv, ResultsOK, ChangesOK, MadeOK, TableOK, LocksAreHeld, Holds, Saved!None, Saved!Ids

\* A step of this part, as ResearchComponents takes it.
SavedStep == Screens!ScreenStep \/ Saved!IndicatorStep \/ UNCHANGED Saved!screenVars

\* A row that gets a free name keeps the names different.
LEMMA ChangedTable ==
    ASSUME NEW table, NEW last \in 0 .. MaxRows, TableOK(table, last), NEW i \in DOMAIN table, NEW by \in Makers,
           NEW name \in Saved!Names, NEW content \in Contents, Saved!IsFree(table, i, name)
    PROVE  /\ TableOK([table EXCEPT ![i] = Saved!Changed(@, by, name, content)], last)
           /\ Saved!Changed(table[i], by, name, content).kept = table[i].kept
           /\ Saved!Changed(table[i], by, name, content).by = by
<1> DEFINE row1 == Saved!Changed(table[i], by, name, content)
<1>1. row1 \in SavedRows /\ row1.name = name /\ row1.kept = table[i].kept /\ row1.by = by
        /\ row1.conversation = table[i].conversation
    BY DEF TableOK, Saved!Changed, SavedRows
<1> HIDE DEF row1
<1> DEFINE next == [table EXCEPT ![i] = row1]
<1>2. DOMAIN next = DOMAIN table /\ \A j \in DOMAIN table : next[j] = IF j = i THEN row1 ELSE table[j]
    BY DEF TableOK
<1>3. TableOK(next, last)
    BY <1>1, <1>2 DEF TableOK, Saved!IsFree
<1> QED
    BY <1>1, <1>3 DEF row1

\* A new row with a free name.
LEMMA AddedTable ==
    ASSUME NEW table, NEW last \in 0 .. MaxRows, last < MaxRows, TableOK(table, last),
           NEW by \in chats \cup {Saved!User}, NEW name \in Saved!Names, NEW content \in Contents,
                   chats \subseteq Conversations,
           name \notin Saved!NamesOf(table)
    PROVE  /\ TableOK(Saved!Add(table, last + 1, Saved!Row(name, by, content)), last + 1)
           /\ DOMAIN Saved!Add(table, last + 1, Saved!Row(name, by, content)) = DOMAIN table \cup {last + 1}
           /\ \A i \in DOMAIN table : Saved!Add(table, last + 1, Saved!Row(name, by, content))[i] = table[i]
<1> DEFINE row1 == Saved!Row(name, by, content)
<1>1. row1 \in SavedRows /\ row1.name = name /\ row1.conversation = by
    BY DEF Saved!Row, SavedRows, Makers
<1> HIDE DEF row1
<1> DEFINE next == Saved!Add(table, last + 1, row1)
<1>2. /\ DOMAIN next = DOMAIN table \cup {last + 1} /\ last + 1 \notin DOMAIN table
      /\ \A j \in DOMAIN next : next[j] = IF j = last + 1 THEN row1 ELSE table[j]
    BY RowCounts DEF Saved!Add, TableOK
<1>3. next \in [DOMAIN next -> SavedRows] /\ DOMAIN next \subseteq 1 .. last + 1
    BY <1>1, <1>2, RowCounts DEF TableOK, Saved!Add
<1>4. \A j \in DOMAIN table : table[j].name # name
    BY DEF Saved!NamesOf
<1>5. TableOK(next, last + 1)
    BY <1>1, <1>2, <1>3, <1>4 DEF TableOK
<1> QED
    BY <1>2, <1>5 DEF row1

\* A row that the user keeps.
LEMMA KeptTable ==
    ASSUME NEW table, NEW last \in 0 .. MaxRows, TableOK(table, last), NEW i \in DOMAIN table
    PROVE  TableOK([table EXCEPT ![i].kept = TRUE], last)
<1> DEFINE row1 == [table[i] EXCEPT !.kept = TRUE]
<1>1. row1 \in SavedRows /\ row1.name = table[i].name /\ row1.conversation = table[i].conversation
    BY DEF TableOK, SavedRows
<1> HIDE DEF row1
<1> DEFINE next == [table EXCEPT ![i] = row1]
<1>2. [table EXCEPT ![i].kept = TRUE] = next
    BY DEF row1
<1>3. DOMAIN next = DOMAIN table /\ \A j \in DOMAIN table : next[j] = IF j = i THEN row1 ELSE table[j]
    BY DEF TableOK
<1>4. TableOK(next, last)
    BY <1>1, <1>3 DEF TableOK
<1> QED
    BY <1>2, <1>4

\* What a delete of the conversation c does to a row.
Forget(row1, c) == [row1 EXCEPT !.conversation = IF @ = c THEN Saved!User ELSE @]
\* After the delete, no row names the conversation.
LEMMA ForgottenTable ==
    ASSUME NEW table, NEW last \in 0 .. MaxRows, TableOK(table, last), NEW c \in chats, chats' = chats \ {c},
           chats \subseteq Conversations, NEW next, next = [i \in DOMAIN table |-> Forget(table[i], c)]
    PROVE  /\ DOMAIN next = DOMAIN table
           /\ \A i \in DOMAIN table :
                next[i].kept = table[i].kept /\ next[i].content = table[i].content
           /\ next \in [DOMAIN next -> SavedRows] /\ DOMAIN next \subseteq 1 .. last
           /\ \A i, j \in DOMAIN next : next[i].name = next[j].name => i = j
           /\ \A i \in DOMAIN next : next[i].conversation \in chats' \cup {Saved!User}
<1>1. \A i \in DOMAIN table : table[i] \in SavedRows /\ table[i].conversation \in chats \cup {Saved!User}
    BY DEF TableOK
<1>2. \A row1 \in SavedRows : /\ Forget(row1, c).name = row1.name
                              /\ Forget(row1, c).kept = row1.kept /\ Forget(row1, c).content = row1.content
                              /\ Forget(row1, c).by = row1.by
                              /\ Forget(row1, c).conversation =
                                      IF row1.conversation = c THEN Saved!User ELSE row1.conversation
                              /\ Forget(row1, c) \in SavedRows
    BY DEF Forget, SavedRows, Makers
<1> QED
    BY <1>1, <1>2 DEF TableOK

\* The screens with their own contents take the steps of the same module.
LEMMA ScreensAreSaved ==
    ASSUME NEW by, NEW content, NEW r, NEW i, NEW c, NEW name
    PROVE  /\ Screens!CreateScreen(by, content) => Saved!CreateScreen(by, content)
           /\ Screens!StartRun(r, i, by) => Saved!StartRun(r, i, by)
           /\ Screens!KeepScreen(i) => Saved!KeepScreen(i)
           /\ Screens!DeleteScreen(i) => Saved!DeleteScreen(i)
           /\ Screens!ChangeScreen(i, name, content) => Saved!ChangeScreen(i, name, content)
           /\ Screens!ReadScreen(r, i, c, content) => Saved!ReadScreen(r, i, c, content)
           /\ Screens!UpdateScreen(r, name) => Saved!UpdateScreen(r, name)
           /\ Screens!SaveResult(r) => Saved!SaveResult(r)
           /\ Screens!DeleteConversation(c) => Saved!DeleteConversation(c)
<1> USE DEF Screens!Ids, Screens!User, Screens!Names, Screens!None, Saved!Ids, Saved!User, Saved!Names, Saved!None
<1>1. Screens!CreateScreen(by, content) => Saved!CreateScreen(by, content)
    BY DEF Screens!CreateScreen, Screens!FirstFree, Screens!NamesOf, Screens!Add, Screens!Row,
        Saved!CreateScreen, Saved!FirstFree, Saved!NamesOf, Saved!Add, Saved!Row
<1>2. /\ Screens!KeepScreen(i) => Saved!KeepScreen(i)
      /\ Screens!StartRun(r, i, by) => Saved!StartRun(r, i, by)
      /\ Screens!DeleteScreen(i) => Saved!DeleteScreen(i)
    BY DEF Screens!KeepScreen, Screens!StartRun, Screens!DeleteScreen, Screens!Remove,
        Saved!KeepScreen, Saved!StartRun, Saved!DeleteScreen, Saved!Remove
<1>3. Screens!ChangeScreen(i, name, content) => Saved!ChangeScreen(i, name, content)
    BY DEF Screens!ChangeScreen, Screens!IsFree, Screens!Changed, Saved!ChangeScreen, Saved!IsFree, Saved!Changed
<1>4. Screens!ReadScreen(r, i, c, content) => Saved!ReadScreen(r, i, c, content)
    BY DEF Screens!ReadScreen, Screens!MayChange, Saved!ReadScreen, Saved!MayChange
<1>5. Screens!UpdateScreen(r, name) => Saved!UpdateScreen(r, name)
    BY DEF Screens!UpdateScreen, Screens!IsFree, Screens!Changed, Saved!UpdateScreen, Saved!IsFree, Saved!Changed
<1>6. Screens!SaveResult(r) => Saved!SaveResult(r)
    BY DEF Screens!SaveResult, Saved!SaveResult
<1>7. Screens!DeleteConversation(c) => Saved!DeleteConversation(c)
    BY DEF Screens!DeleteConversation, Saved!DeleteConversation
<1> QED
    BY <1>1, <1>2, <1>3, <1>4, <1>5, <1>6, <1>7

\* A kept indicator is not changed or deleted by the assistant.
IndicatorStays == Saved!KeptStays(indicators, indicators')

\* A step that leaves the indicators and their locks alone.
LEMMA SameIndicators ==
    ASSUME SavedIInv, UNCHANGED <<indicators, locked_rows, change>>
    PROVE  LocksAreHeld' /\ IndicatorStays
BY DEF SavedIInv, LocksAreHeld, Holds, IndicatorStays, Saved!KeptStays

\* The steps of the screens and their results.
LEMMA ScreenStepIsOK ==
    ASSUME SavedIInv, Screens!ScreenStep, \A c \in Conversations : ~Screens!DeleteConversation(c)
    PROVE  SavedIInv' /\ IndicatorStays
<1> USE RowCounts DEF SavedIInv
<1>1. ASSUME NEW by \in Conversations \cup {Saved!User}, NEW content \in ScreenContents, Saved!CreateScreen(by, content)
      PROVE  SavedIInv' /\ IndicatorStays
    <2>1. UNCHANGED <<indicators, screen_results, chats, change, run, locked_rows>>
        BY <1>1 DEF Saved!CreateScreen
    <2>2. PICK name \in IF by = Saved!User THEN {0} \ Saved!NamesOf(screens) ELSE Saved!FirstFree(screens) :
            screens' = Saved!Add(screens, made.screens + 1, Saved!Row(name, by, content))
        BY <1>1 DEF Saved!CreateScreen
    <2>3. name \in Saved!Names /\ name \notin Saved!NamesOf(screens)
        BY <2>2 DEF Saved!FirstFree, Saved!Names
    <2>4. made.screens < MaxRows /\ by \in chats \cup {Saved!User} /\ made' = [made EXCEPT !.screens = @ + 1]
        BY <1>1 DEF Saved!CreateScreen
    <2>5. made'.screens = made.screens + 1 /\ made'.indicators = made.indicators /\ MadeOK'
        BY <2>4 DEF MadeOK
    <2>6. TableOK(screens', made.screens + 1) /\ DOMAIN screens \subseteq DOMAIN screens'
        <3>1. made.screens \in 0 .. MaxRows /\ content \in Contents /\ chats \subseteq Conversations
            BY DEF MadeOK, Contents, ChangesOK
        <3>2. /\ TableOK(Saved!Add(screens, made.screens + 1, Saved!Row(name, by, content)), made.screens + 1)
              /\ DOMAIN Saved!Add(screens, made.screens + 1, Saved!Row(name, by, content))
                      = DOMAIN screens \cup {made.screens + 1}
            BY <2>3, <2>4, <3>1, AddedTable
        <3> QED
            BY <2>2, <3>2
    <2> QED
        BY <2>1, <2>5, <2>6, SameIndicators DEF TableOK, ChangesOK, ResultsOK
<1>2. ASSUME NEW r \in Runs, NEW i \in Saved!Ids, NEW by \in Conversations \cup {Saved!User}, Saved!StartRun(r, i, by)
      PROVE  SavedIInv' /\ IndicatorStays
    <2>1. UNCHANGED <<screens, indicators, made, screen_results, chats, change, locked_rows>>
        BY <1>2 DEF Saved!StartRun
    <2>2. run' \in [Runs -> {Saved!None} \cup [step : {"running"}, screen : Saved!Ids, by : Makers]]
        BY <1>2 DEF Saved!StartRun, ResultsOK, Makers
    <2> QED
        BY <2>1, <2>2, SameIndicators DEF TableOK, ChangesOK, MadeOK, ResultsOK
<1>3. ASSUME UNCHANGED <<indicators, made, screen_results, chats, run, locked_rows>>, DOMAIN screens' = DOMAIN screens,
             TableOK(screens', made.screens),
             \/ UNCHANGED change
             \/ \E r \in Changes : change[r].of = "screen" /\ change[r].step = "checked"
                     /\ change' = [change EXCEPT ![r] = Saved!None]
             \/ \E r \in Changes,
                     c \in [step : {"checked"}, of : {"screen"}, id : Saved!Ids, by : Conversations, content : Contents] :
                    change[r] = Saved!None /\ change' = [change EXCEPT ![r] = c]
      PROVE  SavedIInv' /\ IndicatorStays
    <2>1. ChangesOK' /\ \A r \in Changes : Holds(r)' => Holds(r) /\ change'[r] = change[r]
        BY <1>3 DEF ChangesOK, ChangeRecords, Holds, Saved!None
    <2>2. LocksAreHeld' /\ IndicatorStays
        BY <1>3, <2>1 DEF LocksAreHeld, IndicatorStays, Saved!KeptStays, Holds
    <2> QED
        BY <1>3, <2>1, <2>2 DEF TableOK, MadeOK, ResultsOK
<1>4. ASSUME NEW i \in Saved!Ids, Saved!KeepScreen(i) PROVE SavedIInv' /\ IndicatorStays
    <2>1. i \in DOMAIN screens /\ screens' = [screens EXCEPT ![i].kept = TRUE]
            /\ UNCHANGED <<indicators, made, screen_results, chats, change, run, locked_rows>>
        BY <1>4 DEF Saved!KeepScreen
    <2> QED
        BY <1>3, <2>1, KeptTable DEF MadeOK
<1>5. ASSUME NEW i \in Saved!Ids, Saved!DeleteScreen(i) PROVE SavedIInv' /\ IndicatorStays
    <2>1. /\ i \in DOMAIN screens /\ screens' = [j \in DOMAIN screens \ {i} |-> screens[j]]
          /\ screen_results' = {x \in screen_results : x.screen # i}
          /\ UNCHANGED <<indicators, made, chats, change, run, locked_rows>>
        BY <1>5 DEF Saved!DeleteScreen, Saved!Remove
    <2>2. TableOK(screens', made.screens)
        BY <2>1 DEF TableOK
    <2>3. screen_results' \subseteq [screen : DOMAIN screens', conversation : chats \cup {Saved!User}]
        BY <2>1 DEF ResultsOK
    <2> QED
        BY <2>1, <2>2, <2>3, SameIndicators DEF TableOK, ChangesOK, MadeOK, ResultsOK
<1>6. ASSUME NEW i \in Saved!Ids, NEW name \in Saved!Names, NEW content \in ScreenContents,
             Saved!ChangeScreen(i, name, content)
      PROVE  SavedIInv' /\ IndicatorStays
    <2>1. /\ i \in DOMAIN screens /\ Saved!IsFree(screens, i, name)
          /\ screens' = [screens EXCEPT ![i] = Saved!Changed(@, Saved!User, name, content)]
          /\ UNCHANGED <<indicators, made, screen_results, chats, change, run, locked_rows>>
        BY <1>6 DEF Saved!ChangeScreen
    <2>2. TableOK(screens', made.screens)
        BY <2>1, ChangedTable DEF MadeOK, Makers, Contents
    <2> QED
        BY <1>3, <2>1, <2>2
<1>7. ASSUME NEW r \in Changes, NEW i \in Saved!Ids, NEW c \in Conversations, NEW content \in ScreenContents,
             Saved!ReadScreen(r, i, c, content)
      PROVE  SavedIInv' /\ IndicatorStays
    <2> DEFINE record == [step |-> "checked", of |-> "screen", id |-> i, by |-> c, content |-> content]
    <2>1. /\ change[r] = Saved!None /\ change' = [change EXCEPT ![r] = record]
          /\ UNCHANGED <<screens, indicators, made, screen_results, chats, run, locked_rows>>
        BY <1>7 DEF Saved!ReadScreen
    <2>2. record \in [step : {"checked"}, of : {"screen"}, id : Saved!Ids, by : Conversations, content : Contents]
        BY DEF Contents
    <2> HIDE DEF record
    <2>3. TableOK(screens', made.screens)
        BY <2>1 DEF TableOK
    <2> QED
        BY <1>3, <2>1, <2>2, <2>3
<1>8. ASSUME NEW r \in Changes, NEW name \in Saved!Names, Saved!UpdateScreen(r, name)
      PROVE  SavedIInv' /\ IndicatorStays
    <2>1. /\ change[r].step = "checked" /\ change[r].of = "screen" /\ change' = [change EXCEPT ![r] = Saved!None]
          /\ screens' = IF change[r].id \in DOMAIN screens /\ Saved!IsFree(screens, change[r].id, name)
                        THEN [screens EXCEPT ![change[r].id] = Saved!Changed(@, change[r].by, name, change[r].content)]
                        ELSE screens
          /\ UNCHANGED <<indicators, made, screen_results, chats, run, locked_rows>>
        BY <1>8 DEF Saved!UpdateScreen
    <2>2. change[r].by \in Makers /\ change[r].content \in Contents
        BY <2>1 DEF ChangesOK, ChangeRecords, Saved!None, Makers
    <2>3. CASE change[r].id \in DOMAIN screens /\ Saved!IsFree(screens, change[r].id, name)
        <3>1. TableOK(screens', made.screens) /\ DOMAIN screens' = DOMAIN screens
            BY <2>1, <2>2, <2>3, ChangedTable DEF MadeOK
        <3> QED
            BY <1>3, <2>1, <3>1
    <2>4. CASE ~(change[r].id \in DOMAIN screens /\ Saved!IsFree(screens, change[r].id, name))
        <3>1. TableOK(screens', made.screens) /\ screens' = screens
            BY <2>1, <2>4 DEF TableOK
        <3> QED
            BY <1>3, <2>1, <3>1
    <2> QED
        BY <2>3, <2>4
<1>9. ASSUME NEW r \in Runs, Saved!SaveResult(r) PROVE SavedIInv' /\ IndicatorStays
    <2> DEFINE saved_result == [screen |-> run[r].screen, conversation |-> run[r].by]
    <2>1. /\ screen_results' = IF saved_result.screen \in DOMAIN screens
            /\ saved_result.conversation \in chats \cup {Saved!User}
                               THEN screen_results \cup {saved_result} ELSE screen_results
          /\ run' = [run EXCEPT ![r] = Saved!None]
          /\ UNCHANGED <<screens, indicators, made, chats, change, locked_rows>>
        BY <1>9 DEF Saved!SaveResult
    <2>2. screen_results' \subseteq [screen : DOMAIN screens, conversation : chats \cup {Saved!User}]
        BY <2>1 DEF ResultsOK
    <2>3. run' \in [Runs -> {Saved!None} \cup [step : {"running"}, screen : Saved!Ids, by : Makers]]
        BY <2>1 DEF ResultsOK
    <2> QED
        BY <2>1, <2>2, <2>3, SameIndicators DEF TableOK, ChangesOK, MadeOK, ResultsOK
<1> QED
    BY <1>1, <1>2, <1>4, <1>5, <1>6, <1>7, <1>8, <1>9, ScreensAreSaved
    DEF Screens!ScreenStep, Screens!User, Saved!User, Screens!Ids, Saved!Ids, Screens!Names, Saved!Names

\* The delete of a conversation, which is one step of both tables.
LEMMA ConversationStepIsOK ==
    ASSUME SavedIInv, NEW c \in Conversations, Saved!DeleteConversation(c)
    PROVE  SavedIInv' /\ IndicatorStays
<1> USE RowCounts DEF SavedIInv
<1>1. /\ c \in chats /\ chats' = chats \ {c} /\ UNCHANGED <<made, change, run, locked_rows>>
      /\ screens' = [i \in DOMAIN screens |-> Forget(screens[i], c)]
      /\ indicators' = [i \in DOMAIN indicators |-> Forget(indicators[i], c)]
      /\ screen_results' = {Forget(x, c) : x \in screen_results}
    BY DEF Saved!DeleteConversation, Forget
<1>2. chats \subseteq Conversations /\ made.screens \in 0 .. MaxRows /\ made.indicators \in 0 .. MaxRows
    BY DEF ChangesOK, MadeOK
<1>3. /\ DOMAIN screens' = DOMAIN screens
      /\ screens' \in [DOMAIN screens' -> SavedRows] /\ DOMAIN screens' \subseteq 1 .. made.screens
      /\ \A i, j \in DOMAIN screens' : screens'[i].name = screens'[j].name => i = j
      /\ \A i \in DOMAIN screens' : screens'[i].conversation \in chats' \cup {Saved!User}
    BY <1>1, <1>2, ForgottenTable
<1>4. /\ DOMAIN indicators' = DOMAIN indicators
      /\ \A i \in DOMAIN indicators :
            indicators'[i].kept = indicators[i].kept /\ indicators'[i].content = indicators[i].content
      /\ indicators' \in [DOMAIN indicators' -> SavedRows] /\ DOMAIN indicators' \subseteq 1 .. made.indicators
      /\ \A i, j \in DOMAIN indicators' : indicators'[i].name = indicators'[j].name => i = j
      /\ \A i \in DOMAIN indicators' : indicators'[i].conversation \in chats' \cup {Saved!User}
    BY <1>1, <1>2, ForgottenTable
<1>5. TableOK(screens, made.screens)' /\ TableOK(indicators, made.indicators)'
    BY <1>1, <1>3, <1>4 DEF TableOK
<1>6. ResultsOK'
    <2>1. ASSUME NEW x \in screen_results
          PROVE  Forget(x, c) \in [screen : DOMAIN screens, conversation : (chats \ {c}) \cup {Saved!User}]
        <3>1. x \in [screen : DOMAIN screens, conversation : chats \cup {Saved!User}]
            BY DEF ResultsOK
        <3> QED
            BY <3>1 DEF Forget
    <2> QED
        BY <1>1, <1>3, <2>1 DEF ResultsOK
<1>7. LocksAreHeld' /\ IndicatorStays
    BY <1>1, <1>4 DEF LocksAreHeld, Holds, IndicatorStays, Saved!KeptStays
<1> QED
    BY <1>1, <1>3, <1>4, <1>5, <1>6, <1>7 DEF ChangesOK, MadeOK, TableOK

\* The steps of the custom indicators and their row locks.
LEMMA IndicatorStepIsOK ==
    ASSUME SavedIInv, Saved!IndicatorStep, \A c \in Conversations : ~Saved!DeleteConversation(c)
    PROVE  SavedIInv' /\ IndicatorStays
<1> USE RowCounts DEF SavedIInv
<1>1. ASSUME UNCHANGED <<screens, screen_results, chats, run>>, made'.screens = made.screens, MadeOK', ChangesOK',
             TableOK(indicators', made'.indicators), LocksAreHeld', IndicatorStays
      PROVE  SavedIInv' /\ IndicatorStays
    BY <1>1 DEF TableOK, ResultsOK
<1>2. ASSUME NEW by \in Conversations \cup {Saved!User}, NEW name \in Saved!Names, NEW content \in Definitions,
             Saved!CreateIndicator(by, name, content)
      PROVE  SavedIInv' /\ IndicatorStays
    <2>1. /\ made.indicators < MaxRows /\ by \in chats \cup {Saved!User} /\ name \notin Saved!NamesOf(indicators)
          /\ indicators' = Saved!Add(indicators, made.indicators + 1, Saved!Row(name, by, content))
          /\ made' = [made EXCEPT !.indicators = @ + 1]
          /\ UNCHANGED <<screens, screen_results, chats, change, run, locked_rows>>
        BY <1>2 DEF Saved!CreateIndicator
    <2>2. made'.indicators = made.indicators + 1 /\ made'.screens = made.screens /\ MadeOK'
        BY <2>1 DEF MadeOK
    <2>3. made.indicators \in 0 .. MaxRows /\ content \in Contents /\ chats \subseteq Conversations
        BY DEF MadeOK, Contents, ChangesOK
    <2> DEFINE next == Saved!Add(indicators, made.indicators + 1, Saved!Row(name, by, content))
    <2>4. /\ TableOK(next, made.indicators + 1) /\ DOMAIN next = DOMAIN indicators \cup {made.indicators + 1}
          /\ \A i \in DOMAIN indicators : next[i] = indicators[i]
        BY <2>1, <2>3, AddedTable
    <2> HIDE DEF next
    <2>5. indicators' = next
        BY <2>1 DEF next
    <2>6. LocksAreHeld' /\ IndicatorStays
        BY <2>1, <2>4, <2>5 DEF LocksAreHeld, Holds, IndicatorStays, Saved!KeptStays
    <2>7. ChangesOK'
        BY <2>1 DEF ChangesOK
    <2> QED
        BY <1>1, <2>1, <2>2, <2>4, <2>5, <2>6, <2>7
<1>3. ASSUME NEW i \in Saved!Ids, Saved!KeepIndicator(i) \/ Saved!DeleteIndicator(i)
      PROVE  SavedIInv' /\ IndicatorStays
    <2>1. /\ i \in DOMAIN indicators \ locked_rows
          /\ UNCHANGED <<screens, made, screen_results, chats, change, run, locked_rows>>
        BY <1>3 DEF Saved!KeepIndicator, Saved!DeleteIndicator
    <2>2. ChangesOK' /\ MadeOK'
        BY <2>1 DEF ChangesOK, MadeOK
    <2>3. CASE Saved!KeepIndicator(i)
        <3>1. indicators' = [indicators EXCEPT ![i].kept = TRUE]
            BY <2>3 DEF Saved!KeepIndicator
        <3>2. TableOK(indicators', made.indicators)
            BY <2>1, <3>1, KeptTable DEF MadeOK
        <3>3. /\ DOMAIN indicators' = DOMAIN indicators
              /\ \A j \in DOMAIN indicators : j # i => indicators'[j] = indicators[j]
              /\ indicators'[i].kept /\ indicators'[i].content = indicators[i].content
            BY <2>1, <3>1 DEF TableOK, SavedRows
        <3>4. LocksAreHeld' /\ IndicatorStays
            BY <2>1, <3>3 DEF LocksAreHeld, Holds, IndicatorStays, Saved!KeptStays
        <3> QED
            BY <1>1, <2>1, <2>2, <3>2, <3>4
    <2>4. CASE Saved!DeleteIndicator(i)
        <3>1. indicators' = [j \in DOMAIN indicators \ {i} |-> indicators[j]]
            BY <2>4 DEF Saved!DeleteIndicator, Saved!Remove
        <3>2. TableOK(indicators', made.indicators)
            BY <2>1, <3>1 DEF TableOK
        <3>3. LocksAreHeld' /\ IndicatorStays
            BY <2>1, <3>1 DEF LocksAreHeld, Holds, IndicatorStays, Saved!KeptStays
        <3> QED
            BY <1>1, <2>1, <2>2, <3>2, <3>3
    <2> QED
        BY <1>3, <2>3, <2>4
<1>4. ASSUME NEW i \in Saved!Ids, NEW name \in Saved!Names, NEW content \in Definitions,
             Saved!ChangeIndicator(i, name, content)
      PROVE  SavedIInv' /\ IndicatorStays
    <2>1. /\ i \in DOMAIN indicators \ locked_rows /\ Saved!IsFree(indicators, i, name)
          /\ indicators' = [indicators EXCEPT ![i] = Saved!Changed(@, Saved!User, name, content)]
          /\ UNCHANGED <<screens, made, screen_results, chats, change, run, locked_rows>>
        BY <1>4 DEF Saved!ChangeIndicator
    <2>2. ChangesOK' /\ MadeOK' /\ made.indicators \in 0 .. MaxRows /\ Saved!User \in Makers /\ content \in Contents
        BY <2>1 DEF ChangesOK, MadeOK, Makers, Contents
    <2>3. /\ TableOK(indicators', made.indicators)
          /\ Saved!Changed(indicators[i], Saved!User, name, content).kept = indicators[i].kept
          /\ Saved!Changed(indicators[i], Saved!User, name, content).by = Saved!User
        <3> DEFINE next == [indicators EXCEPT ![i] = Saved!Changed(@, Saved!User, name, content)]
        <3>1. /\ TableOK(next, made.indicators)
              /\ Saved!Changed(indicators[i], Saved!User, name, content).kept = indicators[i].kept
              /\ Saved!Changed(indicators[i], Saved!User, name, content).by = Saved!User
            <4>1. TableOK(indicators, made.indicators) /\ i \in DOMAIN indicators
                BY <2>1
            <4> HIDE DEF SavedIInv
            <4>2. TableOK(next, made.indicators)
                BY <2>1, <2>2, <4>1, ChangedTable
            <4>3. indicators[i] \in SavedRows
                BY <4>1 DEF TableOK
            <4> QED
                BY <4>2, <4>3 DEF Saved!Changed, SavedRows
        <3> QED
            BY <2>1, <3>1
    <2>4. /\ DOMAIN indicators' = DOMAIN indicators
          /\ \A j \in DOMAIN indicators : j # i => indicators'[j] = indicators[j]
          /\ indicators'[i].kept = indicators[i].kept /\ indicators'[i].by = Saved!User
        BY <2>1, <2>3 DEF TableOK
    <2>5. LocksAreHeld' /\ IndicatorStays
        BY <2>1, <2>4 DEF LocksAreHeld, Holds, IndicatorStays, Saved!KeptStays
    <2> QED
        BY <1>1, <2>1, <2>2, <2>3, <2>5
<1>5. ASSUME NEW r \in Changes, NEW i \in Saved!Ids, NEW c \in Conversations, NEW content \in Definitions,
             Saved!LockIndicator(r, i, c, content)
      PROVE  SavedIInv' /\ IndicatorStays
    <2> DEFINE record == [step |-> "checked", of |-> "indicator", id |-> i, by |-> c, content |-> content]
    <2>1. /\ change[r] = Saved!None /\ i \in DOMAIN indicators \ locked_rows /\ ~indicators[i].kept
          /\ change' = [change EXCEPT ![r] = record] /\ locked_rows' = locked_rows \cup {i}
          /\ UNCHANGED <<screens, indicators, made, screen_results, chats, run>>
        BY <1>5 DEF Saved!LockIndicator, Saved!MayChange, Saved!LockedFor
    <2>2. record \in ChangeRecords /\ record.id = i
        BY DEF ChangeRecords, Contents
    <2> HIDE DEF record
    <2>3. ChangesOK' /\ MadeOK' /\ TableOK(indicators', made'.indicators)
        BY <2>1, <2>2 DEF ChangesOK, MadeOK, TableOK
    <2>4. change' \in [Changes -> {Saved!None} \cup ChangeRecords]
            /\ \A q \in Changes : change'[q] = IF q = r THEN record ELSE change[q]
        BY <2>1, <2>2 DEF ChangesOK
    <2>5. LocksAreHeld' /\ IndicatorStays
        BY <2>1, <2>2, <2>4 DEF LocksAreHeld, Holds, IndicatorStays, Saved!KeptStays
    <2> QED
        BY <1>1, <2>1, <2>3, <2>5
<1>6. ASSUME NEW r \in Changes, NEW name \in Saved!Names, Saved!UpdateIndicator(r, name)
      PROVE  SavedIInv' /\ IndicatorStays
    <2> DEFINE i == change[r].id
    <2>1. /\ Holds(r) /\ change' = [change EXCEPT ![r] = Saved!None] /\ locked_rows' = locked_rows \ {i}
          /\ indicators' = IF i \in DOMAIN indicators /\ Saved!IsFree(indicators, i, name)
                           THEN [indicators EXCEPT ![i] = Saved!Changed(@, change[r].by, name, change[r].content)]
                           ELSE indicators
          /\ UNCHANGED <<screens, made, screen_results, chats, run>>
        BY <1>6 DEF Saved!UpdateIndicator, Holds
    <2>2. /\ i \in DOMAIN indicators /\ ~indicators[i].kept /\ change[r].by \in Makers /\ change[r].content \in Contents
          /\ made.indicators \in 0 .. MaxRows
        BY <2>1 DEF LocksAreHeld, Holds, ChangesOK, ChangeRecords, Saved!None, Makers, MadeOK
    <2> HIDE DEF i
    <2>3. /\ TableOK(indicators', made.indicators) /\ DOMAIN indicators' = DOMAIN indicators
          /\ \A j \in DOMAIN indicators : j # i => indicators'[j] = indicators[j]
        <3>1. CASE Saved!IsFree(indicators, i, name)
            <4>1. TableOK([indicators EXCEPT ![i] = Saved!Changed(@, change[r].by, name, change[r].content)],
                    made.indicators)
                BY <2>2, <3>1, ChangedTable
            <4> QED
                BY <2>1, <2>2, <3>1, <4>1 DEF TableOK
        <3>2. CASE ~Saved!IsFree(indicators, i, name)
            BY <2>1, <3>2
        <3> QED
            BY <3>1, <3>2
    <2>4. \A q \in Changes : Holds(q)' => q # r /\ Holds(q) /\ change'[q] = change[q] /\ change[q].id # i
        BY <2>1 DEF ChangesOK, LocksAreHeld, Holds, Saved!None, i
    <2>5. LocksAreHeld' /\ IndicatorStays
        BY <2>1, <2>2, <2>3, <2>4 DEF LocksAreHeld, IndicatorStays, Saved!KeptStays, Holds
    <2>6. ChangesOK' /\ MadeOK'
        BY <2>1 DEF ChangesOK, MadeOK
    <2> QED
        BY <1>1, <2>1, <2>3, <2>5, <2>6
<1> QED
    BY <1>2, <1>3, <1>4, <1>5, <1>6 DEF Saved!IndicatorStep

\* Each step of this part keeps the invariant, and keeps what the user keeps.
LEMMA SavedStepIsOK == SavedIInv /\ SavedStep => SavedIInv' /\ IndicatorStays
<1> SUFFICES ASSUME SavedIInv, SavedStep PROVE SavedIInv' /\ IndicatorStays
    OBVIOUS
<1>1. CASE UNCHANGED Saved!screenVars
    BY <1>1, SameIndicators DEF Saved!screenVars, SavedIInv, ChangesOK, MadeOK, ResultsOK, TableOK
<1>2. ASSUME NEW c \in Conversations, Screens!DeleteConversation(c) PROVE SavedIInv' /\ IndicatorStays
    BY <1>2, ScreensAreSaved, ConversationStepIsOK
<1> QED
    BY <1>1, <1>2, ConversationStepIsOK, ScreenStepIsOK, IndicatorStepIsOK DEF SavedStep

\* The invariant has what SavedWorkInv says of the screens and indicators.
LEMMA SavedIsEnough == SavedIInv => Saved!ScreensTypeOK /\ Saved!RowsAreConsistent
<1> SUFFICES ASSUME SavedIInv PROVE Saved!ScreensTypeOK /\ Saved!RowsAreConsistent
    OBVIOUS
<1>1. \A r \in Changes : change[r].step \in {"none", "checked"}
    BY DEF SavedIInv, ChangesOK, ChangeRecords, Saved!None
<1>2. Saved!ScreensTypeOK
    BY <1>1, RowCounts DEF SavedIInv, ChangesOK, MadeOK, TableOK, Saved!ScreensTypeOK, Saved!Ids
<1>3. \A x \in screen_results : x.screen \in DOMAIN screens /\ x.conversation \in chats \cup {Saved!User}
    BY DEF SavedIInv, ResultsOK
<1> QED
    BY <1>2, <1>3 DEF SavedIInv, TableOK, Saved!RowsAreConsistent

-----------------------------------------------------------------------------
(* The runs of a conversation.                                             *)
\* The steps between the start of a run in the service and its end.
Working == {"opening", "creating", "prompting"}

\* The active run is exactly the one that works, and a run that Web did not send yet did not start.
ActiveRunWorks ==
    /\ service \in [Conversation!MessageRuns -> {"none", "sent", "ended"} \cup Working]
    /\ \A r \in Conversation!MessageRuns : service[r] \in Working <=> active = r
    /\ active \in Conversation!MessageRuns \cup {Conversation!None}
    /\ \A r \in Conversation!MessageRuns : assistant_web[r] \in {"none", "preparing"} => service[r] = "none"
    /\ \A r \in Conversation!MessageRuns : r > messages => assistant_web[r] = "none"

\* A renamed conversation has the title of the user.
TitleIsOfUser ==
    /\ title \in {"start", "generated", "of_user"}
    /\ title_state \in {"new", "generating", "generated", "not_generated", "renamed"}
    /\ title_state = "renamed" => title = "of_user"

\* The types of the delete of the conversation.
DeleteOK ==
    /\ waits \in Conversation!MessageRuns \cup {Conversation!None}
    /\ delete \in {"none", "asked", "aborting", "waiting", "row", "done"}

\* The types of the sockets of the chat page and the tasks of the Web process.
PageOK ==
    /\ messages \in 0 .. MaxRuns
    /\ socket \in [Sockets -> {"open", "leaving", "closed"}]
    /\ is_running \subseteq Sockets
    /\ owner \in [Conversation!MessageRuns -> Sockets]
    /\ assistant_web \in [Conversation!MessageRuns ->
            {"none", "preparing", "streaming", "answered", "settled", "title", "ending_title", "ended"}]

\* The inductive invariant of the conversation. OneRunWrites alone is not inductive: a run that works must be the active
\* one, and a run that waits for its model must not be started after it was stopped.
RunsIInv == Conversation!FlagsOK /\ ActiveRunWorks /\ TitleIsOfUser /\ DeleteOK /\ PageOK

\* A new conversation has no run.
LEMMA RunsInit == Conversation!Init => RunsIInv
<1> SUFFICES ASSUME Conversation!Init PROVE RunsIInv
    OBVIOUS
<1>1. Conversation!FlagsOK
    BY DEF Conversation!Init, Conversation!FlagsOK
<1>2. ActiveRunWorks
    BY DEF Conversation!Init, ActiveRunWorks, Working, Conversation!MessageRuns, Conversation!None
<1>3. TitleIsOfUser /\ DeleteOK
    BY DEF Conversation!Init, TitleIsOfUser, DeleteOK
<1>4. PageOK
    <2>1. owner \in [Conversation!MessageRuns -> Sockets]
        BY ResearchAssumption DEF Conversation!Init
    <2>2. MaxRuns \in Nat /\ messages = 0
        BY ResearchAssumption DEF Conversation!Init
    <2> QED
        BY <2>1, <2>2 DEF Conversation!Init, PageOK
<1> QED
    BY <1>1, <1>2, <1>3, <1>4 DEF RunsIInv

\* The Boolean variables keep their type.
LEMMA FlagsStep == Conversation!FlagsOK /\ [Conversation!Next]_(Conversation!assistant) => Conversation!FlagsOK'
<1> SUFFICES ASSUME Conversation!FlagsOK, [Conversation!Next]_(Conversation!assistant) PROVE Conversation!FlagsOK'
    OBVIOUS
<1> USE DEF Conversation!FlagsOK, Conversation!assistant, Conversation!rows, Conversation!page, Conversation!run,
            Conversation!deletion, Conversation!Abort, Conversation!EndRun
<1>1. ASSUME NEW s \in Sockets,
             Conversation!Prompt(s) \/ Conversation!StopRun(s) \/ Conversation!Leave(s) \/ Conversation!StopActiveRun(s)
      PROVE  Conversation!FlagsOK'
    BY <1>1 DEF Conversation!Prompt, Conversation!StopRun, Conversation!Leave, Conversation!StopActiveRun
<1>2. ASSUME NEW r \in Conversation!MessageRuns, Conversation!WebStep(r)
      PROVE  Conversation!FlagsOK'
    BY <1>2 DEF Conversation!WebStep, Conversation!SendRun, Conversation!Settle, Conversation!ClaimTitle,
        Conversation!EndTitle
<1>3. ASSUME NEW r \in Conversation!MessageRuns,
             Conversation!ServiceStep(r) \/ Conversation!Answer(r) \/ Conversation!EndPrompt(r)
      PROVE  Conversation!FlagsOK'
    BY <1>3 DEF Conversation!ServiceStep, Conversation!ReceiveRun, Conversation!OpenModel, Conversation!CreateSession,
        Conversation!Answer, Conversation!EndPrompt
<1>4. CASE Conversation!Rename \/ Conversation!WebEnds \/ UNCHANGED Conversation!assistant
    BY <1>4 DEF Conversation!Rename, Conversation!WebEnds
<1>5. CASE Conversation!AskDelete \/ Conversation!DeleteAborts \/ Conversation!DeleteWaits \/ Conversation!DeleteRow
    BY <1>5 DEF Conversation!AskDelete, Conversation!DeleteAborts, Conversation!DeleteWaits, Conversation!DeleteRow
<1> QED
    BY <1>1, <1>2, <1>3, <1>4, <1>5 DEF Conversation!Next

\* What the proofs need of the constants.
LEMMA RunNumbers == MaxRuns \in Nat /\ Conversation!None \notin Conversation!MessageRuns
BY ResearchAssumption DEF Conversation!MessageRuns, Conversation!None

\* A prompt is of a new run.
LEMMA NextRun == messages \in 0 .. MaxRuns /\ messages < MaxRuns => messages + 1 \in Conversation!MessageRuns
BY RunNumbers DEF Conversation!MessageRuns

\* The types of the page and of the tasks are kept.
LEMMA PageStep == PageOK /\ [Conversation!Next]_(Conversation!assistant) => PageOK'
<1> SUFFICES ASSUME PageOK, [Conversation!Next]_(Conversation!assistant) PROVE PageOK'
    OBVIOUS
<1> USE RunNumbers DEF PageOK
<1>1. CASE UNCHANGED <<messages, socket, is_running, owner, assistant_web>>
    BY <1>1
<1>2. ASSUME NEW s \in Sockets, Conversation!Prompt(s) PROVE PageOK'
    <2>1. messages + 1 \in Conversation!MessageRuns /\ messages' = messages + 1 /\ messages' \in 0 .. MaxRuns
        BY <1>2, NextRun DEF Conversation!Prompt
    <2> QED
        BY <1>2, <2>1 DEF Conversation!Prompt
<1>3. ASSUME NEW s \in Sockets, Conversation!StopRun(s) \/ Conversation!StopActiveRun(s) PROVE PageOK'
    BY <1>3 DEF Conversation!StopRun, Conversation!StopActiveRun, Conversation!page
<1>4. ASSUME NEW s \in Sockets, Conversation!Leave(s) PROVE PageOK'
    BY <1>4 DEF Conversation!Leave, Conversation!Cancelled, Conversation!RunningAfterLeave
<1>5. ASSUME NEW r \in Conversation!MessageRuns, Conversation!WebStep(r) PROVE PageOK'
    BY <1>5 DEF Conversation!WebStep, Conversation!SendRun, Conversation!Settle, Conversation!ClaimTitle,
        Conversation!EndTitle
<1>6. ASSUME NEW r \in Conversation!MessageRuns,
             Conversation!ServiceStep(r) \/ Conversation!Answer(r) \/ Conversation!EndPrompt(r)
      PROVE  PageOK'
    BY <1>6 DEF Conversation!ServiceStep, Conversation!ReceiveRun, Conversation!OpenModel, Conversation!CreateSession,
        Conversation!Answer, Conversation!EndPrompt, Conversation!page
<1>7. CASE Conversation!WebEnds
    BY <1>7 DEF Conversation!WebEnds
<1> QED
    BY <1>1, <1>2, <1>3, <1>4, <1>5, <1>6, <1>7
    DEF Conversation!Next, Conversation!assistant, Conversation!page, Conversation!Rename, Conversation!AskDelete,
        Conversation!DeleteAborts, Conversation!DeleteWaits, Conversation!DeleteRow

\* A run starts to work only when no other run is active, and the active run changes only after its work ended.
LEMMA ActiveStep == PageOK /\ ActiveRunWorks /\ [Conversation!Next]_(Conversation!assistant) => ActiveRunWorks'
<1> SUFFICES ASSUME PageOK, ActiveRunWorks, [Conversation!Next]_(Conversation!assistant) PROVE ActiveRunWorks'
    OBVIOUS
<1> USE RunNumbers DEF PageOK, ActiveRunWorks, Working
<1>1. CASE UNCHANGED <<messages, assistant_web, service, active>>
    BY <1>1
<1>2. ASSUME NEW s \in Sockets, Conversation!Prompt(s) PROVE ActiveRunWorks'
    <2>1. messages + 1 \in Conversation!MessageRuns /\ messages' = messages + 1
        BY <1>2, NextRun DEF Conversation!Prompt
    <2>2. UNCHANGED <<service, active>> /\ assistant_web' = [assistant_web EXCEPT ![messages + 1] = "preparing"]
        BY <1>2 DEF Conversation!Prompt, Conversation!run
    <2> QED
        BY <2>1, <2>2 DEF Conversation!MessageRuns
<1>3. ASSUME NEW s \in Sockets, Conversation!Leave(s) PROVE ActiveRunWorks'
    <2>1. UNCHANGED <<messages, service, active>>
        BY <1>3 DEF Conversation!Leave, Conversation!run
    <2>2. \A r \in Conversation!MessageRuns : assistant_web'[r] \in {"none", "preparing"} => assistant_web[r] = "none"
                                             \/ assistant_web[r] = "preparing"
        BY <1>3 DEF Conversation!Leave, Conversation!Cancelled
    <2>3. \A r \in Conversation!MessageRuns : assistant_web[r] = "none" => assistant_web'[r] = "none"
        BY <1>3 DEF Conversation!Leave, Conversation!Cancelled
    <2> QED
        BY <2>1, <2>2, <2>3 DEF Conversation!MessageRuns
<1>4. ASSUME NEW r \in Conversation!MessageRuns, Conversation!SendRun(r) PROVE ActiveRunWorks'
    <2>1. CASE row
        BY <1>4, <2>1 DEF Conversation!SendRun
    <2>2. CASE ~row
        BY <1>4, <2>2 DEF Conversation!SendRun
    <2> QED
        BY <2>1, <2>2
<1>5. ASSUME NEW r \in Conversation!MessageRuns,
             Conversation!Settle(r) \/ Conversation!ClaimTitle(r) \/ Conversation!EndTitle(r) \/ Conversation!Answer(r)
      PROVE  ActiveRunWorks'
    <2>1. UNCHANGED <<messages, service, active>>
        BY <1>5 DEF Conversation!Settle, Conversation!ClaimTitle, Conversation!EndTitle, Conversation!Answer,
            Conversation!run
    <2>2. /\ assistant_web[r] # "none"
          /\ \E w \in {"ended", "settled", "title", "answered"} : assistant_web' = [assistant_web EXCEPT ![r] = w]
        BY <1>5 DEF Conversation!Settle, Conversation!ClaimTitle, Conversation!EndTitle, Conversation!Answer
    <2> QED
        BY <2>1, <2>2 DEF Conversation!MessageRuns
<1>6. ASSUME NEW r \in Conversation!MessageRuns, Conversation!ReceiveRun(r)
      PROVE  ActiveRunWorks'
    <2>1. UNCHANGED <<messages, assistant_web>>
        BY <1>6 DEF Conversation!ReceiveRun, Conversation!page
    <2>2. CASE active = Conversation!None
        BY <1>6, <2>1, <2>2 DEF Conversation!ReceiveRun
    <2>3. CASE active # Conversation!None
        BY <1>6, <2>1, <2>3 DEF Conversation!ReceiveRun
    <2> QED
        BY <2>2, <2>3
<1>7. ASSUME NEW r \in Conversation!MessageRuns,
             Conversation!OpenModel(r) \/ Conversation!CreateSession(r) \/ Conversation!EndPrompt(r)
      PROVE  ActiveRunWorks'
    <2>1. UNCHANGED <<messages, assistant_web>> /\ service[r] \in Working
        BY <1>7 DEF Conversation!OpenModel, Conversation!CreateSession, Conversation!EndPrompt, Conversation!page
    <2>2. CASE Conversation!EndRun(r)
        BY <2>1, <2>2 DEF Conversation!EndRun
    <2>3. CASE ~Conversation!EndRun(r)
        BY <1>7, <2>1, <2>3 DEF Conversation!OpenModel, Conversation!CreateSession, Conversation!EndPrompt
    <2> QED
        BY <2>2, <2>3
<1>8. CASE Conversation!WebEnds
    BY <1>8 DEF Conversation!WebEnds, Conversation!run
<1> QED
    BY <1>1, <1>2, <1>3, <1>4, <1>5, <1>6, <1>7, <1>8
    DEF Conversation!Next, Conversation!WebStep, Conversation!ServiceStep, Conversation!assistant, Conversation!page,
        Conversation!run, Conversation!Rename, Conversation!AskDelete, Conversation!DeleteAborts,
        Conversation!DeleteWaits, Conversation!DeleteRow, Conversation!StopRun, Conversation!StopActiveRun

\* The delete waits for the active run.
LEMMA DeleteStep == ActiveRunWorks /\ DeleteOK /\ [Conversation!Next]_(Conversation!assistant) => DeleteOK'
<1> SUFFICES ASSUME ActiveRunWorks, DeleteOK, [Conversation!Next]_(Conversation!assistant) PROVE DeleteOK'
    OBVIOUS
<1> USE DEF DeleteOK, ActiveRunWorks
<1>1. CASE UNCHANGED Conversation!deletion
    BY <1>1 DEF Conversation!deletion
<1>2. ASSUME NEW r \in Conversation!MessageRuns, Conversation!EndRun(r) PROVE DeleteOK'
    BY <1>2 DEF Conversation!EndRun
<1>3. CASE Conversation!AskDelete \/ Conversation!DeleteAborts \/ Conversation!DeleteWaits \/ Conversation!DeleteRow
    BY <1>3 DEF Conversation!AskDelete, Conversation!DeleteAborts, Conversation!DeleteWaits, Conversation!WaitsFor,
        Conversation!DeleteRow
<1> QED
    BY <1>1, <1>2, <1>3
    DEF Conversation!Next, Conversation!assistant, Conversation!Prompt, Conversation!StopRun, Conversation!Leave,
        Conversation!StopActiveRun, Conversation!WebStep, Conversation!SendRun, Conversation!Settle,
        Conversation!ClaimTitle, Conversation!EndTitle, Conversation!ServiceStep, Conversation!ReceiveRun,
        Conversation!OpenModel, Conversation!CreateSession, Conversation!Answer, Conversation!EndPrompt,
        Conversation!Rename, Conversation!WebEnds

\* What no step does to a title: replace the title of the user, or generate a second one.
TitleStays ==
    /\ title_state = "renamed" => title' = "of_user" /\ title_state' = "renamed"
    /\ title_state # "new" => title_state' # "new"
    /\ title_state' = "generating" => title_state \in {"new", "generating"}

\* Only the claim of a new title generates one, and the row is written only while the title is being generated.
LEMMA TitleStep == TitleIsOfUser /\ [Conversation!Next]_(Conversation!assistant) => TitleIsOfUser' /\ TitleStays
<1> SUFFICES ASSUME TitleIsOfUser, [Conversation!Next]_(Conversation!assistant) PROVE TitleIsOfUser' /\ TitleStays
    OBVIOUS
<1> USE DEF TitleIsOfUser, TitleStays
<1>1. CASE UNCHANGED <<title, title_state>>
    BY <1>1
<1>2. ASSUME NEW r \in Conversation!MessageRuns, Conversation!ClaimTitle(r) PROVE TitleIsOfUser' /\ TitleStays
    BY <1>2 DEF Conversation!ClaimTitle
<1>3. ASSUME NEW r \in Conversation!MessageRuns, Conversation!EndTitle(r) PROVE TitleIsOfUser' /\ TitleStays
    BY <1>3 DEF Conversation!EndTitle, Conversation!TitleAfter
<1>4. CASE Conversation!Rename
    BY <1>4 DEF Conversation!Rename
<1> QED
    BY <1>1, <1>2, <1>3, <1>4
    DEF Conversation!Next, Conversation!assistant, Conversation!rows, Conversation!Prompt, Conversation!StopRun,
        Conversation!Leave, Conversation!StopActiveRun, Conversation!WebStep, Conversation!SendRun,
        Conversation!Settle, Conversation!ServiceStep, Conversation!ReceiveRun, Conversation!OpenModel,
        Conversation!CreateSession, Conversation!Answer, Conversation!EndPrompt, Conversation!WebEnds,
        Conversation!AskDelete, Conversation!DeleteAborts, Conversation!DeleteWaits, Conversation!DeleteRow

\* The two places that delete the file: the end of the run that a delete waits for, and a delete without a run.
LEMMA FileDeleteStep == Conversation!FlagsOK /\ [Conversation!Next]_(Conversation!assistant) /\ file /\ ~file'
        => active' = Conversation!None
<1> SUFFICES ASSUME Conversation!FlagsOK, [Conversation!Next]_(Conversation!assistant), file, ~file'
             PROVE  active' = Conversation!None
    OBVIOUS
<1>1. file' # file /\ file' # TRUE
    BY DEF Conversation!FlagsOK
<1>2. ASSUME NEW r \in Conversation!MessageRuns, Conversation!EndRun(r) PROVE active' = Conversation!None
    BY <1>2 DEF Conversation!EndRun
<1>3. CASE Conversation!DeleteWaits
    BY <1>3 DEF Conversation!DeleteWaits, Conversation!WaitsFor, Conversation!run
<1> QED
    BY <1>1, <1>2, <1>3
    DEF Conversation!Next, Conversation!assistant, Conversation!Prompt, Conversation!StopRun, Conversation!Leave,
        Conversation!StopActiveRun, Conversation!WebStep, Conversation!SendRun, Conversation!Settle,
        Conversation!ClaimTitle, Conversation!EndTitle, Conversation!ServiceStep, Conversation!ReceiveRun,
        Conversation!OpenModel, Conversation!CreateSession, Conversation!Answer, Conversation!EndPrompt,
        Conversation!Rename, Conversation!WebEnds, Conversation!AskDelete, Conversation!DeleteAborts,
        Conversation!DeleteRow

\* Each step of the conversation keeps the invariant.
LEMMA RunsStep == RunsIInv /\ [Conversation!Next]_(Conversation!assistant) => RunsIInv'
BY FlagsStep, PageStep, ActiveStep, DeleteStep, TitleStep DEF RunsIInv

\* The invariant has what AssistantInv says of the runs: the runs that write are part of {active}.
LEMMA RunsAreEnough == RunsIInv => Conversation!AssistantTypeOK /\ Conversation!OneRunWrites
<1> SUFFICES ASSUME RunsIInv PROVE Conversation!AssistantTypeOK /\ Conversation!OneRunWrites
    OBVIOUS
<1>1. Conversation!AssistantTypeOK
    BY DEF RunsIInv, ActiveRunWorks, TitleIsOfUser, DeleteOK, PageOK, Working, Conversation!AssistantTypeOK
<1> DEFINE writers == {r \in Conversation!MessageRuns : service[r] \in Working}
<1>2. writers \in SUBSET {active}
    BY DEF RunsIInv, ActiveRunWorks
<1> HIDE DEF writers
<1>3. IsFiniteSet({active}) /\ Cardinality({active}) = 1
    BY FS_Singleton
<1>4. Cardinality(writers) <= 1
    BY <1>2, <1>3, FS_Subset
<1>5. Cardinality(writers) = Conversation!Cardinality(writers)
    BY DEF Cardinality, Conversation!Cardinality
<1> QED
    BY <1>1, <1>4, <1>5 DEF Conversation!OneRunWrites, Working, writers

-----------------------------------------------------------------------------
(* The prompts of the logins.                                              *)

\* The types of the logins and their prompts.
LoginOK ==
    /\ login \in [Dialogs -> {"none", "talking", "waiting"}]
    /\ login_prompts \subseteq [id : 1 .. MaxLoginPrompts, dialog : Dialogs]
    /\ asked \in 0 .. MaxLoginPrompts
    /\ answers \in [1 .. MaxLoginPrompts -> {0, 1}]

\* Each prompt has a number of its own, waits for its dialog, and has no answer yet.
PromptsAreNumbered ==
    /\ \A p \in login_prompts : login[p.dialog] = "waiting" /\ p.id <= asked /\ answers[p.id] = 0
    /\ \A d \in Dialogs : login[d] = "waiting" => \E p \in login_prompts : p.dialog = d
    /\ \A p, q \in login_prompts : p.dialog = q.dialog \/ p.id = q.id => p = q
    /\ \A id \in 1 .. MaxLoginPrompts : id > asked => answers[id] = 0

\* The inductive invariant of the login prompts.
LoginIInv == LoginOK /\ PromptsAreNumbered

\* What the proofs need of the constants.
VaultNumbers == {MaxLoginPrompts, MaxTokens, MaxCredentials} \subseteq Nat

\* The assumptions on the constants give the numbers of the vault.
LEMMA VaultConstants == VaultNumbers
BY ResearchAssumption DEF VaultNumbers

\* No login runs at the start.
LEMMA LoginInit == Vault!Init => LoginIInv
BY VaultConstants DEF Vault!Init, LoginIInv, LoginOK, PromptsAreNumbered, VaultNumbers

\* Each step of the logins keeps the invariant, and the steps of the credential file leave it alone.
LEMMA LoginStep == LoginIInv /\ [Vault!Next]_(Vault!vault) => LoginIInv'
<1> SUFFICES ASSUME LoginIInv, [Vault!Next]_(Vault!vault) PROVE LoginIInv'
    OBVIOUS
<1> USE VaultConstants DEF LoginIInv, LoginOK, PromptsAreNumbered, VaultNumbers
<1>1. CASE UNCHANGED <<login, login_prompts, asked, answers>>
    BY <1>1
<1>2. ASSUME NEW d \in Dialogs, Vault!StartLogin(d) \/ Vault!AddCredential(d) \/ Vault!LoginFails(d)
      PROVE  LoginIInv'
    <2>1. UNCHANGED <<login_prompts, asked, answers>> /\ login[d] # "waiting"
        BY <1>2 DEF Vault!StartLogin, Vault!AddCredential, Vault!LoginFails
    <2>2. \E l \in {"none", "talking"} : login' = [login EXCEPT ![d] = l]
        BY <1>2 DEF Vault!StartLogin, Vault!AddCredential, Vault!LoginFails
    <2> QED
        BY <2>1, <2>2
<1>3. ASSUME NEW d \in Dialogs, Vault!Ask(d) PROVE LoginIInv'
    <2>1. asked' = asked + 1 /\ asked' \in 1 .. MaxLoginPrompts /\ UNCHANGED answers /\ login[d] = "talking"
        BY <1>3 DEF Vault!Ask
    <2>2. CASE d \in gone
        <3>1. login_prompts' = login_prompts /\ login' = [login EXCEPT ![d] = "none"]
            BY <1>3, <2>2 DEF Vault!Ask
        <3> QED
            BY <2>1, <3>1
    <2>3. CASE d \notin gone
        <3>1. login_prompts' = login_prompts \cup {[id |-> asked + 1, dialog |-> d]}
                /\ login' = [login EXCEPT ![d] = "waiting"]
            BY <1>3, <2>3 DEF Vault!Ask
        <3> DEFINE new == [id |-> asked + 1, dialog |-> d]
        <3>2. new \in [id : 1 .. MaxLoginPrompts, dialog : Dialogs] /\ new.id = asked + 1 /\ new.dialog = d
            BY <2>1
        <3> HIDE DEF new
        <3>3. \A p \in login_prompts : p.dialog \in Dialogs /\ p.dialog # d /\ p.id \in 1 .. MaxLoginPrompts
                /\ p.id < asked + 1
            BY <2>1
        <3>4. LoginOK'
            BY <2>1, <3>1, <3>2 DEF new
        <3>5. answers[asked + 1] = 0
            BY <2>1
        <3>6. login_prompts' = login_prompts \cup {new}
            BY <3>1 DEF new
        <3>7. \A p \in login_prompts' : login'[p.dialog] = "waiting" /\ p.id <= asked' /\ answers'[p.id] = 0
            BY <2>1, <3>1, <3>2, <3>3, <3>5, <3>6
        <3>8. \A p, q \in login_prompts' : p.dialog = q.dialog \/ p.id = q.id => p = q
            BY <3>2, <3>3, <3>6
        <3>9. \A e \in Dialogs : login'[e] = "waiting" => \E p \in login_prompts' : p.dialog = e
            BY <3>1, <3>2, <3>6
        <3>10. \A id \in 1 .. MaxLoginPrompts : id > asked' => answers'[id] = 0
            BY <2>1
        <3> QED
            BY <3>4, <3>7, <3>8, <3>9, <3>10
    <2> QED
        BY <2>2, <2>3
<1>4. ASSUME NEW id \in 1 .. MaxLoginPrompts, Vault!AnswerLogin(id) PROVE LoginIInv'
    <2>1. PICK p \in login_prompts :
            /\ p.id = id /\ login_prompts' = login_prompts \ {p}
            /\ answers' = [answers EXCEPT ![id] = @ + 1]
            /\ login' = [login EXCEPT ![p.dialog] = "talking"] /\ asked' = asked
        BY <1>4 DEF Vault!AnswerLogin
    <2>2. answers[id] = 0 /\ id <= asked /\ p.dialog \in Dialogs
        BY <2>1
    <2>3. \A q \in login_prompts' : q.id # id /\ q.dialog # p.dialog /\ q.dialog \in Dialogs
        BY <2>1
    <2>4. LoginOK'
        BY <2>1, <2>2
    <2>5. PromptsAreNumbered'
        BY <2>1, <2>2, <2>3
    <2> QED
        BY <2>4, <2>5
<1>5. ASSUME NEW d \in Dialogs, Vault!LeaveDialog(d) PROVE LoginIInv'
    BY <1>5 DEF Vault!LeaveDialog
<1>6. CASE Vault!Restart
    <2>1. login' = [d \in Dialogs |-> "none"] /\ login_prompts' = {} /\ UNCHANGED <<asked, answers>>
        BY <1>6 DEF Vault!Restart
    <2> QED
        BY <2>1
<1> QED
    BY <1>1, <1>2, <1>3, <1>4, <1>5, <1>6
    DEF Vault!Next, Vault!vault, Vault!Delete, Vault!Modify, Vault!ReadToken, Vault!Refresh, Vault!RefreshFails

-----------------------------------------------------------------------------
(* The credential file.                                                    *)

\* The credential of the refresh that runs.
Refreshed == Head(modify)[2]
\* A deleted credential still has its place in the queue.
Known == Vault!Stored \cup deleted

\* The types of the credential file, its queue and the tokens.
VaultOK ==
    /\ Vault!Stored \subseteq Vault!Credentials /\ deleted \subseteq Vault!Credentials
    /\ valid \in [Vault!Credentials -> 0 .. MaxTokens]
    /\ entries \in [Vault!Stored -> [token : 0 .. MaxTokens, state : {"ready", "failed"}]]
    /\ refreshing \in {Vault!NoToken} \cup 0 .. MaxTokens
    /\ modify \in Seq(Users \X Vault!Credentials)

\* A stored credential has the token that its provider takes, ready or not, and so does the refresh that runs: only a
\* restart loses a token. A credential that was never stored has the first token.
TokensAreValid ==
    /\ reused = {} /\ Vault!Stored \cap deleted = {}
    /\ \A i \in 1 .. Len(modify) : modify[i][2] \in Known
    /\ refreshing # Vault!NoToken => modify # <<>> /\ (Refreshed \notin outdated => refreshing = valid[Refreshed])
    /\ \A c \in Vault!Stored \ outdated : entries[c].token = valid[c]
    /\ \A c \in Vault!NotAdded : valid[c] = 0

\* The inductive invariant of the credential file: TokensAreUsedOnce needs the token of each stored credential and of the
\* refresh that runs.
CredentialFileIInv == VaultOK /\ TokensAreValid

\* An empty file is consistent.
LEMMA CredentialFileInit == Vault!Init => CredentialFileIInv
BY VaultConstants
DEF Vault!Init, CredentialFileIInv, VaultOK, TokensAreValid, VaultNumbers, Known, Vault!Stored,
    Vault!NotAdded, Vault!NoToken,
    Vault!Credentials

\* No token is not a token.
LEMMA NoTokenIsNoNumber == Vault!NoToken \notin 0 .. MaxTokens /\ MaxTokens \in Nat
BY VaultConstants DEF VaultNumbers, Vault!NoToken

\* The first credential of the queue is known.
LEMMA QueueHead ==
    ASSUME CredentialFileIInv, modify # <<>>
    PROVE  /\ Refreshed \in Known /\ Refreshed \in Vault!Credentials
           /\ Tail(modify) \in Seq(Users \X Vault!Credentials)
           /\ \A i \in 1 .. Len(Tail(modify)) : Tail(modify)[i][2] \in Known
<1> USE DEF CredentialFileIInv, VaultOK, TokensAreValid, Refreshed
<1>1. Len(modify) \in Nat \ {0} /\ Head(modify) = modify[1] /\ 1 \in 1 .. Len(modify)
    OBVIOUS
<1>2. \A i \in 1 .. Len(Tail(modify)) : Tail(modify)[i] = modify[i + 1] /\ i + 1 \in 1 .. Len(modify)
    BY <1>1
<1>3. Tail(modify) \in Seq(Users \X Vault!Credentials)
    OBVIOUS
<1>4. modify[1] \in Users \X Vault!Credentials
    BY <1>1
<1> QED
    BY <1>1, <1>2, <1>3, <1>4

\* The login that ends gets a credential that was never stored.
LEMMA NewCredential ==
    ASSUME Vault!NotAdded # {}
    PROVE  (CHOOSE n \in Vault!NotAdded : \A m \in Vault!NotAdded : n <= m) \in Vault!NotAdded
<1>1. Vault!NotAdded \subseteq Nat
    BY VaultConstants DEF Vault!NotAdded, Vault!Credentials, VaultNumbers
<1>2. PICK n \in Vault!NotAdded : \A m \in Vault!NotAdded : ~(<<m, n>> \in OpToRel(<, Nat))
    BY <1>1, NatLessThanWellFounded, WFMin
<1>3. \A m \in Vault!NotAdded : ~(m < n)
    BY <1>1, <1>2 DEF OpToRel
<1>4. \A m \in Vault!NotAdded : n <= m
    BY <1>1, <1>3
<1> QED
    BY <1>2, <1>4

\* A token is used by the one refresh at the head of the queue, and its next token is stored before the queue moves on.
LEMMA CredentialFileStep == CredentialFileIInv /\ [Vault!Next]_(Vault!vault) => CredentialFileIInv'
<1> SUFFICES ASSUME CredentialFileIInv, [Vault!Next]_(Vault!vault) PROVE CredentialFileIInv'
    OBVIOUS
<1> USE NoTokenIsNoNumber DEF CredentialFileIInv, VaultOK, TokensAreValid
<1>1. CASE UNCHANGED <<Vault!file, Vault!calls>>
    BY <1>1 DEF Vault!file, Vault!calls, Known, Refreshed, Vault!Stored, Vault!NotAdded
<1>2. ASSUME NEW d \in Dialogs, Vault!AddCredential(d) PROVE CredentialFileIInv'
    <2> DEFINE c == CHOOSE n \in Vault!NotAdded : \A m \in Vault!NotAdded : n <= m
    <2>1. c \in Vault!NotAdded
        BY <1>2, NewCredential DEF Vault!AddCredential
    <2>2. /\ entries' = [x \in Vault!Stored \cup {c} |-> IF x = c THEN [token |-> 0, state |-> "ready"] ELSE entries[x]]
          /\ UNCHANGED <<deleted, valid, outdated, reused, Vault!calls>>
        BY <1>2 DEF Vault!AddCredential
    <2> HIDE DEF c
    <2>3. Vault!Stored' = Vault!Stored \cup {c} /\ Known \subseteq Known'
        BY <2>2 DEF Vault!Stored, Known
    <2>4. VaultOK'
        BY <2>1, <2>2, <2>3 DEF Vault!NotAdded, Vault!calls
    <2>5. \A x \in Vault!Stored' \ outdated' : entries'[x].token = valid'[x]
        BY <2>1, <2>2, <2>3
    <2>6. reused' = {} /\ Vault!Stored' \cap deleted' = {} /\ Vault!NotAdded' \subseteq Vault!NotAdded
        BY <2>1, <2>2, <2>3 DEF Vault!NotAdded
    <2> QED
        BY <2>2, <2>3, <2>4, <2>5, <2>6 DEF Vault!calls, Refreshed
<1>3. ASSUME NEW c \in Vault!Credentials, Vault!Delete(c) PROVE CredentialFileIInv'
    <2>1. /\ c \in Vault!Stored /\ entries' = [x \in Vault!Stored \ {c} |-> entries[x]]
          /\ deleted' = deleted \cup {c} /\ UNCHANGED <<valid, outdated, reused, modify, refreshing>>
        BY <1>3 DEF Vault!Delete, Vault!calls
    <2>2. Vault!Stored' = Vault!Stored \ {c} /\ Known' = Known /\ Vault!NotAdded' = Vault!NotAdded
        BY <2>1 DEF Vault!Stored, Known, Vault!NotAdded
    <2>3. VaultOK'
        BY <2>1, <2>2
    <2>4. Vault!Stored' \cap deleted' = {} /\ \A x \in Vault!Stored' \ outdated' : entries'[x].token = valid'[x]
        BY <2>1, <2>2
    <2> QED
        BY <2>1, <2>2, <2>3, <2>4 DEF Refreshed
<1>4. ASSUME NEW u \in Users, NEW c \in Vault!Credentials, Vault!Modify(u, c) PROVE CredentialFileIInv'
    <2>1. /\ c \in Vault!Stored /\ modify' = Append(modify, <<u, c>>)
          /\ UNCHANGED <<entries, deleted, valid, outdated, reused, refreshing>>
        BY <1>4 DEF Vault!Modify, Vault!file
    <2>2. modify' \in Seq(Users \X Vault!Credentials) /\ modify' # <<>> /\ Len(modify') = Len(modify) + 1
        BY <2>1
    <2>3. \A i \in 1 .. Len(modify') : modify'[i] = IF i = Len(modify) + 1 THEN <<u, c>> ELSE modify[i]
        BY <2>1
    <2>4. \A i \in 1 .. Len(modify') : modify'[i][2] \in Known
        BY <2>1, <2>2, <2>3 DEF Known
    <2>5. modify # <<>> => Refreshed' = Refreshed
        <3> SUFFICES ASSUME modify # <<>> PROVE Head(modify') = Head(modify)
            BY DEF Refreshed
        <3>1. Len(modify) \in Nat \ {0} /\ Head(modify) = modify[1]
            OBVIOUS
        <3>2. Head(modify') = modify'[1]
            BY <2>2
        <3> QED
            BY <2>2, <2>3, <3>1, <3>2
    <2>6. Known' = Known /\ Vault!Stored' = Vault!Stored /\ Vault!NotAdded' = Vault!NotAdded
        BY <2>1 DEF Known, Vault!Stored, Vault!NotAdded
    <2> QED
        BY <2>1, <2>2, <2>4, <2>5, <2>6
<1>5. CASE Vault!ReadToken
    <2>1. modify # <<>> /\ refreshing = Vault!NoToken /\ UNCHANGED <<entries, deleted, valid, outdated, reused>>
        BY <1>5 DEF Vault!ReadToken, Vault!file
    <2>2. Known' = Known /\ Vault!Stored' = Vault!Stored /\ Vault!NotAdded' = Vault!NotAdded
        BY <2>1 DEF Known, Vault!Stored, Vault!NotAdded
    <2>3. CASE Refreshed \in Vault!Stored /\ refreshing' = entries[Refreshed].token /\ modify' = modify
        BY <2>1, <2>2, <2>3 DEF Refreshed
    <2>4. CASE modify' = Tail(modify) /\ refreshing' = refreshing
        BY <2>1, <2>2, <2>4, QueueHead
    <2> QED
        BY <1>5, <2>3, <2>4 DEF Vault!ReadToken, Refreshed
<1>6. CASE Vault!Refresh
    <2>1. /\ refreshing # Vault!NoToken /\ refreshing = valid[Refreshed] /\ valid[Refreshed] < MaxTokens
          /\ valid' = [valid EXCEPT ![Refreshed] = @ + 1]
          /\ entries' = IF Refreshed \in Vault!Stored
                        THEN [entries EXCEPT ![Refreshed] = [token |-> valid[Refreshed] + 1, state |-> "ready"]]
                        ELSE entries
          /\ modify' = Tail(modify) /\ refreshing' = Vault!NoToken /\ UNCHANGED <<deleted, outdated, reused>>
        BY <1>6 DEF Vault!Refresh, Vault!WriteToken, Refreshed
    <2>2. modify # <<>>
        BY <2>1
    <2>3. Vault!Stored' = Vault!Stored /\ Known' = Known /\ Vault!NotAdded' = Vault!NotAdded
        BY <2>1 DEF Vault!Stored, Known, Vault!NotAdded
    <2>4. valid[Refreshed] \in Nat /\ valid[Refreshed] + 1 \in 0 .. MaxTokens
        BY <2>1, <2>2, QueueHead
    <2>5. valid' \in [Vault!Credentials -> 0 .. MaxTokens] /\ valid'[Refreshed] = valid[Refreshed] + 1
        BY <2>1, <2>2, <2>4, QueueHead
    <2>6. entries' \in [Vault!Stored -> [token : 0 .. MaxTokens, state : {"ready", "failed"}]]
        BY <2>1, <2>4
    <2>7. VaultOK'
        BY <2>1, <2>2, <2>3, <2>5, <2>6, QueueHead
    <2>8. \A c \in Vault!Stored \ outdated : entries'[c].token = valid'[c]
        BY <2>1, <2>5
    <2>9. Refreshed \notin Vault!NotAdded
        BY <2>2, QueueHead DEF Known, Vault!NotAdded
    <2>10. \A c \in Vault!NotAdded : valid'[c] = valid[c]
        BY <2>1, <2>9 DEF Vault!NotAdded
    <2> QED
        BY <2>1, <2>2, <2>3, <2>7, <2>8, <2>10, QueueHead
<1>7. CASE Vault!RefreshFails
    <2>1. /\ refreshing # Vault!NoToken
          /\ entries' = IF Refreshed \in Vault!Stored THEN [entries EXCEPT ![Refreshed].state = "failed"] ELSE entries
          /\ reused' = IF refreshing # valid[Refreshed] /\ Refreshed \notin outdated THEN reused \cup {Refreshed} ELSE reused
          /\ modify' = Tail(modify) /\ refreshing' = Vault!NoToken /\ UNCHANGED <<deleted, valid, outdated>>
        BY <1>7 DEF Vault!RefreshFails, Refreshed
    <2>2. modify # <<>> /\ reused' = {}
        BY <2>1
    <2>3. Vault!Stored' = Vault!Stored /\ Known' = Known /\ Vault!NotAdded' = Vault!NotAdded
        BY <2>1 DEF Vault!Stored, Known, Vault!NotAdded
    <2>4. /\ entries' \in [Vault!Stored -> [token : 0 .. MaxTokens, state : {"ready", "failed"}]]
          /\ \A c \in Vault!Stored : entries'[c].token = entries[c].token
        BY <2>1
    <2> QED
        BY <2>1, <2>2, <2>3, <2>4, QueueHead
<1>8. CASE Vault!Restart
    <2>1. modify' = <<>> /\ refreshing' = Vault!NoToken /\ UNCHANGED <<entries, deleted, reused>>
        BY <1>8 DEF Vault!Restart
    <2>2. Vault!Stored' = Vault!Stored /\ Known' = Known /\ Vault!NotAdded' = Vault!NotAdded
        BY <2>1 DEF Vault!Stored, Known, Vault!NotAdded
    <2>3. CASE UNCHANGED <<valid, outdated>>
        BY <2>1, <2>2, <2>3
    <2>4. CASE /\ refreshing # Vault!NoToken /\ valid[Refreshed] < MaxTokens
               /\ valid' = [valid EXCEPT ![Refreshed] = @ + 1] /\ outdated' = outdated \cup {Refreshed}
        <3>1. modify # <<>> /\ Refreshed \in Vault!Credentials /\ Refreshed \notin Vault!NotAdded
            BY <2>4, QueueHead DEF Known, Vault!NotAdded
        <3>2. valid' \in [Vault!Credentials -> 0 .. MaxTokens]
            BY <2>4, <3>1
        <3>3. \A c \in Vault!Credentials : c # Refreshed => valid'[c] = valid[c]
            BY <2>4
        <3> QED
            BY <2>1, <2>2, <2>4, <3>1, <3>2, <3>3 DEF Vault!NotAdded
    <2> QED
        BY <1>8, <2>3, <2>4 DEF Vault!Restart, Refreshed
<1> QED
    BY <1>1, <1>2, <1>3, <1>4, <1>5, <1>6, <1>7, <1>8
    DEF Vault!Next, Vault!vault, Vault!StartLogin, Vault!Ask, Vault!LoginFails, Vault!LeaveDialog, Vault!AnswerLogin

\* The two invariants have what AssistantInv says of the credentials and the logins.
LEMMA VaultIsEnough ==
    CredentialFileIInv /\ LoginIInv => Vault!CredentialTypeOK /\ Vault!TokensAreUsedOnce /\ Vault!PromptsWaitForTheirLogin
<1> SUFFICES ASSUME CredentialFileIInv, LoginIInv
             PROVE  Vault!CredentialTypeOK /\ Vault!TokensAreUsedOnce /\ Vault!PromptsWaitForTheirLogin
    OBVIOUS
<1>1. Vault!CredentialTypeOK
    BY DEF CredentialFileIInv, VaultOK, LoginIInv, LoginOK, Vault!CredentialTypeOK
<1>2. Vault!TokensAreUsedOnce
    BY DEF CredentialFileIInv, VaultOK, TokensAreValid, Vault!TokensAreUsedOnce
<1>3. {p.dialog : p \in login_prompts} = {d \in Dialogs : login[d] = "waiting"}
    BY DEF LoginIInv, LoginOK, PromptsAreNumbered
<1>4. \A id \in DOMAIN answers : answers[id] <= 1 /\ (answers[id] = 1 => \A p \in login_prompts : p.id # id)
    BY DEF LoginIInv, LoginOK, PromptsAreNumbered
<1> QED
    BY <1>1, <1>2, <1>3, <1>4 DEF LoginIInv, PromptsAreNumbered, Vault!PromptsWaitForTheirLogin

-----------------------------------------------------------------------------
(* The backtests that the tools of a run start.                            *)
\* The calls that count: the POST runs, or its answer came.
Counted == {t \in Calls : call[t] = "posting" \/ seen[t] # "none"}

\* The types of the calls and their backtests.
CallsOK ==
    /\ call \in [Calls -> {"none", "posting", "waiting", "reading", "ended"}]
    /\ seen \in [Calls -> Tools!Statuses \cup {"none"}]
    /\ polls \in [Calls -> 0 .. Polls]
    /\ result \in [Calls -> {"none", "error", "still_running", "finished"}]
    /\ backtest \in [Calls -> Tools!Statuses \cup {"none"}]
    /\ shown \in [Calls -> SUBSET Tools!Statuses]

\* A call that counts has its POST or the answer of it, and reads the status of a backtest that exists.
CallsMatchTheirBacktests ==
    \A t \in Calls :
        /\ call[t] \in {"none", "posting"} => seen[t] = "none"
        /\ call[t] \in {"waiting", "reading"} => seen[t] # "none"
        /\ call[t] # "ended" => result[t] = "none"
        /\ seen[t] # "none" => backtest[t] # "none"
        /\ call[t] = "reading" \/ result[t] = "finished" => backtest[t] \in Tools!Final

\* The budget is the number of the calls that count.
BudgetIsTheCount == budget = Cardinality(Counted) /\ budget <= MaxToolBacktests

\* The inductive invariant of the tool calls: the count of the code is the cardinality of a set of calls.
ToolsIInv == CallsOK /\ CallsMatchTheirBacktests /\ BudgetIsTheCount

\* What the proofs need of the constants.
LEMMA ToolConstants == Polls \in Nat /\ MaxToolBacktests \in Nat /\ IsFiniteSet(Calls)
BY ResearchAssumption

\* A part of the finite set of the calls.
LEMMA CountedIsFinite == IsFiniteSet(Counted) /\ Cardinality(Counted) \in 0 .. Cardinality(Calls)
<1>1. Counted \in SUBSET Calls
    BY DEF Counted
<1> QED
    BY <1>1, ToolConstants, FS_Subset, FS_CardinalityType

\* Without calls, nothing counts.
LEMMA ToolsInit == Tools!Init => ToolsIInv
<1> SUFFICES ASSUME Tools!Init PROVE ToolsIInv
    OBVIOUS
<1>1. CallsOK /\ CallsMatchTheirBacktests
    BY ToolConstants DEF Tools!Init, CallsOK, CallsMatchTheirBacktests, Tools!Statuses, Tools!Final
<1>2. Counted = {} /\ budget = 0
    BY DEF Tools!Init, Counted
<1>3. BudgetIsTheCount
    BY <1>2, ToolConstants, FS_EmptySet DEF BudgetIsTheCount
<1> QED
    BY <1>1, <1>3 DEF ToolsIInv

\* Each step of a call changes only what that call and its backtest are.
LEMMA CallsStep ==
    CallsOK /\ CallsMatchTheirBacktests /\ [Tools!Next]_(Tools!toolVars) => CallsOK' /\ CallsMatchTheirBacktests'
<1> SUFFICES ASSUME CallsOK, CallsMatchTheirBacktests, [Tools!Next]_(Tools!toolVars)
             PROVE  CallsOK' /\ CallsMatchTheirBacktests'
    OBVIOUS
<1> USE DEF CallsOK, CallsMatchTheirBacktests, Tools!toolVars, Tools!EndCall, Tools!Statuses, Tools!Final
<1>1. CASE Tools!Stop \/ UNCHANGED Tools!toolVars
    BY <1>1 DEF Tools!Stop
<1>2. ASSUME NEW t \in Calls, Tools!RunBacktest(t) PROVE CallsOK' /\ CallsMatchTheirBacktests'
    <2>1. CASE budget >= MaxToolBacktests
        BY <1>2, <2>1 DEF Tools!RunBacktest
    <2>2. CASE ~(budget >= MaxToolBacktests)
        BY <1>2, <2>2 DEF Tools!RunBacktest
    <2> QED
        BY <2>1, <2>2
<1>3. ASSUME NEW t \in Calls, Tools!PostStarts(t) PROVE CallsOK' /\ CallsMatchTheirBacktests'
    BY <1>3 DEF Tools!PostStarts
<1>4. ASSUME NEW t \in Calls, Tools!PostFails(t) PROVE CallsOK' /\ CallsMatchTheirBacktests'
    <2>1. PICK status_of_t \in {"none", "queued"} : backtest' = [backtest EXCEPT ![t] = status_of_t]
        BY <1>4 DEF Tools!PostFails
    <2>2. /\ call' = [call EXCEPT ![t] = "ended"] /\ result' = [result EXCEPT ![t] = "error"]
          /\ UNCHANGED <<seen, polls, shown>> /\ seen[t] = "none"
        BY <1>4 DEF Tools!PostFails
    <2> QED
        BY <2>1, <2>2
<1>5. ASSUME NEW t \in Calls, Tools!Poll(t) PROVE CallsOK' /\ CallsMatchTheirBacktests'
    <2>1. polls' \in [Calls -> 0 .. Polls]
        BY <1>5, ToolConstants DEF Tools!Poll
    <2>2. backtest[t] # "none" /\ backtest[t] \in Tools!Statuses
        BY <1>5 DEF Tools!Poll
    <2> QED
        BY <1>5, <2>1, <2>2 DEF Tools!Poll
<1>6. ASSUME NEW t \in Calls, Tools!ReadResult(t) \/ Tools!GiveUp(t) \/ Tools!ReadIsRefused(t)
      PROVE  CallsOK' /\ CallsMatchTheirBacktests'
    BY <1>6 DEF Tools!ReadResult, Tools!GiveUp, Tools!ReadIsRefused
<1>7. ASSUME NEW t \in Calls, Tools!BacktestMoves(t) PROVE CallsOK' /\ CallsMatchTheirBacktests'
    BY <1>7 DEF Tools!BacktestMoves
<1> QED
    BY <1>1, <1>2, <1>3, <1>4, <1>5, <1>6, <1>7 DEF Tools!Next, Tools!CallStep

\* A call enters the count when it takes its place in the budget, and leaves it when its POST fails.
LEMMA BudgetStep ==
    ToolsIInv /\ [Tools!Next]_(Tools!toolVars) => BudgetIsTheCount'
<1> SUFFICES ASSUME ToolsIInv, [Tools!Next]_(Tools!toolVars) PROVE BudgetIsTheCount'
    OBVIOUS
<1> USE DEF ToolsIInv, CallsOK, CallsMatchTheirBacktests, Tools!toolVars, Tools!EndCall
<1>1. budget \in Nat
    BY CountedIsFinite DEF BudgetIsTheCount
<1>2. CASE Counted' = Counted /\ budget' = budget
    BY <1>2 DEF BudgetIsTheCount
<1>3. CASE Tools!Stop \/ UNCHANGED Tools!toolVars
    BY <1>2, <1>3 DEF Tools!Stop, Counted
<1>4. ASSUME NEW t \in Calls, Tools!RunBacktest(t) PROVE BudgetIsTheCount'
    <2>1. CASE budget >= MaxToolBacktests
        BY <1>2, <1>4, <2>1 DEF Tools!RunBacktest, Counted
    <2>2. CASE ~(budget >= MaxToolBacktests)
        <3>1. t \notin Counted /\ Counted' = Counted \cup {t} /\ budget' = budget + 1
            BY <1>4, <2>2 DEF Tools!RunBacktest, Counted
        <3>2. Cardinality(Counted') = Cardinality(Counted) + 1
            BY <3>1, CountedIsFinite, FS_AddElement
        <3> QED
            BY <1>1, <2>2, <3>1, <3>2, ToolConstants DEF BudgetIsTheCount
    <2> QED
        BY <2>1, <2>2
<1>5. ASSUME NEW t \in Calls, Tools!PostFails(t) PROVE BudgetIsTheCount'
    <2>1. t \in Counted /\ Counted' = Counted \ {t} /\ budget' = budget - 1
        BY <1>5 DEF Tools!PostFails, Counted
    <2>2. Cardinality(Counted') = Cardinality(Counted) - 1
        BY <2>1, CountedIsFinite, FS_RemoveElement
    <2> QED
        BY <1>1, <2>1, <2>2, ToolConstants DEF BudgetIsTheCount
<1>6. ASSUME NEW t \in Calls, Tools!PostStarts(t) PROVE BudgetIsTheCount'
    BY <1>2, <1>6 DEF Tools!PostStarts, Counted
<1>7. ASSUME NEW t \in Calls, Tools!Poll(t) PROVE BudgetIsTheCount'
    BY <1>2, <1>7 DEF Tools!Poll, Counted
<1>8. ASSUME NEW t \in Calls, Tools!ReadResult(t) \/ Tools!GiveUp(t) \/ Tools!ReadIsRefused(t) \/ Tools!BacktestMoves(t)
      PROVE  BudgetIsTheCount'
    BY <1>2, <1>8 DEF Tools!ReadResult, Tools!GiveUp, Tools!ReadIsRefused, Tools!BacktestMoves, Counted
<1> QED
    BY <1>3, <1>4, <1>5, <1>6, <1>7, <1>8 DEF Tools!Next, Tools!CallStep

\* Each step of a call or of a backtest keeps the invariant.
LEMMA ToolsStep == ToolsIInv /\ [Tools!Next]_(Tools!toolVars) => ToolsIInv'
BY CallsStep, BudgetStep DEF ToolsIInv

\* The invariant has what AssistantInv says of the tools.
LEMMA ToolsAreEnough == ToolsIInv => Tools!ToolTypeOK /\ Tools!BudgetHolds
<1> SUFFICES ASSUME ToolsIInv PROVE Tools!ToolTypeOK /\ Tools!BudgetHolds
    OBVIOUS
<1>1. ASSUME NEW S PROVE Tools!Cardinality(S) = Cardinality(S)
    BY DEF Tools!Cardinality, Cardinality
<1>2. Tools!ToolTypeOK
    BY <1>1, CountedIsFinite DEF ToolsIInv, CallsOK, BudgetIsTheCount, Tools!ToolTypeOK
<1> DEFINE with_backtest == {t \in Calls : backtest[t] # "none" /\ seen[t] # "none"}
<1>3. with_backtest \in SUBSET Counted
    BY DEF Counted
<1> HIDE DEF with_backtest
<1>4. Cardinality(with_backtest) <= Cardinality(Counted) /\ Cardinality(with_backtest) \in Nat
    BY <1>3, CountedIsFinite, FS_Subset, FS_CardinalityType
<1>5. Tools!Cardinality(with_backtest) <= MaxToolBacktests
    BY <1>1, <1>4, CountedIsFinite, ToolConstants DEF ToolsIInv, BudgetIsTheCount
<1>6. budget = Tools!Cardinality(Counted)
    BY <1>1 DEF ToolsIInv, BudgetIsTheCount
<1>7. \A t \in Calls : result[t] = "finished" => backtest[t] \in Tools!Final
    BY DEF ToolsIInv, CallsMatchTheirBacktests
<1> QED
    BY <1>2, <1>5, <1>6, <1>7 DEF Tools!BudgetHolds, with_backtest, Counted

-----------------------------------------------------------------------------
(* The saved work and the assistant, in each behavior.                     *)

\* Each step is a step of these components, or changes nothing of them.
LEMMA StepsOfTheParts ==
    [Next]_vars =>
        /\ [Versions!Next]_(Versions!strategyVars)
        /\ SavedStep
        /\ [Conversation!Next]_(Conversation!assistant)
        /\ [Vault!Next]_(Vault!vault)
        /\ [Tools!Next]_(Tools!toolVars)
<1> SUFFICES ASSUME [Next]_vars
             PROVE  /\ [Versions!Next]_(Versions!strategyVars)
                    /\ SavedStep
                    /\ [Conversation!Next]_(Conversation!assistant)
                    /\ [Vault!Next]_(Vault!vault)
                    /\ [Tools!Next]_(Tools!toolVars)
    OBVIOUS
<1> USE DEF vars, research, assistant
<1>1. Versions!Next \/ UNCHANGED versioning
    BY DEF Next, ResearchStep, AssistantStep
<1>2. Screens!ScreenStep \/ Saved!IndicatorStep \/ UNCHANGED saved
    BY DEF Next, ResearchStep, AssistantStep
<1>3. Conversation!Next \/ UNCHANGED runs
    BY DEF Next, ResearchStep, AssistantStep
<1>4. Vault!Next \/ UNCHANGED credentials
    BY DEF Next, ResearchStep, AssistantStep
<1>5. Tools!Next \/ UNCHANGED tools
    BY DEF Next, ResearchStep, AssistantStep
<1>6. UNCHANGED versioning => UNCHANGED Versions!strategyVars
    BY DEF versioning, Versions!strategyVars, Versions!table, Versions!chats
<1>7. UNCHANGED saved => UNCHANGED Saved!screenVars
    BY DEF saved, Saved!screenVars
<1>8. UNCHANGED runs => UNCHANGED Conversation!assistant
    BY DEF runs, Conversation!assistant, Conversation!rows, Conversation!page, Conversation!run, Conversation!deletion
<1>9. UNCHANGED credentials => UNCHANGED Vault!vault
    BY DEF credentials, Vault!vault, Vault!file, Vault!calls
<1>10. UNCHANGED tools => UNCHANGED Tools!toolVars
    BY DEF tools, Tools!toolVars
<1> QED
    BY <1>1, <1>2, <1>3, <1>4, <1>5, <1>6, <1>7, <1>8, <1>9, <1>10 DEF SavedStep

\* SavedWorkInv for every number of saves, screens, indicators and conversations: the versions of a strategy have no gap
\* and no save loses its number, and every reference exists, whatever is deleted in the middle of a save or a run.
THEOREM SavedWorkIsKept == Spec => []SavedWorkInv
<1>1. Init => VersionsIInv /\ SavedIInv
    BY VersionsInit, SavedInit DEF Init, InitOf
<1>2. VersionsIInv /\ SavedIInv /\ [Next]_vars => VersionsIInv' /\ SavedIInv'
    BY StepsOfTheParts, VersionsStep, SavedStepIsOK
<1>3. VersionsIInv /\ SavedIInv => SavedWorkInv
    BY VersionsAreEnough, SavedIsEnough DEF SavedWorkInv
<1> QED
    BY <1>1, <1>2, <1>3, PTL DEF Spec

\* AssistantInv for every number of messages, sockets, logins, refreshes and tool calls: one run writes the file, no
\* refresh token is sent two times, each prompt waits for one answer, and the budget of a message holds.
THEOREM AssistantIsConsistent == Spec => []AssistantInv
<1>1. Init => RunsIInv /\ CredentialFileIInv /\ LoginIInv /\ ToolsIInv
    BY RunsInit, CredentialFileInit, LoginInit, ToolsInit DEF Init, InitOf
<1>2. RunsIInv /\ CredentialFileIInv /\ LoginIInv /\ ToolsIInv /\ [Next]_vars =>
        RunsIInv' /\ CredentialFileIInv' /\ LoginIInv' /\ ToolsIInv'
    BY StepsOfTheParts, RunsStep, CredentialFileStep, LoginStep, ToolsStep
<1>3. RunsIInv /\ CredentialFileIInv /\ LoginIInv /\ ToolsIInv => AssistantInv
    BY RunsAreEnough, VaultIsEnough, ToolsAreEnough DEF AssistantInv
<1> QED
    BY <1>1, <1>2, <1>3, PTL DEF Spec

\* FileIsDeletedAtRest for every number of messages and sockets: a delete of a conversation that meets its runs, its
\* aborts and a second delete never removes the file under a run.
THEOREM FileIsDeletedSafely == Spec => FileIsDeletedAtRest
<1>1. Init => RunsIInv
    BY RunsInit DEF Init, InitOf
<1>2. RunsIInv /\ [Next]_vars => RunsIInv' /\ (file /\ ~file' => active' = Conversation!None)
    BY StepsOfTheParts, RunsStep, FileDeleteStep DEF RunsIInv
<1> QED
    BY <1>1, <1>2, PTL DEF Spec, FileIsDeletedAtRest, Conversation!FileIsDeletedAtRest

\* ChoicesOfUserStay for every number of rows, requests and messages: a Keep cannot come between the check and the
\* update of a change of the AI assistant, and a rename cannot be lost to a title that is being generated.
THEOREM ChoicesAreKept == Spec => ChoicesOfUserStay
<1>1. Init => RunsIInv /\ SavedIInv
    BY RunsInit, SavedInit DEF Init, InitOf
<1>2. RunsIInv /\ SavedIInv /\ [Next]_vars =>
        /\ RunsIInv' /\ SavedIInv'
        /\ Saved!KeptStays(indicators, indicators')
        /\ /\ title_state = "renamed" => title' = "of_user" /\ title_state' = "renamed"
           /\ title_state # "new" => title_state' # "new"
           /\ title_state' = "generating" => title_state \in {"new", "generating"}
    BY StepsOfTheParts, RunsStep, SavedStepIsOK, TitleStep DEF RunsIInv, IndicatorStays, TitleStays
<1> QED
    BY <1>1, <1>2, PTL
    DEF Spec, ChoicesOfUserStay, Saved!KeptIndicatorStays, Conversation!TitleOfUserStays

-----------------------------------------------------------------------------
(* The strategy of the rule builder for one instrument.                    *)

RulesAreTyped ==
    /\ bar \in Nat /\ started \in 0 .. bar /\ position \in Nat \cup {-1} /\ bars_in_position \in Nat
    /\ order \in {"none", "buy", "sell"} /\ order_is_lost \in BOOLEAN /\ is_warm \in BOOLEAN
    /\ last_retry \in -1 .. bar
    /\ previous_values \in Nat \cup {-1}
    /\ sent_rules \subseteq [side : {"buy", "sell"}, bar : 0 .. bar, is_retry : BOOLEAN]

\* A buy is for no position and a sell for one, so the count of the bars starts at the fill of a buy. The last retry is
\* the newest one.
RulesIInv ==
    /\ RulesAreTyped
    /\ order = "buy" => position = -1 /\ bars_in_position = 0
    /\ order = "sell" => position >= 0
    /\ \A r \in sent_rules : r.is_retry => r.bar <= last_retry
    /\ Rules!OneRetryInAPeriod /\ Rules!CrossesSeeTheBarBefore /\ Rules!BarsInPositionAreCounted

\* Between two bars of one period there is only this period.
LEMMA SamePeriod ==
    ASSUME NEW a \in Nat, NEW b \in Nat, NEW c \in Nat, a <= b, b <= c, NEW p \in {1, 2, 3}, a \div p = c \div p
    PROVE  b \div p = c \div p
<1>1. CASE p = 1
    BY <1>1
<1>2. CASE p = 2
    BY <1>2
<1>3. CASE p = 3
    BY <1>3
<1> QED
    BY <1>1, <1>2, <1>3

\* A retry in a period in which none was sent since the last one.
LEMMA RetryIsAlone ==
    ASSUME RulesIInv, NEW side \in {"buy", "sell"}, bar' = bar + 1,
           order_is_lost => last_retry < 0 \/ bar' \div Rules!RetryPeriod(side) # last_retry \div Rules!RetryPeriod(side),
           sent_rules' = sent_rules \cup {[side |-> side, bar |-> bar', is_retry |-> order_is_lost]}
    PROVE  Rules!OneRetryInAPeriod'
<1> DEFINE new == [side |-> side, bar |-> bar', is_retry |-> order_is_lost]
<1>1. bar \in Nat /\ bar' \in Nat /\ last_retry \in -1 .. bar /\ Rules!RetryPeriod(side) \in {1, 2, 3}
    BY DEF RulesIInv, RulesAreTyped, Rules!RetryPeriod, Rules!EntryRetryPeriod, Rules!ExitRetryPeriod
<1>2. ASSUME order_is_lost, NEW r \in sent_rules, r.is_retry, r.side = side,
             r.bar \div Rules!RetryPeriod(side) = bar' \div Rules!RetryPeriod(side)
      PROVE  FALSE
    <2>1. r.bar \in 0 .. bar /\ r.bar <= last_retry
        BY <1>2 DEF RulesIInv, RulesAreTyped
    <2>2. last_retry \in Nat /\ last_retry <= bar' /\ r.bar \in Nat
        BY <1>1, <2>1
    <2>3. last_retry \div Rules!RetryPeriod(side) = bar' \div Rules!RetryPeriod(side)
        BY <1>1, <1>2, <2>1, <2>2, SamePeriod
    <2> QED
        BY <1>2, <2>2, <2>3
<1>3. ASSUME NEW r1 \in sent_rules', NEW r2 \in sent_rules', r1.is_retry, r2.is_retry, r1.side = r2.side,
             r1.bar \div Rules!RetryPeriod(r1.side) = r2.bar \div Rules!RetryPeriod(r1.side)
      PROVE  r1 = r2
    <2>1. new.side = side /\ new.bar = bar' /\ new.is_retry = order_is_lost
        OBVIOUS
    <2>2. r1 \in sent_rules \cup {new} /\ r2 \in sent_rules \cup {new}
        OBVIOUS
    <2> HIDE DEF new
    <2>3. CASE r1 \in sent_rules /\ r2 \in sent_rules
        BY <1>3, <2>3 DEF RulesIInv, Rules!OneRetryInAPeriod
    <2>4. CASE r1 = new /\ r2 \in sent_rules
        BY <1>2, <1>3, <2>1, <2>4
    <2>5. CASE r2 = new /\ r1 \in sent_rules
        BY <1>2, <1>3, <2>1, <2>5
    <2> QED
        BY <2>2, <2>3, <2>4, <2>5
<1> QED
    BY <1>3 DEF Rules!OneRetryInAPeriod, Rules!RetryPeriod, Rules!EntryRetryPeriod, Rules!ExitRetryPeriod

\* A bar of the instrument: an entry, an exit or a retry sends at most one order.
LEMMA RulesBarStep ==
    ASSUME RulesIInv, NEW now_ \in {bar + 1, Rules!NoValues}, NEW is_true \in BOOLEAN, Rules!OnBar(now_, is_true)
    PROVE  RulesIInv'
<1> DEFINE side == IF position = -1 THEN "buy" ELSE "sell"
           sends == order' = side /\ order_is_lost' = FALSE
                    /\ last_retry' = (IF order_is_lost THEN bar' ELSE last_retry)
                    /\ sent_rules' = sent_rules \cup {[side |-> side, bar |-> bar', is_retry |-> order_is_lost]}
                    /\ order = "none"
                    /\ (order_is_lost =>
                        last_retry < 0 \/ bar' \div Rules!RetryPeriod(side) # last_retry \div Rules!RetryPeriod(side))
           waits_ == UNCHANGED <<order, order_is_lost, last_retry, sent_rules>>
<1>1. /\ bar' = bar + 1 /\ now_ \in {bar', -1} /\ (is_warm \/ valued # {} => now_ = bar')
      /\ position' = (IF position = -1 THEN -1 ELSE position + 1)
      /\ bars_in_position' = (IF position = -1 THEN 0 ELSE bars_in_position + 1)
      /\ previous_values' = now_ /\ valued' = valued \cup ({now_} \ {-1})
      /\ UNCHANGED <<started, is_warm>>
    BY DEF Rules!OnBar, Rules!NoPosition, Rules!NoValues
<1>2. sends \/ waits_
    BY DEF Rules!OnBar, Rules!NoPosition, Rules!SendOrder, Rules!SendNothing, Rules!CanSendOrder, Rules!RetryPeriod
<1>3. /\ bar \in Nat /\ bar' \in Nat /\ started \in 0 .. bar /\ position \in Nat \cup {-1} /\ bars_in_position \in Nat
      /\ order \in {"none", "buy", "sell"} /\ order_is_lost \in BOOLEAN /\ is_warm \in BOOLEAN
      /\ last_retry \in -1 .. bar /\ side \in {"buy", "sell"}
      /\ sent_rules \subseteq [side : {"buy", "sell"}, bar : 0 .. bar, is_retry : BOOLEAN]
    BY <1>1 DEF RulesIInv, RulesAreTyped
<1>4. /\ started \in 0 .. bar' /\ position' \in Nat \cup {-1} /\ bars_in_position' \in Nat
      /\ previous_values' \in Nat \cup {-1}
    BY <1>1, <1>3
<1>5. RulesAreTyped'
    <2>1. [side : {"buy", "sell"}, bar : 0 .. bar, is_retry : BOOLEAN] \subseteq
            [side : {"buy", "sell"}, bar : 0 .. bar', is_retry : BOOLEAN]
        BY <1>1, <1>3
    <2>2. CASE sends
        <3>1. [side |-> side, bar |-> bar', is_retry |-> order_is_lost] \in
                [side : {"buy", "sell"}, bar : 0 .. bar', is_retry : BOOLEAN]
            BY <1>3
        <3>2. last_retry' \in -1 .. bar'
            BY <1>1, <1>3, <2>2
        <3> QED
            BY <1>1, <1>3, <1>4, <2>1, <2>2, <3>1, <3>2 DEF RulesAreTyped
    <2>3. CASE waits_
        BY <1>1, <1>3, <1>4, <2>1, <2>3 DEF RulesAreTyped
    <2> QED
        BY <1>2, <2>2, <2>3
<1>6. /\ order' = "buy" => position' = -1 /\ bars_in_position' = 0
      /\ order' = "sell" => position' >= 0
    BY <1>1, <1>2, <1>3 DEF RulesIInv
<1>7. ASSUME NEW r \in sent_rules', r.is_retry PROVE r.bar <= last_retry'
    <2>1. ASSUME NEW q \in sent_rules, q.is_retry PROVE q.bar <= last_retry /\ q.bar \in 0 .. bar
        BY <1>3, <2>1 DEF RulesIInv
    <2>2. CASE sends
        BY <1>1, <1>3, <1>7, <2>1, <2>2
    <2>3. CASE waits_
        BY <1>7, <2>1, <2>3
    <2> QED
        BY <1>2, <2>2, <2>3
<1>8. Rules!OneRetryInAPeriod'
    <2>1. CASE sends
        BY <1>1, <1>3, <2>1, RetryIsAlone
    <2>2. CASE waits_
        BY <2>2 DEF RulesIInv, Rules!OneRetryInAPeriod, Rules!RetryPeriod, Rules!EntryRetryPeriod, Rules!ExitRetryPeriod
    <2> QED
        BY <1>2, <2>1, <2>2
<1>9. Rules!CrossesSeeTheBarBefore'
    BY <1>1, <1>3 DEF Rules!CrossesSeeTheBarBefore
<1>10. Rules!BarsInPositionAreCounted'
    BY <1>1, <1>3 DEF RulesIInv, Rules!BarsInPositionAreCounted
<1> QED
    BY <1>5, <1>6, <1>7, <1>8, <1>9, <1>10 DEF RulesIInv

\* Each step of the strategy, of its order and of its restart keeps the invariant.
LEMMA RulesStep == RulesIInv /\ (Rules!Next \/ UNCHANGED rules_strategy) => RulesIInv'
<1> SUFFICES ASSUME RulesIInv, Rules!Next \/ UNCHANGED rules_strategy PROVE RulesIInv'
    OBVIOUS
<1> USE DEF Rules!NoValues, Rules!NoPosition
<1>1. ASSUME NEW now_ \in {bar + 1, Rules!NoValues}, NEW is_true \in BOOLEAN, Rules!OnBar(now_, is_true) PROVE RulesIInv'
    BY <1>1, RulesBarStep
<1>2. CASE Rules!OnHistoricalBars
    <2>1. valued # {} => previous_values = bar /\ previous_values # -1
        BY DEF RulesIInv, RulesAreTyped, Rules!CrossesSeeTheBarBefore
    <2>2. /\ UNCHANGED <<bars_in_position, order_is_lost, last_retry, position, order, bar, started, valued, sent_rules>>
          /\ is_warm' = TRUE
          /\ previous_values' = IF previous_values = -1 THEN started ELSE previous_values
        BY <1>2 DEF Rules!OnHistoricalBars, Rules!PreviousAfterLookBack
    <2>3. Rules!OneRetryInAPeriod' /\ Rules!BarsInPositionAreCounted' /\ Rules!CrossesSeeTheBarBefore'
        BY <2>1, <2>2 DEF RulesIInv, Rules!OneRetryInAPeriod, Rules!RetryPeriod, Rules!BarsInPositionAreCounted,
            Rules!CrossesSeeTheBarBefore, Rules!EntryRetryPeriod, Rules!ExitRetryPeriod
    <2>4. RulesAreTyped'
        BY <2>2 DEF RulesIInv, RulesAreTyped
    <2> QED
        BY <2>2, <2>3, <2>4 DEF RulesIInv
<1>3. CASE Rules!OrderFills
    <2>1. /\ order # "none" /\ order' = "none" /\ position' = IF order = "buy" THEN 0 ELSE -1
          /\ UNCHANGED <<previous_values, bars_in_position, order_is_lost, last_retry, bar, started, is_warm, valued,
                         sent_rules>>
        BY <1>3 DEF Rules!OrderFills
    <2>2. Rules!OneRetryInAPeriod' /\ Rules!CrossesSeeTheBarBefore'
        BY <2>1 DEF RulesIInv, Rules!OneRetryInAPeriod, Rules!RetryPeriod, Rules!CrossesSeeTheBarBefore,
            Rules!EntryRetryPeriod, Rules!ExitRetryPeriod
    <2>3. Rules!BarsInPositionAreCounted'
        BY <2>1 DEF RulesIInv, RulesAreTyped, Rules!BarsInPositionAreCounted
    <2>4. RulesAreTyped'
        BY <2>1 DEF RulesIInv, RulesAreTyped
    <2> QED
        BY <2>1, <2>2, <2>3, <2>4 DEF RulesIInv
<1>4. CASE Rules!OrderIsLost
    <2>1. /\ order' = "none" /\ order_is_lost' = TRUE
          /\ UNCHANGED <<previous_values, bars_in_position, last_retry, position, bar, started, is_warm, valued,
                         sent_rules>>
        BY <1>4 DEF Rules!OrderIsLost
    <2>2. Rules!OneRetryInAPeriod' /\ Rules!BarsInPositionAreCounted' /\ Rules!CrossesSeeTheBarBefore'
        BY <2>1 DEF RulesIInv, Rules!OneRetryInAPeriod, Rules!RetryPeriod, Rules!BarsInPositionAreCounted,
            Rules!CrossesSeeTheBarBefore, Rules!EntryRetryPeriod, Rules!ExitRetryPeriod
    <2>3. RulesAreTyped'
        BY <2>1 DEF RulesIInv, RulesAreTyped
    <2> QED
        BY <2>1, <2>2, <2>3 DEF RulesIInv
<1>5. CASE Rules!Restart
    <2>1. /\ order' = "none" /\ started' = bar /\ previous_values' = -1 /\ bars_in_position' = 0
          /\ order_is_lost' = FALSE /\ last_retry' = -1 /\ is_warm' = FALSE /\ valued' = {} /\ sent_rules' = {}
          /\ UNCHANGED <<position, bar>>
        BY <1>5 DEF Rules!Restart
    <2>2. RulesAreTyped'
        <3>1. bar \in Nat /\ position \in Nat \cup {-1}
            BY DEF RulesIInv, RulesAreTyped
        <3>2. -1 \in -1 .. bar /\ bar \in 0 .. bar /\ -1 \in Nat \cup {-1}
            BY <3>1
        <3> QED
            BY <2>1, <3>1, <3>2 DEF RulesAreTyped
    <2>3. Rules!BarsInPositionAreCounted'
        BY <2>1 DEF RulesIInv, RulesAreTyped, Rules!BarsInPositionAreCounted
    <2> QED
        BY <2>1, <2>2, <2>3 DEF RulesIInv, Rules!OneRetryInAPeriod, Rules!CrossesSeeTheBarBefore
<1>6. CASE UNCHANGED rules_strategy
    <2>1. Rules!OneRetryInAPeriod' /\ Rules!BarsInPositionAreCounted' /\ Rules!CrossesSeeTheBarBefore'
        BY <1>6 DEF rules_strategy, RulesIInv, Rules!OneRetryInAPeriod, Rules!RetryPeriod,
            Rules!BarsInPositionAreCounted, Rules!CrossesSeeTheBarBefore, Rules!EntryRetryPeriod, Rules!ExitRetryPeriod
    <2>2. RulesAreTyped'
        BY <1>6 DEF rules_strategy, RulesIInv, RulesAreTyped
    <2> QED
        BY <1>6, <2>1, <2>2 DEF RulesIInv, rules_strategy
<1> QED
    BY <1>1, <1>2, <1>3, <1>4, <1>5, <1>6 DEF Rules!Next

\* A new strategy without a position has it.
LEMMA RulesInit == Init => RulesIInv
<1> SUFFICES ASSUME Init PROVE RulesIInv
    OBVIOUS
<1>1. /\ bar = 0 /\ started = 0 /\ position = -1 /\ bars_in_position = 0 /\ order = "none" /\ order_is_lost = FALSE
      /\ is_warm = FALSE /\ last_retry = -1 /\ previous_values = -1 /\ sent_rules = {} /\ valued = {}
    BY DEF Init, InitOf, Rules!Init, Rules!NoValues
<1>2. RulesAreTyped
    <2>1. -1 \in -1 .. 0 /\ 0 \in 0 .. 0 /\ -1 \in Nat \cup {-1}
        OBVIOUS
    <2> QED
        BY <1>1, <2>1 DEF RulesAreTyped
<1>3. Rules!BarsInPositionAreCounted
    BY <1>1 DEF Rules!BarsInPositionAreCounted
<1> QED
    BY <1>1, <1>2, <1>3 DEF RulesIInv, Rules!OneRetryInAPeriod, Rules!CrossesSeeTheBarBefore

-----------------------------------------------------------------------------
(* The strategy of the rule builder for a universe. The parts of a handler *)
(* work on a state `s`, so the invariant is one of `s` too.                *)

Sides == {"buy", "sell"}
HasSide(q, side) == \E k \in DOMAIN q : q[k] = side
Held(s) == positions \cup {m \in Members : HasSide(s.orders[m], "buy")}

TraderIsTyped(s) ==
    /\ DOMAIN s = {"memory", "orders", "retries", "old_sells"}
    /\ DOMAIN s.memory = {"members", "values", "period", "is_due", "wait", "last_bar_time", "buys", "targets", "lost",
                          "retry_times", "has_ranked"}
    /\ s.memory.members \subseteq Members
    /\ s.memory.targets \subseteq s.memory.members \cap DOMAIN s.memory.values
    /\ s.memory.buys \subseteq Members
    /\ s.memory.lost \subseteq Members
    /\ \A m \in DOMAIN s.memory.values : s.memory.values[m] \in Int
    /\ s.memory.retry_times \in [Members -> -1 .. time]
    /\ s.orders \in [Members -> Seq(Sides)]

\* A retry is the only one of its side in its period, which is not after the last retry of the member.
RetriesAreAlone(s) ==
    \A r \in s.retries :
        /\ r.number = 1
        /\ r.key.member \in Members /\ s.memory.retry_times[r.key.member] >= 0
        /\ r.key.period \in Nat
        /\ r.key.period <= s.memory.retry_times[r.key.member] \div (IF r.key.side = "sell" THEN 1 ELSE 2)

\* A target has no new sell.
TargetsAreKept(s) == \A m \in s.memory.targets : HasSide(s.orders[m], "sell") => m \in s.old_sells

\* No target without a position is forgotten, but those of `ms`, for which the handler is about to send orders.
AllIsRemembered(s, ms) ==
    \A m \in s.memory.targets \ positions :
        s.orders[m] # <<>> \/ m \in s.memory.buys \cup s.memory.lost \cup s.old_sells \cup ms

TargetsFit(s) == Cardinality(s.memory.targets) <= HoldCount /\ Cardinality(Held(s)) <= HoldCount

IsSound(s, ms) ==
    TraderIsTyped(s) /\ RetriesAreAlone(s) /\ TargetsAreKept(s) /\ AllIsRemembered(s, ms) /\ TargetsFit(s)

\* The buys that wait and the targets fit together: an exit takes a target away, and not its buy.
BuysFit(s) == Cardinality(s.memory.targets \cup s.memory.buys) <= HoldCount

IsGood(s) == IsSound(s, {}) /\ BuysFit(s)

TraderIInv == positions \subseteq Members /\ time \in Nat /\ IsGood(Universe!State)

\* Parts of the members have a size, and a part of a part no larger one.
LEMMA MembersAreFinite ==
    /\ HoldCount \in Nat /\ Members \subseteq Nat
    /\ \A S \in SUBSET Members : IsFiniteSet(S) /\ Cardinality(S) \in Nat
    /\ \A S, T \in SUBSET Members : S \subseteq T => Cardinality(S) <= Cardinality(T)
<1>1. HoldCount \in Nat /\ Members \subseteq Nat /\ IsFiniteSet(Members)
    BY ResearchAssumption
<1>2. \A S \in SUBSET Members : IsFiniteSet(S) /\ Cardinality(S) \in Nat
    BY <1>1, FS_Subset, FS_CardinalityType
<1>3. ASSUME NEW S \in SUBSET Members, NEW T \in SUBSET Members, S \subseteq T PROVE Cardinality(S) <= Cardinality(T)
    BY <1>2, <1>3, FS_Subset
<1> QED
    BY <1>1, <1>2, <1>3

\* One more order at the end adds its side.
LEMMA AppendSide ==
    ASSUME NEW q \in Seq(Sides), NEW side \in Sides
    PROVE  /\ Append(q, side) \in Seq(Sides) /\ Append(q, side) # <<>>
           /\ \A x : HasSide(Append(q, side), x) <=> HasSide(q, x) \/ x = side
<1>1. /\ Append(q, side) \in Seq(Sides) /\ Len(Append(q, side)) = Len(q) + 1 /\ Len(q) \in Nat
      /\ DOMAIN q = 1 .. Len(q) /\ DOMAIN Append(q, side) = 1 .. Len(q) + 1
    OBVIOUS
<1>2. \A k \in 1 .. Len(q) : Append(q, side)[k] = q[k]
    OBVIOUS
<1>3. Append(q, side)[Len(q) + 1] = side
    OBVIOUS
<1>4. Append(q, side) # <<>>
    BY <1>1
<1>5. ASSUME NEW x PROVE HasSide(Append(q, side), x) <=> HasSide(q, x) \/ x = side
    <2>1. \A k : k \in 1 .. Len(q) + 1 <=> k \in 1 .. Len(q) \/ k = Len(q) + 1
        BY <1>1
    <2> QED
        BY <1>1, <1>2, <1>3, <2>1, Zenon DEF HasSide
<1> QED
    BY <1>1, <1>4, <1>5

\* The first order has a side of the list, and the rest no other ones.
LEMMA TailSide ==
    ASSUME NEW q \in Seq(Sides), q # <<>>
    PROVE  /\ Tail(q) \in Seq(Sides) /\ Head(q) \in Sides /\ HasSide(q, Head(q))
           /\ \A x : HasSide(Tail(q), x) => HasSide(q, x)
<1>1. Tail(q) \in Seq(Sides) /\ Head(q) = q[1] /\ Len(q) \in Nat /\ Len(q) >= 1 /\ DOMAIN q = 1 .. Len(q)
      /\ Len(Tail(q)) = Len(q) - 1 /\ DOMAIN Tail(q) = 1 .. Len(q) - 1
    OBVIOUS
<1>2. \A k \in 1 .. Len(q) - 1 : Tail(q)[k] = q[k + 1]
    OBVIOUS
<1>3. HasSide(q, Head(q)) /\ Head(q) \in Sides
    BY <1>1 DEF HasSide
<1>4. ASSUME NEW x, HasSide(Tail(q), x) PROVE HasSide(q, x)
    <2>1. PICK k \in 1 .. Len(q) - 1 : Tail(q)[k] = x
        BY <1>1, <1>4 DEF HasSide
    <2>2. k + 1 \in DOMAIN q /\ q[k + 1] = x
        BY <1>1, <1>2, <2>1
    <2> QED
        BY <2>2 DEF HasSide
<1> QED
    BY <1>1, <1>3, <1>4

\* What `SendAll` does to a state: each member of `ms` has one more order.
LEMMA SendAllIs ==
    ASSUME NEW s, TraderIsTyped(s), NEW ms, NEW side \in Sides
    PROVE  LET t == Universe!SendAll(s, ms, side)
           IN  /\ TraderIsTyped(t)
               /\ t.memory = s.memory /\ t.retries = s.retries /\ t.old_sells = s.old_sells
               /\ \A m \in Members : t.orders[m] = <<>> <=> s.orders[m] = <<>> /\ m \notin ms
               /\ \A m \in Members, x \in Sides :
                    HasSide(t.orders[m], x) <=> HasSide(s.orders[m], x) \/ (m \in ms /\ x = side)
<1> DEFINE t == Universe!SendAll(s, ms, side)
<1>1. DOMAIN t = DOMAIN s /\ t.memory = s.memory /\ t.retries = s.retries /\ t.old_sells = s.old_sells
    BY DEF Universe!SendAll, TraderIsTyped
<1>2. t.orders = [m \in Members |-> IF m \in ms THEN Append(s.orders[m], side) ELSE s.orders[m]]
    BY DEF Universe!SendAll, TraderIsTyped
<1>3. \A m \in Members : s.orders[m] \in Seq(Sides)
    BY DEF TraderIsTyped
<1> HIDE DEF t
<1>4. \A m \in Members : t.orders[m] \in Seq(Sides)
    BY <1>2, <1>3, AppendSide
<1>5. t.orders \in [Members -> Seq(Sides)]
    BY <1>2, <1>4
<1>6. TraderIsTyped(t)
    BY <1>1, <1>5 DEF TraderIsTyped
<1>7. \A m \in Members : t.orders[m] = <<>> <=> s.orders[m] = <<>> /\ m \notin ms
    BY <1>2, <1>3, AppendSide
<1>8. \A m \in Members, x \in Sides : HasSide(t.orders[m], x) <=> HasSide(s.orders[m], x) \/ (m \in ms /\ x = side)
    BY <1>2, <1>3, AppendSide
<1> QED
    BY <1>1, <1>6, <1>7, <1>8 DEF t

\* What is held or bought is a part of the members.
LEMMA HeldIs ==
    ASSUME positions \subseteq Members, NEW s
    PROVE  Held(s) \subseteq Members /\ Cardinality(Held(s)) \in Nat
BY MembersAreFinite DEF Held

\* The buys are sent when no order is open and only targets are held: so they and the targets are all that is held.
LEMMA SendBuysIsGood ==
    ASSUME positions \subseteq Members, NEW s, IsGood(s) PROVE IsGood(Universe!SendBuys(s))
<1> DEFINE buys == {m \in s.memory.buys : m \in s.memory.members /\ m \in DOMAIN s.memory.values}
           taken == [s EXCEPT !.memory.buys = {}]
           t == Universe!SendAll(taken, buys, "buy")
<1>1. TraderIsTyped(s) /\ RetriesAreAlone(s) /\ TargetsAreKept(s) /\ AllIsRemembered(s, {}) /\ TargetsFit(s) /\ BuysFit(s)
    BY DEF IsGood, IsSound
<1>2. CASE s.memory.buys = {} \/ Universe!HasAnyOrder(s) \/ Universe!HasPositionsToSell(s)
    BY <1>2 DEF Universe!SendBuys
<1>3. CASE s.memory.buys # {} /\ ~Universe!HasAnyOrder(s) /\ ~Universe!HasPositionsToSell(s)
    <2>1. Universe!SendBuys(s) = t
        BY <1>3 DEF Universe!SendBuys
    <2>2. (\A m \in Members : s.orders[m] = <<>>) /\ positions \subseteq s.memory.targets
        BY <1>3 DEF Universe!HasAnyOrder, Universe!HasOrders, Universe!HasPositionsToSell
    <2>3. /\ taken.memory = [s.memory EXCEPT !.buys = {}] /\ taken.orders = s.orders /\ taken.retries = s.retries
          /\ taken.old_sells = s.old_sells /\ DOMAIN taken = DOMAIN s
        BY <1>1 DEF TraderIsTyped
    <2>4. /\ taken.memory.members = s.memory.members /\ taken.memory.values = s.memory.values
          /\ taken.memory.targets = s.memory.targets /\ taken.memory.buys = {} /\ taken.memory.lost = s.memory.lost
          /\ taken.memory.retry_times = s.memory.retry_times /\ DOMAIN taken.memory = DOMAIN s.memory
        BY <1>1, <2>3 DEF TraderIsTyped
    <2> HIDE DEF taken
    <2>5. TraderIsTyped(taken)
        BY <1>1, <2>3, <2>4 DEF TraderIsTyped
    <2>6. /\ TraderIsTyped(t)
          /\ t.memory = taken.memory /\ t.retries = s.retries /\ t.old_sells = s.old_sells
          /\ \A m \in Members : t.orders[m] = <<>> <=> s.orders[m] = <<>> /\ m \notin buys
          /\ \A m \in Members, x \in Sides :
                HasSide(t.orders[m], x) <=> HasSide(s.orders[m], x) \/ (m \in buys /\ x = "buy")
        BY <2>3, <2>5, SendAllIs DEF Sides
    <2> HIDE DEF t, buys
    <2>7. ASSUME NEW x PROVE ~HasSide(<<>>, x)
        BY DEF HasSide
    <2>8. \A m \in Members, x \in Sides : HasSide(t.orders[m], x) <=> m \in buys /\ x = "buy"
        BY <2>2, <2>6, <2>7
    <2>9. RetriesAreAlone(t)
        BY <1>1, <2>4, <2>6 DEF RetriesAreAlone
    <2>10. s.memory.targets \subseteq Members /\ buys \subseteq s.memory.buys /\ s.memory.buys \subseteq Members
        BY <1>1 DEF TraderIsTyped, buys
    <2>11. TargetsAreKept(t)
        BY <2>4, <2>6, <2>8, <2>10 DEF TargetsAreKept, Sides
    <2>12. AllIsRemembered(t, {})
        <3>1. ASSUME NEW m \in s.memory.targets \ positions, m \in s.memory.buys PROVE t.orders[m] # <<>>
            <4>1. m \in buys
                BY <1>1, <3>1 DEF TraderIsTyped, buys
            <4> QED
                BY <2>6, <2>10, <4>1
        <3> QED
            BY <1>1, <2>2, <2>4, <2>6, <2>10, <3>1 DEF AllIsRemembered
    <2>13. Held(t) \subseteq s.memory.targets \cup s.memory.buys
        BY <2>2, <2>8, <2>10 DEF Held, Sides
    <2>14. Cardinality(Held(t)) <= HoldCount
        <3>1. s.memory.targets \cup s.memory.buys \in SUBSET Members /\ Held(t) \in SUBSET Members
            BY <2>10, HeldIs
        <3>2. Cardinality(Held(t)) <= Cardinality(s.memory.targets \cup s.memory.buys)
            BY <2>13, <3>1, MembersAreFinite
        <3> QED
            BY <1>1, <3>1, <3>2, MembersAreFinite DEF BuysFit
    <2>15. TargetsFit(t)
        BY <1>1, <2>4, <2>6, <2>14 DEF TargetsFit
    <2>16. BuysFit(t)
        <3>1. t.memory.targets \cup t.memory.buys = s.memory.targets
            BY <2>4, <2>6
        <3> QED
            BY <1>1, <3>1 DEF BuysFit, TargetsFit
    <2> QED
        BY <2>1, <2>6, <2>9, <2>11, <2>12, <2>15, <2>16 DEF IsGood, IsSound
<1> QED
    BY <1>2, <1>3

\* A rebalance and a retry send orders: sells of what is not a target, and buys of the targets.
LEMMA SendTargetOrdersIsGood ==
    ASSUME positions \subseteq Members, NEW s, NEW ms, IsSound(s, ms)
    PROVE  IsGood(Universe!SendTargetOrders(s, ms))
<1> DEFINE sells == {m \in positions \cap ms : m \notin s.memory.targets /\ ~Universe!HasOrders(s, m)}
           sold == Universe!SendAll(s, sells, "sell")
           buys == {m \in s.memory.targets :
                        m \in ms \cup s.memory.buys /\ m \notin positions /\ ~Universe!HasOrders(sold, m)}
           t == [sold EXCEPT !.memory.buys = buys]
<1>1. TraderIsTyped(s) /\ RetriesAreAlone(s) /\ TargetsAreKept(s) /\ AllIsRemembered(s, ms) /\ TargetsFit(s)
    BY DEF IsSound
<1>2. Universe!SendTargetOrders(s, ms) = Universe!SendBuys(t)
    BY DEF Universe!SendTargetOrders
<1>3. /\ TraderIsTyped(sold)
      /\ sold.memory = s.memory /\ sold.retries = s.retries /\ sold.old_sells = s.old_sells
      /\ \A m \in Members : sold.orders[m] = <<>> <=> s.orders[m] = <<>> /\ m \notin sells
      /\ \A m \in Members, x \in Sides :
            HasSide(sold.orders[m], x) <=> HasSide(s.orders[m], x) \/ (m \in sells /\ x = "sell")
    BY <1>1, SendAllIs DEF Sides
<1>4. /\ s.memory.targets \subseteq Members /\ sells \cap s.memory.targets = {} /\ buys \subseteq s.memory.targets
    BY <1>1 DEF TraderIsTyped
<1>5. \A m \in s.memory.targets : m \in ms \cup s.memory.buys /\ m \notin positions => m \in buys \/ sold.orders[m] # <<>>
    BY DEF Universe!HasOrders
<1> HIDE DEF sells, sold, buys
<1>6. /\ t.memory = [sold.memory EXCEPT !.buys = buys] /\ t.orders = sold.orders /\ t.retries = sold.retries
      /\ t.old_sells = sold.old_sells /\ DOMAIN t = DOMAIN sold
    BY <1>3 DEF TraderIsTyped
<1>7. /\ t.memory.members = s.memory.members /\ t.memory.values = s.memory.values
      /\ t.memory.targets = s.memory.targets /\ t.memory.buys = buys /\ t.memory.lost = s.memory.lost
      /\ t.memory.retry_times = s.memory.retry_times /\ DOMAIN t.memory = DOMAIN s.memory
    BY <1>1, <1>3, <1>6 DEF TraderIsTyped
<1> HIDE DEF t
<1>8. TraderIsTyped(t)
    BY <1>1, <1>3, <1>4, <1>6, <1>7 DEF TraderIsTyped
<1>9. RetriesAreAlone(t)
    BY <1>1, <1>3, <1>6, <1>7 DEF RetriesAreAlone
<1>10. TargetsAreKept(t)
    BY <1>1, <1>3, <1>4, <1>6, <1>7 DEF TargetsAreKept, Sides
<1>11. AllIsRemembered(t, {})
    BY <1>1, <1>3, <1>4, <1>5, <1>6, <1>7 DEF AllIsRemembered
<1>12. Held(t) = Held(s)
    BY <1>3, <1>6 DEF Held, Sides
<1>13. TargetsFit(t)
    BY <1>1, <1>7, <1>12 DEF TargetsFit
<1>14. BuysFit(t)
    <2>1. t.memory.targets \cup t.memory.buys = s.memory.targets
        BY <1>4, <1>7
    <2> QED
        BY <1>1, <2>1 DEF BuysFit, TargetsFit
<1> QED
    BY <1>2, <1>8, <1>9, <1>10, <1>11, <1>13, <1>14, SendBuysIsGood DEF IsGood, IsSound

\* The first HoldCount of a strict order: each of them has another number of members before it.
LEMMA FirstOfOrder ==
    ASSUME NEW R \in SUBSET Members, NEW value, \A m \in R : value[m] \in Int
    PROVE  Cardinality({m \in R : Cardinality({n \in R : value[n] > value[m] \/ (value[n] = value[m] /\ n < m)})
                                  < HoldCount}) <= HoldCount
<1> DEFINE precedes(a, b) == value[a] > value[b] \/ (value[a] = value[b] /\ a < b)
           before(m) == {n \in R : precedes(n, m)}
           T == {m \in R : Cardinality(before(m)) < HoldCount}
           place == [m \in T |-> Cardinality(before(m))]
<1>1. HoldCount \in Nat /\ R \subseteq Nat /\ IsFiniteSet(R)
    BY MembersAreFinite
<1>2. \A m \in R : IsFiniteSet(before(m)) /\ Cardinality(before(m)) \in Nat
    BY MembersAreFinite
<1>3. ASSUME NEW a \in R, NEW b \in R, precedes(a, b) PROVE Cardinality(before(a)) < Cardinality(before(b))
    <2>1. a \in Nat /\ b \in Nat /\ value[a] \in Int /\ value[b] \in Int
        BY <1>1
    <2>2. before(a) \subseteq before(b)
        <3>1. ASSUME NEW n \in R, precedes(n, a) PROVE precedes(n, b)
            <4>1. n \in Nat /\ value[n] \in Int
                BY <1>1
            <4> QED
                BY <1>3, <2>1, <3>1, <4>1
        <3> QED
            BY <3>1
    <2>3. a \in before(b) /\ a \notin before(a)
        BY <1>3, <2>1
    <2> HIDE DEF before
    <2>4. before(a) \in SUBSET before(b) /\ before(a) # before(b)
        BY <2>2, <2>3
    <2> QED
        BY <1>2, <2>4, FS_Subset
<1>4. \A m \in T : m \in R /\ Cardinality(before(m)) \in 0 .. HoldCount - 1
    BY <1>1, <1>2
<1>5. ASSUME NEW a \in T, NEW b \in T, a # b PROVE place[a] # place[b]
    <2>1. a \in R /\ b \in R /\ a \in Nat /\ b \in Nat /\ value[a] \in Int /\ value[b] \in Int
        BY <1>1
    <2>2. precedes(a, b) \/ precedes(b, a)
        BY <1>5, <2>1
    <2>3. place[a] = Cardinality(before(a)) /\ place[b] = Cardinality(before(b))
        OBVIOUS
    <2> HIDE DEF precedes, place, before
    <2> QED
        BY <1>2, <1>3, <2>1, <2>2, <2>3
<1> HIDE DEF before
<1>6. place \in [T -> 0 .. HoldCount - 1]
    BY <1>4
<1> HIDE DEF place, T
<1>7. place \in Injection(T, 0 .. HoldCount - 1)
    BY <1>5, <1>6 DEF Injection, IsInjective
<1>8. IsFiniteSet(0 .. HoldCount - 1) /\ Cardinality(0 .. HoldCount - 1) = HoldCount
    <2>1. /\ IsFiniteSet(0 .. HoldCount - 1)
          /\ Cardinality(0 .. HoldCount - 1) = IF 0 > HoldCount - 1 THEN 0 ELSE HoldCount - 1 - 0 + 1
        BY <1>1, FS_Interval
    <2> QED
        BY <1>1, <2>1
<1>9. Cardinality(T) <= HoldCount
    BY <1>7, <1>8, FS_Injection
<1> QED
    BY <1>9 DEF T, before

\* A change of the memory that leaves the orders, the members, their values and the retries.
IsKept(s, t) ==
    /\ DOMAIN t = DOMAIN s /\ DOMAIN t.memory = DOMAIN s.memory
    /\ t.orders = s.orders /\ t.retries = s.retries
    /\ t.memory.members = s.memory.members /\ t.memory.values = s.memory.values
    /\ t.memory.buys = s.memory.buys /\ t.memory.lost = s.memory.lost /\ t.memory.retry_times = s.memory.retry_times

\* The same members, targets and orders are as good.
LEMMA KeptIsGood ==
    ASSUME NEW s, NEW t, IsGood(s), IsKept(s, t), t.memory.targets = s.memory.targets, t.old_sells = s.old_sells
    PROVE  IsGood(t)
<1>1. TraderIsTyped(s) /\ RetriesAreAlone(s) /\ TargetsAreKept(s) /\ AllIsRemembered(s, {}) /\ TargetsFit(s) /\ BuysFit(s)
    BY DEF IsGood, IsSound
<1>2. TraderIsTyped(t)
    BY <1>1 DEF IsKept, TraderIsTyped
<1>3. RetriesAreAlone(t)
    BY <1>1 DEF IsKept, RetriesAreAlone
<1>4. TargetsAreKept(t) /\ AllIsRemembered(t, {})
    BY <1>1 DEF IsKept, TargetsAreKept, AllIsRemembered
<1>5. TargetsFit(t) /\ BuysFit(t)
    BY <1>1 DEF IsKept, TargetsFit, BuysFit, Held
<1> QED
    BY <1>2, <1>3, <1>4, <1>5 DEF IsGood, IsSound

\* A rebalance has its targets from the values alone. The rest it gives to send_target_orders.
LEMMA RebalanceIsGood ==
    ASSUME positions \subseteq Members, NEW s, IsGood(s) PROVE IsGood(Universe!Rebalance(s))
<1> DEFINE value == s.memory.values
           ranked == {m \in s.memory.members \cap DOMAIN s.memory.values : s.memory.values[m] > 0}
           targets == {m \in ranked :
                Universe!Cardinality({n \in ranked : value[n] > value[m] \/ (value[n] = value[m] /\ n < m)}) < HoldCount}
           old == {m \in targets : \E k \in DOMAIN s.orders[m] : s.orders[m][k] = "sell"}
           t == [s EXCEPT !.memory.targets = targets, !.memory.has_ranked = TRUE, !.old_sells = old]
<1>1. TraderIsTyped(s) /\ RetriesAreAlone(s) /\ TargetsFit(s)
    BY DEF IsGood, IsSound
<1>2. Universe!Rebalance(s) = Universe!SendTargetOrders(t, Members)
    BY DEF Universe!Rebalance
<1>3. \A S : Universe!Cardinality(S) = Cardinality(S)
    BY DEF Universe!Cardinality, Cardinality
<1>4. ranked \in SUBSET Members /\ \A m \in ranked : value[m] \in Int
    BY <1>1 DEF TraderIsTyped
<1>5. Cardinality(targets) <= HoldCount
    <2>1. targets = {m \in ranked :
                Cardinality({n \in ranked : value[n] > value[m] \/ (value[n] = value[m] /\ n < m)}) < HoldCount}
        BY <1>3
    <2> HIDE DEF targets, ranked, value
    <2>2. Cardinality({m \in ranked :
                Cardinality({n \in ranked : value[n] > value[m] \/ (value[n] = value[m] /\ n < m)}) < HoldCount}) <= HoldCount
        BY <1>4, FirstOfOrder
    <2> QED
        BY <2>1, <2>2
<1>6. targets \subseteq s.memory.members \cap DOMAIN s.memory.values
    OBVIOUS
<1>7. old = {m \in targets : HasSide(s.orders[m], "sell")}
    BY DEF HasSide
<1> HIDE DEF value, ranked, targets, old
<1>8. /\ t.memory = [s.memory EXCEPT !.targets = targets, !.has_ranked = TRUE] /\ t.old_sells = old
      /\ t.orders = s.orders /\ t.retries = s.retries /\ DOMAIN t = DOMAIN s
    BY <1>1 DEF TraderIsTyped
<1> HIDE DEF t
<1>9. IsKept(s, t) /\ t.memory.targets = targets
    BY <1>1, <1>8 DEF TraderIsTyped, IsKept
<1>10. TraderIsTyped(t)
    BY <1>1, <1>6, <1>9 DEF IsKept, TraderIsTyped
<1>11. RetriesAreAlone(t)
    BY <1>1, <1>9 DEF IsKept, RetriesAreAlone
<1>12. TargetsAreKept(t)
    BY <1>7, <1>8, <1>9 DEF TargetsAreKept
<1>13. AllIsRemembered(t, Members)
    BY <1>10 DEF AllIsRemembered, TraderIsTyped
<1>14. TargetsFit(t)
    <2>1. Held(t) = Held(s)
        BY <1>8 DEF Held
    <2> QED
        BY <1>1, <1>5, <1>9, <2>1 DEF TargetsFit
<1> QED
    BY <1>2, <1>10, <1>11, <1>12, <1>13, <1>14, SendTargetOrdersIsGood DEF IsSound

\* A later time is in no earlier period.
LEMMA PeriodsAreInOrder ==
    ASSUME NEW a \in Nat, NEW b \in Nat, a <= b, NEW p \in {1, 2}
    PROVE  a \div p <= b \div p /\ a \div p \in Nat
<1>1. CASE p = 1
    BY <1>1
<1>2. CASE p = 2
    BY <1>2
<1> QED
    BY <1>1, <1>2

\* The retries of `ms` are the first ones of their periods.
LEMMA RetryIsFirst ==
    ASSUME time \in Nat, NEW s, IsSound(s, {}), NEW ms, ms \subseteq s.memory.lost, \A m \in ms : Universe!CanRetry(s, m)
    PROVE  LET t == Universe!Retry(s, ms)
           IN  /\ TraderIsTyped(t) /\ RetriesAreAlone(t)
               /\ t.orders = s.orders /\ t.old_sells = s.old_sells /\ t.memory.lost = s.memory.lost \ ms
               /\ t.memory.members = s.memory.members /\ t.memory.values = s.memory.values
               /\ t.memory.buys = s.memory.buys /\ t.memory.targets = s.memory.targets
<1> DEFINE times == [m \in Members |-> IF m \in ms THEN time ELSE s.memory.retry_times[m]]
           new == {Universe!CountedRetry(s, m) : m \in ms}
           t == [s EXCEPT !.memory.lost = @ \ ms, !.memory.retry_times = times, !.retries = @ \cup new]
           length(side) == IF side = "sell" THEN 1 ELSE 2
<1>1. TraderIsTyped(s) /\ RetriesAreAlone(s)
    BY DEF IsSound
<1>2. Universe!Retry(s, ms) = t
    BY <1>1 DEF Universe!Retry, TraderIsTyped
<1> HIDE DEF times, new
<1>3. /\ t.memory = [s.memory EXCEPT !.lost = s.memory.lost \ ms, !.retry_times = times] /\ t.old_sells = s.old_sells
      /\ t.orders = s.orders /\ t.retries = s.retries \cup new /\ DOMAIN t = DOMAIN s
    BY <1>1 DEF TraderIsTyped
<1> HIDE DEF t
<1>4. /\ t.memory.lost = s.memory.lost \ ms /\ t.memory.retry_times = times
      /\ t.memory.members = s.memory.members /\ t.memory.values = s.memory.values
      /\ t.memory.buys = s.memory.buys /\ t.memory.targets = s.memory.targets /\ DOMAIN t.memory = DOMAIN s.memory
    BY <1>1, <1>3 DEF TraderIsTyped
<1>5. /\ ms \subseteq Members /\ s.memory.retry_times \in [Members -> -1 .. time]
      /\ times \in [Members -> -1 .. time]
      /\ \A m \in Members : times[m] = IF m \in ms THEN time ELSE s.memory.retry_times[m]
    <2>1. ms \subseteq Members /\ s.memory.retry_times \in [Members -> -1 .. time]
        BY <1>1 DEF TraderIsTyped
    <2>2. time \in -1 .. time
        OBVIOUS
    <2> QED
        BY <2>1, <2>2 DEF times
<1>6. TraderIsTyped(t)
    BY <1>1, <1>3, <1>4, <1>5 DEF TraderIsTyped
<1>7. ASSUME NEW r \in s.retries
      PROVE  /\ r.number = 1 /\ r.key.member \in Members /\ times[r.key.member] >= 0
             /\ r.key.period \in Nat /\ r.key.period <= times[r.key.member] \div length(r.key.side)
    <2>1. /\ r.number = 1 /\ r.key.member \in Members /\ s.memory.retry_times[r.key.member] >= 0
          /\ r.key.period \in Nat
          /\ r.key.period <= s.memory.retry_times[r.key.member] \div length(r.key.side)
        BY <1>1 DEF RetriesAreAlone
    <2>2. s.memory.retry_times[r.key.member] \in Nat /\ s.memory.retry_times[r.key.member] <= time
        BY <1>5, <2>1
    <2>3. CASE r.key.member \in ms
        <3>1. times[r.key.member] = time
            BY <1>5, <2>1, <2>3
        <3>2. length(r.key.side) \in {1, 2}
            OBVIOUS
        <3> HIDE DEF length
        <3>3. /\ s.memory.retry_times[r.key.member] \div length(r.key.side) <= time \div length(r.key.side)
              /\ s.memory.retry_times[r.key.member] \div length(r.key.side) \in Nat
              /\ time \div length(r.key.side) \in Nat
            BY <2>2, <3>2, PeriodsAreInOrder
        <3> QED
            BY <2>1, <3>1, <3>3
    <2>4. CASE r.key.member \notin ms
        <3>1. times[r.key.member] = s.memory.retry_times[r.key.member]
            BY <1>5, <2>1, <2>4
        <3> QED
            BY <2>1, <2>2, <3>1
    <2> QED
        BY <2>3, <2>4
<1>8. ASSUME NEW m \in ms
      PROVE  LET r == Universe!CountedRetry(s, m)
             IN  r.number = 1 /\ r.key.member = m /\ r.key.period = time \div length(r.key.side)
    <2> DEFINE side == Universe!Side(m)
               key == [member |-> m, side |-> side, period |-> time \div Universe!RetryPeriod(m)]
               last == s.memory.retry_times[m]
    <2>1. Universe!RetryPeriod(m) = length(side) /\ length(side) \in {1, 2}
        BY DEF Universe!RetryPeriod, Universe!Side, Universe!ExitRetryPeriod, Universe!EntryRetryPeriod
    <2>2. last < 0 \/ last \div length(side) # time \div length(side)
        BY <2>1 DEF Universe!CanRetry
    <2>3. last \in -1 .. time
        BY <1>5
    <2>4. key.member = m /\ key.side = side /\ key.period = time \div length(side)
        BY <2>1
    <2>5. ASSUME NEW r \in s.retries, r.key = key PROVE FALSE
        <3>1. last >= 0 /\ key.period <= last \div length(side)
            BY <1>1, <2>4, <2>5 DEF RetriesAreAlone
        <3>2. last \in Nat /\ last <= time
            BY <2>3, <3>1
        <3> HIDE DEF length, last, key, side
        <3>3. last \div length(side) <= time \div length(side) /\ last \div length(side) \in Nat
              /\ time \div length(side) \in Nat
            BY <2>1, <3>2, PeriodsAreInOrder
        <3> QED
            BY <2>2, <2>4, <3>1, <3>2, <3>3
    <2>6. Universe!Cardinality({r \in s.retries : r.key = key}) = 0
        <3>1. {r \in s.retries : r.key = key} = {}
            BY <2>5
        <3>2. Universe!Cardinality({}) = Cardinality({})
            BY DEF Universe!Cardinality, Cardinality
        <3> QED
            BY <3>1, <3>2, FS_EmptySet
    <2>7. Universe!CountedRetry(s, m) = [key |-> key, number |-> 1]
        BY <2>6 DEF Universe!CountedRetry
    <2> QED
        BY <2>4, <2>7
<1>9. RetriesAreAlone(t)
    <2>1. ASSUME NEW r \in t.retries
          PROVE  /\ r.number = 1 /\ r.key.member \in Members /\ times[r.key.member] >= 0
                 /\ r.key.period \in Nat /\ r.key.period <= times[r.key.member] \div length(r.key.side)
        <3>1. CASE r \in s.retries
            BY <1>7, <3>1
        <3>2. CASE r \in new
            <4>1. PICK m \in ms : r = Universe!CountedRetry(s, m)
                BY <3>2 DEF new
            <4>2. m \in Members /\ times[m] = time
                BY <1>5
            <4>3. r.number = 1 /\ r.key.member = m /\ r.key.period = time \div length(r.key.side)
                BY <1>8, <4>1
            <4>4. time \div length(r.key.side) \in Nat
                BY PeriodsAreInOrder
            <4> HIDE DEF length
            <4> QED
                BY <4>2, <4>3, <4>4
        <3> QED
            BY <1>3, <2>1, <3>1, <3>2
    <2> QED
        BY <1>4, <2>1 DEF RetriesAreAlone
<1> QED
    BY <1>2, <1>3, <1>4, <1>6, <1>9

\* The retries of the lost orders, when an instrument can retry.
LEMMA SendRetriesIsGood ==
    ASSUME positions \subseteq Members, time \in Nat, NEW s, IsGood(s) PROVE IsGood(Universe!SendRetries(s))
<1> DEFINE again == {m \in s.memory.lost : Universe!CanRetry(s, m)}
           t == Universe!Retry(s, again)
<1>1. IsSound(s, {}) /\ again \subseteq s.memory.lost /\ \A m \in again : Universe!CanRetry(s, m)
    BY DEF IsGood
<1>2. Universe!SendRetries(s) = s \/ Universe!SendRetries(s) = Universe!SendTargetOrders(t, again)
    BY DEF Universe!SendRetries
<1> HIDE DEF again
<1>3. /\ TraderIsTyped(t) /\ RetriesAreAlone(t)
      /\ t.orders = s.orders /\ t.old_sells = s.old_sells /\ t.memory.lost = s.memory.lost \ again
      /\ t.memory.members = s.memory.members /\ t.memory.values = s.memory.values
      /\ t.memory.buys = s.memory.buys /\ t.memory.targets = s.memory.targets
    BY <1>1, RetryIsFirst
<1> HIDE DEF t
<1>4. TargetsAreKept(s) /\ AllIsRemembered(s, {}) /\ TargetsFit(s)
    BY <1>1 DEF IsSound
<1>5. TargetsAreKept(t) /\ AllIsRemembered(t, again)
    BY <1>3, <1>4 DEF TargetsAreKept, AllIsRemembered
<1>6. TargetsFit(t)
    BY <1>3, <1>4 DEF TargetsFit, Held
<1>7. IsGood(Universe!SendTargetOrders(t, again))
    BY <1>3, <1>5, <1>6, SendTargetOrdersIsGood DEF IsSound
<1> QED
    BY <1>2, <1>7

\* A change of the period, the wait, the last bar time or the mark of a rebalance changes nothing of this.
LEMMA MarksAreGood ==
    ASSUME NEW s, IsGood(s), NEW t, DOMAIN t = DOMAIN s, DOMAIN t.memory = DOMAIN s.memory,
           t.orders = s.orders, t.retries = s.retries, t.old_sells = s.old_sells,
           \A f \in {"members", "values", "buys", "targets", "lost", "retry_times"} : t.memory[f] = s.memory[f]
    PROVE  IsGood(t)
<1>1. IsKept(s, t) /\ t.memory.targets = s.memory.targets
    BY DEF IsKept
<1> QED
    BY <1>1, KeptIsGood

\* The first bar of a bar time: a rebalance that is due, the retries, and a new period.
LEMMA StartBarTimeIsGood ==
    ASSUME positions \subseteq Members, time \in Nat, NEW s, IsGood(s) PROVE IsGood(Universe!StartBarTime(s))
<1>1. ASSUME NEW u, IsGood(u) PROVE IsGood(Universe!RebalanceWhenDue(u))
    <2> DEFINE waited == [u EXCEPT !.memory.wait = @ + 1]
               ready == [waited EXCEPT !.memory.is_due = FALSE]
    <2>1. DOMAIN u = {"memory", "orders", "retries", "old_sells"} /\ TraderIsTyped(u)
        BY <1>1 DEF IsGood, IsSound, TraderIsTyped
    <2>2. IsGood(waited)
        <3>1. waited.memory = [u.memory EXCEPT !.wait = @ + 1] /\ DOMAIN waited = DOMAIN u
              /\ waited.orders = u.orders /\ waited.retries = u.retries /\ waited.old_sells = u.old_sells
            BY <2>1
        <3> HIDE DEF waited
        <3>2. /\ DOMAIN waited.memory = DOMAIN u.memory
              /\ \A f \in {"members", "values", "buys", "targets", "lost", "retry_times"} : waited.memory[f] = u.memory[f]
            BY <2>1, <3>1 DEF TraderIsTyped
        <3> QED
            BY <1>1, <3>1, <3>2, MarksAreGood
    <2>3. Universe!RebalanceWhenDue(u) \in {u, waited, Universe!Rebalance(ready)}
        BY DEF Universe!RebalanceWhenDue
    <2> HIDE DEF waited
    <2>4. DOMAIN waited = {"memory", "orders", "retries", "old_sells"} /\ TraderIsTyped(waited)
        BY <2>2 DEF IsGood, IsSound, TraderIsTyped
    <2>5. IsGood(ready)
        <3>1. ready.memory = [waited.memory EXCEPT !.is_due = FALSE] /\ DOMAIN ready = DOMAIN waited
              /\ ready.orders = waited.orders /\ ready.retries = waited.retries /\ ready.old_sells = waited.old_sells
            BY <2>4
        <3> HIDE DEF ready
        <3>2. /\ DOMAIN ready.memory = DOMAIN waited.memory
              /\ \A f \in {"members", "values", "buys", "targets", "lost", "retry_times"} :
                    ready.memory[f] = waited.memory[f]
            BY <2>4, <3>1 DEF TraderIsTyped
        <3> QED
            BY <2>2, <3>1, <3>2, MarksAreGood
    <2> HIDE DEF ready
    <2>6. IsGood(Universe!Rebalance(ready))
        BY <2>5, RebalanceIsGood
    <2> QED
        BY <1>1, <2>2, <2>3, <2>6
<1>2. ASSUME NEW u, IsGood(u) PROVE IsGood(Universe!MarkPeriod(u))
    <2> DEFINE t == [u EXCEPT !.memory.period = Universe!Period(time), !.memory.is_due = TRUE, !.memory.wait = 0]
    <2>1. DOMAIN u = {"memory", "orders", "retries", "old_sells"} /\ TraderIsTyped(u)
        BY <1>2 DEF IsGood, IsSound, TraderIsTyped
    <2>2. /\ t.memory = [u.memory EXCEPT !.period = Universe!Period(time), !.is_due = TRUE, !.wait = 0]
          /\ DOMAIN t = DOMAIN u /\ t.orders = u.orders /\ t.retries = u.retries /\ t.old_sells = u.old_sells
        BY <2>1
    <2>3. Universe!MarkPeriod(u) \in {u, t}
        BY DEF Universe!MarkPeriod
    <2> HIDE DEF t
    <2>4. /\ DOMAIN t.memory = DOMAIN u.memory
          /\ \A f \in {"members", "values", "buys", "targets", "lost", "retry_times"} : t.memory[f] = u.memory[f]
        BY <2>1, <2>2 DEF TraderIsTyped
    <2> QED
        BY <1>2, <2>2, <2>3, <2>4, MarksAreGood
<1> DEFINE t == [s EXCEPT !.memory.last_bar_time = time]
<1>3. IsGood(t)
    <2>1. DOMAIN s = {"memory", "orders", "retries", "old_sells"} /\ TraderIsTyped(s)
        BY DEF IsGood, IsSound, TraderIsTyped
    <2>2. t.memory = [s.memory EXCEPT !.last_bar_time = time] /\ DOMAIN t = DOMAIN s
          /\ t.orders = s.orders /\ t.retries = s.retries /\ t.old_sells = s.old_sells
        BY <2>1
    <2> HIDE DEF t
    <2>3. /\ DOMAIN t.memory = DOMAIN s.memory
          /\ \A f \in {"members", "values", "buys", "targets", "lost", "retry_times"} : t.memory[f] = s.memory[f]
        BY <2>1, <2>2 DEF TraderIsTyped
    <2> QED
        BY <2>2, <2>3, MarksAreGood
<1>4. Universe!StartBarTime(s) \in {s, Universe!MarkPeriod(Universe!SendRetries(Universe!RebalanceWhenDue(t)))}
    BY DEF Universe!StartBarTime
<1> HIDE DEF t
<1> QED
    BY <1>1, <1>2, <1>3, <1>4, SendRetriesIsGood

\* The bar of a member. An exit takes the member out of the targets, so its sell is not one of a target.
LEMMA UpdateMemberIsGood ==
    ASSUME positions \subseteq Members, time \in Nat, NEW s, IsGood(s), NEW m \in Members,
           NEW value \in Int, NEW exit_is_true \in BOOLEAN
    PROVE  IsGood(Universe!UpdateMember(s, m, value, exit_is_true))
<1> DEFINE values == [n \in DOMAIN s.memory.values \cup {m} |-> IF n = m THEN value ELSE s.memory.values[n]]
           seen_ == [s EXCEPT !.memory.values = values]
           again == {m} \cap seen_.memory.lost
           retried == Universe!Retry(seen_, again)
           left == [retried EXCEPT !.memory.targets = @ \ {m}]
           t == Universe!SendAll(left, {m}, "sell")
<1>1. TraderIsTyped(s) /\ RetriesAreAlone(s) /\ TargetsAreKept(s) /\ AllIsRemembered(s, {}) /\ TargetsFit(s) /\ BuysFit(s)
    BY DEF IsGood, IsSound
<1>2. /\ \/ Universe!UpdateMember(s, m, value, exit_is_true) = seen_
         \/ /\ Universe!UpdateMember(s, m, value, exit_is_true) = t
            /\ Universe!CanRetry(seen_, m)
    BY <1>1 DEF Universe!UpdateMember, TraderIsTyped
<1>3. DOMAIN values = DOMAIN s.memory.values \cup {m} /\ \A n \in DOMAIN values : values[n] \in Int
    BY <1>1 DEF TraderIsTyped
<1> HIDE DEF values
<1>4. /\ seen_.memory = [s.memory EXCEPT !.values = values] /\ DOMAIN seen_ = DOMAIN s
      /\ seen_.orders = s.orders /\ seen_.retries = s.retries /\ seen_.old_sells = s.old_sells
    BY <1>1 DEF TraderIsTyped
<1> HIDE DEF seen_
<1>5. /\ DOMAIN seen_.memory = DOMAIN s.memory /\ seen_.memory.values = values
      /\ seen_.memory.members = s.memory.members /\ seen_.memory.buys = s.memory.buys
      /\ seen_.memory.targets = s.memory.targets /\ seen_.memory.lost = s.memory.lost
      /\ seen_.memory.retry_times = s.memory.retry_times
    BY <1>1, <1>4 DEF TraderIsTyped
<1>6. IsGood(seen_)
    <2>1. TraderIsTyped(seen_)
        BY <1>1, <1>3, <1>4, <1>5 DEF TraderIsTyped
    <2>2. RetriesAreAlone(seen_)
        BY <1>1, <1>4, <1>5 DEF RetriesAreAlone
    <2>3. TargetsAreKept(seen_) /\ AllIsRemembered(seen_, {})
        BY <1>1, <1>4, <1>5 DEF TargetsAreKept, AllIsRemembered
    <2>4. TargetsFit(seen_) /\ BuysFit(seen_)
        BY <1>1, <1>4, <1>5 DEF TargetsFit, BuysFit, Held
    <2> QED
        BY <2>1, <2>2, <2>3, <2>4 DEF IsGood, IsSound
<1>7. ASSUME Universe!CanRetry(seen_, m) PROVE IsGood(t)
    <2>1. IsSound(seen_, {}) /\ again \subseteq seen_.memory.lost /\ \A n \in again : Universe!CanRetry(seen_, n)
        BY <1>6, <1>7 DEF IsGood
    <2>2. again \subseteq {m}
        OBVIOUS
    <2> HIDE DEF again
    <2>3. /\ TraderIsTyped(retried) /\ RetriesAreAlone(retried)
          /\ retried.orders = s.orders /\ retried.old_sells = s.old_sells /\ retried.memory.lost = s.memory.lost \ again
          /\ retried.memory.members = s.memory.members /\ retried.memory.values = values
          /\ retried.memory.buys = s.memory.buys /\ retried.memory.targets = s.memory.targets
        <3>1. /\ TraderIsTyped(retried) /\ RetriesAreAlone(retried)
              /\ retried.orders = seen_.orders /\ retried.old_sells = seen_.old_sells
              /\ retried.memory.lost = seen_.memory.lost \ again
              /\ retried.memory.members = seen_.memory.members /\ retried.memory.values = seen_.memory.values
              /\ retried.memory.buys = seen_.memory.buys /\ retried.memory.targets = seen_.memory.targets
            BY <2>1, RetryIsFirst
        <3> HIDE DEF retried
        <3> QED
            BY <1>4, <1>5, <3>1
    <2> HIDE DEF retried
    <2>4. /\ left.memory = [retried.memory EXCEPT !.targets = @ \ {m}] /\ DOMAIN left = DOMAIN retried
          /\ left.orders = s.orders /\ left.retries = retried.retries /\ left.old_sells = s.old_sells
        BY <2>3 DEF TraderIsTyped
    <2> HIDE DEF left
    <2>5. /\ DOMAIN left.memory = DOMAIN retried.memory
          /\ left.memory.values = values /\ left.memory.members = s.memory.members
          /\ left.memory.buys = s.memory.buys /\ left.memory.targets = s.memory.targets \ {m}
          /\ left.memory.lost = s.memory.lost \ again /\ left.memory.retry_times = retried.memory.retry_times
        BY <2>3, <2>4 DEF TraderIsTyped
    <2>6. TraderIsTyped(left)
        BY <2>3, <2>4, <2>5 DEF TraderIsTyped
    <2>7. /\ TraderIsTyped(t)
          /\ t.memory = left.memory /\ t.retries = left.retries /\ t.old_sells = left.old_sells
          /\ \A n \in Members : t.orders[n] = <<>> <=> left.orders[n] = <<>> /\ n \notin {m}
          /\ \A n \in Members, x \in Sides :
                HasSide(t.orders[n], x) <=> HasSide(left.orders[n], x) \/ (n \in {m} /\ x = "sell")
        BY <2>6, SendAllIs DEF Sides
    <2> HIDE DEF t
    <2>8. s.memory.targets \subseteq Members
        BY <1>1 DEF TraderIsTyped
    <2>9. RetriesAreAlone(t)
        BY <2>3, <2>4, <2>5, <2>7 DEF RetriesAreAlone
    <2>10. TargetsAreKept(t)
        BY <1>1, <2>4, <2>5, <2>7, <2>8 DEF TargetsAreKept, Sides
    <2>11. AllIsRemembered(t, {})
        BY <1>1, <2>2, <2>4, <2>5, <2>7, <2>8 DEF AllIsRemembered
    <2>12. Held(t) = Held(s)
        BY <2>4, <2>7 DEF Held, Sides
    <2>13. s.memory.targets \in SUBSET Members /\ s.memory.targets \cup s.memory.buys \in SUBSET Members
           /\ s.memory.targets \ {m} \in SUBSET Members /\ (s.memory.targets \ {m}) \cup s.memory.buys \in SUBSET Members
        BY <1>1 DEF TraderIsTyped
    <2>14. Cardinality(s.memory.targets \ {m}) <= Cardinality(s.memory.targets)
           /\ Cardinality((s.memory.targets \ {m}) \cup s.memory.buys) <= Cardinality(s.memory.targets \cup s.memory.buys)
        BY <2>13, MembersAreFinite
    <2>15. TargetsFit(t) /\ BuysFit(t)
        <3>1. /\ Cardinality(s.memory.targets) \in Nat /\ Cardinality(s.memory.targets \cup s.memory.buys) \in Nat
              /\ Cardinality(s.memory.targets \ {m}) \in Nat
              /\ Cardinality((s.memory.targets \ {m}) \cup s.memory.buys) \in Nat /\ HoldCount \in Nat
            BY <2>13, MembersAreFinite
        <3>2. t.memory.targets = s.memory.targets \ {m} /\ t.memory.buys = s.memory.buys
            BY <2>5, <2>7
        <3>3. /\ Cardinality(s.memory.targets) <= HoldCount /\ Cardinality(Held(s)) <= HoldCount
              /\ Cardinality(s.memory.targets \cup s.memory.buys) <= HoldCount
            BY <1>1 DEF TargetsFit, BuysFit
        <3> QED
            BY <2>12, <2>14, <3>1, <3>2, <3>3 DEF TargetsFit, BuysFit
    <2> QED
        BY <2>7, <2>9, <2>10, <2>11, <2>15 DEF IsGood, IsSound
<1> QED
    BY <1>2, <1>6, <1>7

\* What a handler gives to the strategy object is its next state.
LEMMA KeepIsGood ==
    ASSUME TraderIInv, NEW s, IsGood(s), Universe!Keep(s), UNCHANGED <<positions, time>>
    PROVE  TraderIInv'
<1> DEFINE t == Universe!State
<1>1. DOMAIN s = {"memory", "orders", "retries", "old_sells"}
    BY DEF IsGood, IsSound, TraderIsTyped
<1>2. t' = [memory |-> s.memory, orders |-> s.orders, retries |-> s.retries, old_sells |-> s.old_sells]
    BY DEF Universe!State, Universe!Keep
<1>3. t'.memory = s.memory /\ t'.orders = s.orders /\ t'.retries = s.retries /\ t'.old_sells = s.old_sells
      /\ DOMAIN t' = DOMAIN s
    BY <1>1, <1>2
<1>4. TraderIsTyped(s) /\ RetriesAreAlone(s) /\ TargetsAreKept(s) /\ AllIsRemembered(s, {}) /\ TargetsFit(s) /\ BuysFit(s)
    BY DEF IsGood, IsSound
<1> HIDE DEF t
<1>5. TraderIsTyped(t)'
    BY <1>3, <1>4 DEF TraderIsTyped
<1>6. RetriesAreAlone(t)'
    BY <1>3, <1>4 DEF RetriesAreAlone
<1>7. TargetsAreKept(t)' /\ AllIsRemembered(t, {})'
    BY <1>3, <1>4 DEF TargetsAreKept, AllIsRemembered
<1>8. TargetsFit(t)' /\ BuysFit(t)'
    BY <1>3, <1>4 DEF TargetsFit, BuysFit, Held
<1>9. IsGood(t)'
    BY <1>5, <1>6, <1>7, <1>8 DEF IsGood, IsSound
<1> QED
    BY <1>9 DEF TraderIInv, t

\* The state that the handlers work on is that of the strategy object.
LEMMA StateIs ==
    /\ Universe!State.memory = memory /\ Universe!State.orders = open_orders
    /\ Universe!State.retries = retries /\ Universe!State.old_sells = old_sells
    /\ DOMAIN Universe!State = {"memory", "orders", "retries", "old_sells"}
BY DEF Universe!State

\* A bar of one member keeps the trader invariant.
LEMMA BarIsGood ==
    ASSUME TraderIInv, NEW m \in Members, NEW value \in -1 .. 2, NEW exit_is_true \in BOOLEAN,
           Universe!OnBar(m, value, exit_is_true)
    PROVE  TraderIInv'
<1> DEFINE s == Universe!StartBarTime(Universe!State)
           seen_ == Universe!UpdateMember(s, m, value, exit_is_true)
<1>1. positions \subseteq Members /\ time \in Nat /\ IsGood(s)
    BY StartBarTimeIsGood DEF TraderIInv
<1>2. Universe!Keep(Universe!SendBuys(seen_)) \/ Universe!Keep(s)
    BY DEF Universe!OnBar
<1>3. UNCHANGED <<positions, time>>
    BY DEF Universe!OnBar
<1> HIDE DEF s
<1>4. IsGood(Universe!SendBuys(seen_))
    <2>1. value \in Int
        OBVIOUS
    <2>2. IsGood(seen_)
        BY <1>1, <2>1, UpdateMemberIsGood
    <2> HIDE DEF seen_
    <2> QED
        BY <1>1, <2>2, SendBuysIsGood
<1> HIDE DEF seen_
<1> QED
    BY <1>1, <1>2, <1>3, <1>4, KeepIsGood

\* A new list: what leaves it is sold, and is no target.
LEMMA DataIsGood ==
    ASSUME TraderIInv, NEW list \in SUBSET Members, Universe!OnData(list)
    PROVE  TraderIInv'
<1> DEFINE removed == memory.members \ list
           left == [m \in DOMAIN memory.values \ removed |-> memory.values[m]]
           kept == [memory EXCEPT !.members = list, !.targets = @ \ removed, !.values = left]
           marked == IF memory.members = {} /\ ~(positions \subseteq list) THEN [kept EXCEPT !.is_due = TRUE] ELSE kept
           s == [Universe!State EXCEPT !.memory = marked]
           t == Universe!SendAll(s, removed \cap positions, "sell")
           old == Universe!State
<1>1. /\ TraderIsTyped(old) /\ RetriesAreAlone(old) /\ TargetsAreKept(old) /\ AllIsRemembered(old, {})
      /\ TargetsFit(old) /\ BuysFit(old) /\ positions \subseteq Members
    BY DEF TraderIInv, IsGood, IsSound
<1>2. DOMAIN memory = {"members", "values", "period", "is_due", "wait", "last_bar_time", "buys", "targets", "lost",
                       "retry_times", "has_ranked"}
    BY <1>1, StateIs DEF TraderIsTyped
<1>3. Universe!Keep(t) /\ UNCHANGED <<positions, time>>
    BY <1>2 DEF Universe!OnData
<1>4. DOMAIN left = DOMAIN memory.values \ removed /\ \A m \in DOMAIN left : left[m] \in Int
    BY <1>1, StateIs DEF TraderIsTyped
<1> HIDE DEF left
<1>5. /\ DOMAIN marked = DOMAIN memory /\ marked.members = list /\ marked.targets = memory.targets \ removed
      /\ marked.values = left /\ marked.buys = memory.buys /\ marked.lost = memory.lost
      /\ marked.retry_times = memory.retry_times
    BY <1>2
<1> HIDE DEF marked
<1>6. s.memory = marked /\ s.orders = old.orders /\ s.retries = old.retries /\ s.old_sells = old.old_sells
      /\ DOMAIN s = DOMAIN old
    BY StateIs
<1>7. /\ old.memory = memory
      /\ DOMAIN old = {"memory", "orders", "retries", "old_sells"}
    BY StateIs
<1> HIDE DEF s, old
<1>8. TraderIsTyped(s)
    <2>1. s.memory.members \subseteq Members /\ s.memory.targets \subseteq s.memory.members \cap DOMAIN s.memory.values
        BY <1>1, <1>4, <1>5, <1>6, <1>7 DEF TraderIsTyped
    <2> QED
        BY <1>1, <1>4, <1>5, <1>6, <1>7, <2>1 DEF TraderIsTyped
<1>9. /\ TraderIsTyped(t)
      /\ t.memory = s.memory /\ t.retries = s.retries /\ t.old_sells = s.old_sells
      /\ \A n \in Members : t.orders[n] = <<>> <=> s.orders[n] = <<>> /\ n \notin removed \cap positions
      /\ \A n \in Members, x \in Sides :
            HasSide(t.orders[n], x) <=> HasSide(s.orders[n], x) \/ (n \in removed \cap positions /\ x = "sell")
    BY <1>8, SendAllIs DEF Sides
<1> HIDE DEF t
<1>10. memory.targets \subseteq Members /\ memory.buys \subseteq Members
    BY <1>1, <1>7 DEF TraderIsTyped
<1>11. RetriesAreAlone(t)
    BY <1>1, <1>5, <1>6, <1>7, <1>9 DEF RetriesAreAlone
<1>12. TargetsAreKept(t)
    BY <1>1, <1>5, <1>6, <1>7, <1>9, <1>10 DEF TargetsAreKept, Sides
<1>13. AllIsRemembered(t, {})
    BY <1>1, <1>5, <1>6, <1>7, <1>9, <1>10 DEF AllIsRemembered
<1>14. Held(t) = Held(old)
    BY <1>6, <1>9 DEF Held, Sides
<1>15. TargetsFit(t) /\ BuysFit(t)
    <2>1. t.memory.targets = memory.targets \ removed /\ t.memory.buys = memory.buys
        BY <1>5, <1>6, <1>9
    <2> DEFINE fewer == memory.targets \ removed
    <2>2. /\ memory.targets \in SUBSET Members /\ fewer \in SUBSET Members /\ fewer \subseteq memory.targets
          /\ memory.targets \cup memory.buys \in SUBSET Members /\ fewer \cup memory.buys \in SUBSET Members
          /\ fewer \cup memory.buys \subseteq memory.targets \cup memory.buys
        BY <1>10
    <2> HIDE DEF fewer
    <2>3. /\ Cardinality(fewer) <= Cardinality(memory.targets)
          /\ Cardinality(fewer \cup memory.buys) <= Cardinality(memory.targets \cup memory.buys)
          /\ Cardinality(fewer) \in Nat /\ Cardinality(memory.targets) \in Nat
          /\ Cardinality(fewer \cup memory.buys) \in Nat /\ Cardinality(memory.targets \cup memory.buys) \in Nat
          /\ HoldCount \in Nat
        BY <2>2, MembersAreFinite
    <2>4. /\ Cardinality(memory.targets) <= HoldCount /\ Cardinality(Held(old)) <= HoldCount
          /\ Cardinality(memory.targets \cup memory.buys) <= HoldCount
        BY <1>1, <1>7 DEF TargetsFit, BuysFit
    <2> QED
        BY <1>14, <2>1, <2>3, <2>4 DEF TargetsFit, BuysFit, fewer
<1> QED
    BY <1>3, <1>9, <1>11, <1>12, <1>13, <1>15, KeepIsGood DEF IsGood, IsSound

\* A fill moves a member from the buys to the positions, or out of the positions; a lost order is remembered.
LEMMA OrderEndIsGood ==
    ASSUME TraderIInv, NEW m \in Members, Universe!OrderFills(m) \/ Universe!OrderIsLost(m)
    PROVE  TraderIInv'
<1> DEFINE old == Universe!State
           t == Universe!State
<1>1. /\ TraderIsTyped(old) /\ RetriesAreAlone(old) /\ TargetsAreKept(old) /\ AllIsRemembered(old, {})
      /\ TargetsFit(old) /\ BuysFit(old) /\ positions \subseteq Members /\ time \in Nat
    BY DEF TraderIInv, IsGood, IsSound
<1>2. /\ old.memory = memory /\ old.orders = open_orders /\ old.retries = retries /\ old.old_sells = old_sells
      /\ DOMAIN old = {"memory", "orders", "retries", "old_sells"}
      /\ t'.memory = memory' /\ t'.orders = open_orders' /\ t'.retries = retries' /\ t'.old_sells = old_sells'
      /\ DOMAIN t' = {"memory", "orders", "retries", "old_sells"}
    BY DEF Universe!State
<1> HIDE DEF old, t
<1>3. /\ memory.members \subseteq Members /\ memory.targets \subseteq Members
      /\ memory.targets \subseteq memory.members \cap DOMAIN memory.values
      /\ memory.buys \subseteq Members /\ memory.lost \subseteq Members
      /\ open_orders \in [Members -> Seq(Sides)] /\ memory.retry_times \in [Members -> -1 .. time]
      /\ DOMAIN memory = {"members", "values", "period", "is_due", "wait", "last_bar_time", "buys", "targets", "lost",
                          "retry_times", "has_ranked"}
      /\ \A n \in DOMAIN memory.values : memory.values[n] \in Int
    BY <1>1, <1>2 DEF TraderIsTyped
<1>4. /\ open_orders[m] # <<>> /\ open_orders[m] \in Seq(Sides) /\ open_orders' = [open_orders EXCEPT ![m] = Tail(@)]
      /\ UNCHANGED <<time, retries, old_sells>>
    BY <1>3 DEF Universe!OrderFills, Universe!OrderIsLost
<1>5. \/ /\ UNCHANGED memory /\ (Head(open_orders[m]) = "sell" <=> m \in positions)
         /\ positions' = IF Head(open_orders[m]) = "buy" THEN positions \cup {m} ELSE positions \ {m}
      \/ memory' = [memory EXCEPT !.lost = @ \cup {m}] /\ UNCHANGED positions
    BY DEF Universe!OrderFills, Universe!OrderIsLost
<1>6. /\ Tail(open_orders[m]) \in Seq(Sides) /\ Head(open_orders[m]) \in Sides
      /\ HasSide(open_orders[m], Head(open_orders[m]))
      /\ \A x : HasSide(Tail(open_orders[m]), x) => HasSide(open_orders[m], x)
    BY <1>4, TailSide
<1>7. /\ memory'.members = memory.members /\ memory'.targets = memory.targets /\ memory'.values = memory.values
      /\ memory'.buys = memory.buys /\ memory'.retry_times = memory.retry_times /\ DOMAIN memory' = DOMAIN memory
      /\ memory'.lost \in {memory.lost, memory.lost \cup {m}}
    BY <1>3, <1>5
<1>8. /\ open_orders' \in [Members -> Seq(Sides)]
      /\ \A n \in Members : open_orders'[n] = IF n = m THEN Tail(open_orders[m]) ELSE open_orders[n]
    BY <1>3, <1>4, <1>6
<1>9. TraderIsTyped(t)'
    BY <1>2, <1>3, <1>4, <1>7, <1>8 DEF TraderIsTyped
<1>10. RetriesAreAlone(t)'
    BY <1>1, <1>2, <1>4, <1>7 DEF RetriesAreAlone
<1>11. TargetsAreKept(t)'
    BY <1>1, <1>2, <1>3, <1>4, <1>6, <1>7, <1>8 DEF TargetsAreKept
<1>12. AllIsRemembered(t, {})'
    <2> SUFFICES ASSUME NEW n \in memory.targets \ positions', open_orders'[n] = <<>>
                 PROVE  n \in memory.buys \cup memory'.lost \cup old_sells
        BY <1>2, <1>4, <1>7 DEF AllIsRemembered
    <2>1. \A k \in memory.targets \ positions :
            open_orders[k] # <<>> \/ k \in memory.buys \cup memory.lost \cup old_sells
        BY <1>1, <1>2 DEF AllIsRemembered
    <2>2. memory.lost \subseteq memory'.lost
        BY <1>7
    <2>3. CASE n # m
        BY <1>3, <1>5, <1>8, <2>1, <2>2, <2>3
    <2>4. CASE n = m /\ UNCHANGED memory /\ m \in positions
        <3>1. Head(open_orders[m]) = "sell"
            BY <1>3, <1>5, <2>4
        <3>2. m \in old_sells
            BY <1>1, <1>2, <1>6, <2>4, <3>1 DEF TargetsAreKept
        <3> QED
            BY <2>4, <3>2
    <2>5. CASE n = m /\ UNCHANGED memory /\ m \notin positions
        BY <1>3, <1>5, <1>6, <2>5 DEF Sides
    <2>6. CASE n = m /\ memory' = [memory EXCEPT !.lost = @ \cup {m}]
        BY <1>3, <2>6
    <2> QED
        BY <1>5, <2>3, <2>4, <2>5, <2>6
<1>13. positions' \subseteq Members
    BY <1>1, <1>5
<1>14. Held(t)' \subseteq Held(old)
    <2>1. Held(t)' = positions' \cup {n \in Members : HasSide(open_orders'[n], "buy")}
        BY <1>2 DEF Held
    <2>2. Held(old) = positions \cup {n \in Members : HasSide(open_orders[n], "buy")}
        BY <1>2 DEF Held
    <2>3. \A n \in Members : HasSide(open_orders'[n], "buy") => HasSide(open_orders[n], "buy")
        BY <1>6, <1>8
    <2>4. positions' \subseteq positions \cup {n \in Members : HasSide(open_orders[n], "buy")}
        BY <1>5, <1>6
    <2> QED
        BY <2>1, <2>2, <2>3, <2>4
<1>15. TargetsFit(t)' /\ BuysFit(t)'
    <2>1. Held(old) \in SUBSET Members /\ Held(t)' \in SUBSET Members
        BY <1>1, <1>14 DEF Held
    <2>2. Cardinality(Held(t)') <= Cardinality(Held(old)) /\ Cardinality(Held(old)) \in Nat
          /\ Cardinality(Held(t)') \in Nat /\ HoldCount \in Nat
        BY <1>14, <2>1, MembersAreFinite
    <2>3. Cardinality(memory.targets) <= HoldCount /\ Cardinality(Held(old)) <= HoldCount
          /\ Cardinality(memory.targets \cup memory.buys) <= HoldCount
        BY <1>1, <1>2 DEF TargetsFit, BuysFit
    <2>4. Cardinality(Held(t)') <= HoldCount
        BY <2>2, <2>3
    <2> QED
        BY <1>2, <1>7, <2>3, <2>4 DEF TargetsFit, BuysFit
<1>16. IsGood(t)'
    BY <1>9, <1>10, <1>11, <1>12, <1>15 DEF IsGood, IsSound
<1> QED
    BY <1>1, <1>4, <1>13, <1>16 DEF TraderIInv, t

\* A new strategy object without orders: it holds what it held.
LEMMA NewObjectIsGood ==
    ASSUME NEW period,
           memory' = Universe!NewMemory(period), open_orders' = [m \in Members |-> <<>>], retries' = {}, old_sells' = {},
           positions' \subseteq Members, time' \in Nat, Cardinality(positions') <= HoldCount
    PROVE  TraderIInv'
<1> DEFINE t == Universe!State
<1>1. t'.memory = memory' /\ t'.orders = open_orders' /\ t'.retries = {} /\ t'.old_sells = {}
      /\ DOMAIN t' = {"memory", "orders", "retries", "old_sells"}
    BY DEF Universe!State
<1>2. /\ memory'.members = {} /\ memory'.targets = {} /\ memory'.buys = {} /\ memory'.lost = {}
      /\ memory'.values = <<>> /\ memory'.retry_times = [m \in Members |-> -1]
      /\ DOMAIN memory' = {"members", "values", "period", "is_due", "wait", "last_bar_time", "buys", "targets", "lost",
                           "retry_times", "has_ranked"}
    BY DEF Universe!NewMemory
<1> HIDE DEF t
<1>3. TraderIsTyped(t)'
    <2>1. DOMAIN memory'.values = {}
        BY <1>2
    <2>2. open_orders' \in [Members -> Seq(Sides)]
        OBVIOUS
    <2>3. -1 \in -1 .. time'
        OBVIOUS
    <2>4. memory'.retry_times \in [Members -> -1 .. time']
        BY <1>2, <2>3
    <2> QED
        BY <1>1, <1>2, <2>1, <2>2, <2>4 DEF TraderIsTyped
<1>4. RetriesAreAlone(t)' /\ TargetsAreKept(t)' /\ AllIsRemembered(t, {})'
    BY <1>1, <1>2 DEF RetriesAreAlone, TargetsAreKept, AllIsRemembered
<1>5. Held(t)' = positions'
    <2>1. \A m \in Members : ~HasSide(open_orders'[m], "buy")
        BY DEF HasSide
    <2> QED
        BY <1>1, <2>1 DEF Held
<1>6. TargetsFit(t)' /\ BuysFit(t)'
    <2>1. Cardinality({}) = 0 /\ 0 <= HoldCount /\ t'.memory.targets = {} /\ t'.memory.targets \cup t'.memory.buys = {}
        BY <1>1, <1>2, MembersAreFinite, FS_EmptySet
    <2> QED
        BY <1>5, <2>1 DEF TargetsFit, BuysFit
<1>7. IsGood(t)'
    BY <1>3, <1>4, <1>6 DEF IsGood, IsSound
<1> QED
    BY <1>7 DEF TraderIInv, t

\* Each step of the strategy, of its orders and of its restart keeps the invariant.
LEMMA TraderStep == TraderIInv /\ (Universe!Next \/ UNCHANGED universe_strategy) => TraderIInv'
<1> SUFFICES ASSUME TraderIInv, Universe!Next \/ UNCHANGED universe_strategy PROVE TraderIInv'
    OBVIOUS
<1>1. positions \subseteq Members /\ time \in Nat /\ IsGood(Universe!State)
    BY DEF TraderIInv
<1>2. ASSUME NEW m \in Members, NEW value \in -1 .. 2, NEW exit_is_true \in BOOLEAN, Universe!OnBar(m, value, exit_is_true)
      PROVE  TraderIInv'
    BY <1>2, BarIsGood
<1>3. ASSUME NEW list \in SUBSET Members, Universe!OnData(list) PROVE TraderIInv'
    BY <1>3, DataIsGood
<1>4. ASSUME NEW m \in Members, Universe!OrderFills(m) \/ Universe!OrderIsLost(m) PROVE TraderIInv'
    BY <1>4, OrderEndIsGood
<1>5. CASE Universe!Restart
    <2> DEFINE old == Universe!State
    <2>1. Cardinality(positions) <= HoldCount
        <3>1. Cardinality(Held(old)) <= HoldCount
            BY <1>1 DEF IsGood, IsSound, TargetsFit
        <3>2. positions \in SUBSET Members /\ Held(old) \in SUBSET Members /\ positions \subseteq Held(old)
            BY <1>1 DEF Held
        <3>3. Cardinality(positions) <= Cardinality(Held(old)) /\ Cardinality(positions) \in Nat
              /\ Cardinality(Held(old)) \in Nat /\ HoldCount \in Nat
            BY <3>2, MembersAreFinite
        <3> QED
            BY <3>1, <3>3
    <2>2. /\ open_orders' = [m \in Members |-> <<>>] /\ retries' = {} /\ old_sells' = {} /\ UNCHANGED <<positions, time>>
          /\ memory' = Universe!NewMemory(IF positions = {} THEN Universe!NoPeriod ELSE Universe!Period(time))
        BY <1>5 DEF Universe!Restart
    <2> QED
        BY <1>1, <2>1, <2>2, NewObjectIsGood
<1>6. CASE Universe!NextBarTime \/ UNCHANGED universe_strategy
    <2> DEFINE t == Universe!State
    <2>1. t' = t /\ UNCHANGED positions /\ time' \in {time, time + 1}
        BY <1>6 DEF Universe!State, Universe!NextBarTime, universe_strategy
    <2>2. /\ TraderIsTyped(t) /\ RetriesAreAlone(t) /\ TargetsAreKept(t) /\ AllIsRemembered(t, {})
          /\ TargetsFit(t) /\ BuysFit(t)
        BY <1>1 DEF IsGood, IsSound
    <2> HIDE DEF t
    <2>3. time' \in Nat /\ -1 .. time \subseteq -1 .. time'
        BY <1>1, <2>1
    <2>4. TraderIsTyped(t)'
        BY <2>1, <2>2, <2>3 DEF TraderIsTyped
    <2>5. RetriesAreAlone(t)' /\ TargetsAreKept(t)' /\ AllIsRemembered(t, {})'
        BY <2>1, <2>2 DEF RetriesAreAlone, TargetsAreKept, AllIsRemembered
    <2>6. TargetsFit(t)' /\ BuysFit(t)'
        BY <2>1, <2>2 DEF TargetsFit, BuysFit, Held
    <2>7. IsGood(t)'
        BY <2>4, <2>5, <2>6 DEF IsGood, IsSound
    <2> QED
        BY <1>1, <2>1, <2>3, <2>7 DEF TraderIInv, t
<1> QED
    BY <1>2, <1>3, <1>4, <1>5, <1>6 DEF Universe!Next

\* A new strategy without members has it.
LEMMA TraderInit == Init => TraderIInv
<1> SUFFICES ASSUME Init PROVE TraderIInv
    OBVIOUS
<1> DEFINE t == Universe!State
<1>1. /\ memory = Universe!NewMemory(Universe!NoPeriod) /\ open_orders = [m \in Members |-> <<>>] /\ retries = {}
      /\ old_sells = {} /\ positions = {} /\ time = 1
    BY DEF Init, InitOf, Universe!Init
<1>2. t.memory = memory /\ t.orders = open_orders /\ t.retries = {} /\ t.old_sells = {}
      /\ DOMAIN t = {"memory", "orders", "retries", "old_sells"}
    BY <1>1 DEF Universe!State
<1>3. /\ memory.members = {} /\ memory.targets = {} /\ memory.buys = {} /\ memory.lost = {}
      /\ memory.values = <<>> /\ memory.retry_times = [m \in Members |-> -1]
      /\ DOMAIN memory = {"members", "values", "period", "is_due", "wait", "last_bar_time", "buys", "targets", "lost",
                           "retry_times", "has_ranked"}
    BY <1>1 DEF Universe!NewMemory
<1> HIDE DEF t
<1>4. TraderIsTyped(t)
    <2>1. DOMAIN memory.values = {} /\ open_orders \in [Members -> Seq(Sides)] /\ -1 \in -1 .. time
        BY <1>1, <1>3
    <2>2. memory.retry_times \in [Members -> -1 .. time]
        BY <1>3, <2>1
    <2> QED
        BY <1>2, <1>3, <2>1, <2>2 DEF TraderIsTyped
<1>5. RetriesAreAlone(t) /\ TargetsAreKept(t) /\ AllIsRemembered(t, {})
    BY <1>2, <1>3 DEF RetriesAreAlone, TargetsAreKept, AllIsRemembered
<1>6. Held(t) = {}
    <2>1. \A m \in Members : ~HasSide(open_orders[m], "buy")
        BY <1>1 DEF HasSide
    <2> QED
        BY <1>1, <1>2, <2>1 DEF Held
<1>7. TargetsFit(t) /\ BuysFit(t)
    <2>1. Cardinality({}) = 0 /\ 0 <= HoldCount /\ t.memory.targets = {} /\ t.memory.targets \cup t.memory.buys = {}
        BY <1>2, <1>3, MembersAreFinite, FS_EmptySet
    <2> QED
        BY <1>6, <2>1 DEF TargetsFit, BuysFit
<1> QED
    BY <1>1, <1>4, <1>5, <1>7 DEF TraderIInv, IsGood, IsSound, t

\* The invariant has what TradersInv says of a universe.
LEMMA TraderIsEnough == TraderIInv => Universe!UniverseIsHeld
<1> SUFFICES ASSUME TraderIInv PROVE Universe!UniverseIsHeld
    OBVIOUS
<1> DEFINE t == Universe!State
<1>1. RetriesAreAlone(t) /\ AllIsRemembered(t, {}) /\ TargetsFit(t)
    BY DEF TraderIInv, IsGood, IsSound
<1>2. t.memory = memory /\ t.orders = open_orders /\ t.retries = retries /\ t.old_sells = old_sells
    BY StateIs
<1> HIDE DEF t
<1>3. Universe!HoldsAtMostHoldCount
    <2>1. Held(t) = positions \cup {m \in Members : \E k \in DOMAIN open_orders[m] : open_orders[m][k] = "buy"}
        BY <1>2 DEF Held, HasSide
    <2>2. Universe!Cardinality(Held(t)) = Cardinality(Held(t))
        BY DEF Universe!Cardinality, Cardinality
    <2> QED
        BY <1>1, <2>1, <2>2 DEF TargetsFit, Universe!HoldsAtMostHoldCount
<1>4. Universe!NoTargetIsForgotten
    BY <1>1, <1>2 DEF AllIsRemembered, Universe!NoTargetIsForgotten
<1>5. Universe!OneRetryInAPeriod
    BY <1>1, <1>2 DEF RetriesAreAlone, Universe!OneRetryInAPeriod
<1> QED
    BY <1>3, <1>4, <1>5 DEF Universe!UniverseIsHeld

-----------------------------------------------------------------------------
\* Each step is a step of these strategies, or changes nothing of them.
LEMMA StepsOfTheTraders ==
    [Next]_vars => (Universe!Next \/ UNCHANGED universe_strategy) /\ (Rules!Next \/ UNCHANGED rules_strategy)
BY DEF Next, ResearchStep, AssistantStep, vars, research, traders

\* TradersInv for every number of members, every hold_count and every list: what a universe holds and buys never exceeds
\* hold_count, no target is forgotten, and a lost order is sent again one time in its period.
THEOREM TradersAreConsistent == Spec => []TradersInv
<1>1. Init => TraderIInv /\ RulesIInv
    BY TraderInit, RulesInit
<1>2. TraderIInv /\ RulesIInv /\ [Next]_vars => TraderIInv' /\ RulesIInv'
    BY StepsOfTheTraders, TraderStep, RulesStep
<1>3. TraderIInv /\ RulesIInv => TradersInv
    BY TraderIsEnough DEF TradersInv, RulesIInv, Rules!RulesAreTraded
<1> QED
    BY <1>1, <1>2, <1>3, PTL DEF Spec

-----------------------------------------------------------------------------
(* The orders of one engine run. The bars of a run end, and each           *)
(* instrument has one.                                                     *)

RunHasBars ==
    /\ Instruments # {} /\ \A i \in Instruments : Opens[i] # {}
    /\ \E last \in Nat : \A i \in Instruments : \A p \in Opens[i] : p <= last

\* A set of numbers has a smallest one.
LEMMA SmallestNumber == ASSUME NEW T, T \subseteq Nat, T # {} PROVE \E n \in T : \A k \in T : n <= k
<1>1. PICK n \in T : \A k \in T : <<k, n>> \notin OpToRel(<, Nat)
    BY NatLessThanWellFounded, WFMin
<1>2. \A k \in T : ~(k < n)
    BY <1>1 DEF OpToRel
<1> QED
    BY <1>2

\* So with a bound it has a largest one.
LEMMA LargestNumber ==
    ASSUME NEW T, T \subseteq Nat, T # {}, NEW last \in Nat, \A k \in T : k <= last
    PROVE  \E n \in T : \A k \in T : k <= n
<1> DEFINE left_over == {m \in Nat : last - m \in T}
<1>1. left_over # {}
    <2>1. PICK k \in T : TRUE
        OBVIOUS
    <2>2. last - k \in Nat /\ last - (last - k) = k
        BY <2>1
    <2> QED
        BY <2>1, <2>2
<1>2. PICK m \in left_over : \A k \in left_over : m <= k
    BY <1>1, SmallestNumber
<1>3. ASSUME NEW k \in T PROVE k <= last - m
    <2>1. last - k \in Nat /\ last - (last - k) = k
        OBVIOUS
    <2>2. last - k \in left_over
        BY <2>1
    <2> QED
        BY <1>2, <2>2
<1> QED
    BY <1>2, <1>3

\* The times of the bars are numbers.
LEMMA EngineConstants ==
    /\ MaxOrders \in Nat /\ StartCash \in Nat /\ Engine!Length \in Nat /\ Engine!Length = MaxOrders + 3
    /\ \A i \in Instruments : Opens[i] \subseteq Nat
    /\ \A p \in Nat : Engine!OpenTick(p) \in Nat /\ Engine!OpenTick(p) = Engine!Length * p + 1
<1>1. MaxOrders \in Nat /\ StartCash \in Nat /\ \A i \in Instruments : Opens[i] \subseteq Nat
    BY ResearchAssumption
<1>2. Engine!Length \in Nat /\ Engine!Length = MaxOrders + 3
    BY <1>1 DEF Engine!Length
<1>3. \A p \in Nat : Engine!Length * p \in Nat
    BY <1>2
<1> QED
    BY <1>1, <1>2, <1>3 DEF Engine!OpenTick

\* A later bar starts after the end of an earlier one.
LEMMA BarsFollow ==
    ASSUME NEW n \in Nat, NEW a \in Nat, NEW b \in Nat
    PROVE  /\ n * a \in Nat /\ n * (a + 1) = n * a + n
           /\ a <= b => n * a <= n * b
           /\ a < b => n * a + n <= n * b
<1>1. n * a \in Nat /\ n * (a + 1) = n * a + n
    OBVIOUS
<1>2. ASSUME a <= b PROVE n * a <= n * b
    <2>1. b - a \in Nat /\ n * (b - a) >= 0 /\ n * b = n * a + n * (b - a)
        BY <1>2
    <2> QED
        BY <2>1
<1>3. ASSUME a < b PROVE n * a + n <= n * b
    <2>1. b - (a + 1) \in Nat /\ n * (b - (a + 1)) >= 0 /\ n * b = n * (a + 1) + n * (b - (a + 1))
        BY <1>3
    <2> QED
        BY <1>1, <2>1
<1> QED
    BY <1>1, <1>2, <1>3

\* The last bar of an instrument is one of its bars, and the run ends after all bars.
LEMMA LastBar ==
    ASSUME RunHasBars
    PROVE  /\ \A i \in Instruments : Engine!Last(i) \in Opens[i] /\ Engine!Last(i) \in Nat
           /\ Engine!Ends \in Nat /\ \A i \in Instruments : \A p \in Opens[i] : p < Engine!Ends
<1> DEFINE all == UNION {Opens[i] : i \in Instruments}
<1>1. PICK last \in Nat : \A i \in Instruments : \A p \in Opens[i] : p <= last
    BY DEF RunHasBars
<1>2. \A i \in Instruments : Opens[i] \subseteq Nat /\ Opens[i] # {}
    BY EngineConstants DEF RunHasBars
<1>3. ASSUME NEW i \in Instruments PROVE Engine!Last(i) \in Opens[i] /\ Engine!Last(i) \in Nat
    <2>1. \E p \in Opens[i] : \A q \in Opens[i] : q <= p
        BY <1>1, <1>2, LargestNumber
    <2> QED
        BY <1>2, <2>1 DEF Engine!Last
<1>4. all \subseteq Nat /\ all # {} /\ \A p \in all : p <= last
    BY <1>1, <1>2 DEF RunHasBars
<1>5. PICK p \in all : \A q \in all : q <= p
    BY <1>4, LargestNumber
<1> DEFINE end == CHOOSE e \in all : \A q \in all : q <= e
<1>6. end \in all /\ \A q \in all : q <= end
    BY <1>5
<1>7. Engine!Ends = 1 + end
    BY DEF Engine!Ends
<1> HIDE DEF end
<1>8. \A i \in Instruments : \A q \in Opens[i] : q \in all
    OBVIOUS
<1> HIDE DEF all
<1> QED
    BY <1>3, <1>4, <1>6, <1>7, <1>8, <1>2

\* Each held order has its alert after the first open of its instrument, and there are no more than the strategy sent.
WaitsForItsOpen(w) ==
    /\ w.order.instrument \in Instruments /\ w.at \in Nat /\ w.since[1] \in Nat /\ w.since[1] <= clock /\ w.at >= clock
    /\ \E p \in Opens[w.order.instrument] : Engine!OpenTick(p) > w.since[1]
    /\ \A p \in Opens[w.order.instrument] : Engine!OpenTick(p) > w.since[1] => w.at <= Engine!OpenTick(p) + MaxOrders

HeldOrdersIInv ==
    /\ clock \in Nat /\ clock <= Engine!Length * Engine!Ends
    /\ orders \in 0 .. MaxOrders /\ IsFiniteSet(waiting) /\ Cardinality(waiting) <= orders
    /\ \A w \in waiting : WaitsForItsOpen(w)

\* The next open of an instrument, at the end of a bar.
LEMMA NextOpenIs ==
    ASSUME NEW i \in Instruments, clock \in Nat, NEW later, later = {p \in Opens[i] : Engine!OpenTick(p) > clock}, later # {}
    PROVE  LET next == CHOOSE p \in later : \A q \in later : p <= q
           IN  /\ next \in Opens[i] /\ next \in Nat /\ Engine!OpenTick(next) \in Nat /\ Engine!OpenTick(next) > clock
               /\ \A p \in Opens[i] : Engine!OpenTick(p) > clock => Engine!OpenTick(next) <= Engine!OpenTick(p)
<1> DEFINE next == CHOOSE p \in later : \A q \in later : p <= q
<1>1. Opens[i] \subseteq Nat /\ later \subseteq Nat
    BY EngineConstants
<1>2. \E p \in later : \A q \in later : p <= q
    BY <1>1, SmallestNumber
<1>3. next \in later /\ \A q \in later : next <= q
    BY <1>2
<1> HIDE DEF next
<1>4. next \in Opens[i] /\ next \in Nat /\ Engine!OpenTick(next) > clock /\ Engine!OpenTick(next) \in Nat
    BY <1>1, <1>3, EngineConstants
<1>5. ASSUME NEW p \in Opens[i], Engine!OpenTick(p) > clock PROVE Engine!OpenTick(next) <= Engine!OpenTick(p)
    <2>1. p \in Nat /\ next <= p
        BY <1>1, <1>3, <1>5
    <2>2. Engine!Length * next <= Engine!Length * p /\ Engine!Length * next \in Nat /\ Engine!Length * p \in Nat
        BY <1>4, <2>1, BarsFollow, EngineConstants
    <2> QED
        BY <1>4, <2>1, <2>2, EngineConstants
<1> QED
    BY <1>4, <1>5 DEF next

\* What an order of the strategy becomes: it is held, or it fills at once when its instrument has no later open.
LEMMA OrderIsHeld ==
    ASSUME HeldOrdersIInv, NEW order_, order_.instrument \in Instruments, NEW late, Engine!SendAtNextOpen(order_, late)
    PROVE  \/ /\ \A p \in Opens[order_.instrument] : ~(Engine!OpenTick(p) > clock)
              /\ Engine!SendLate(order_)
           \/ \E p \in Opens[order_.instrument] : \E w :
                /\ w = [order |-> order_, since |-> <<clock, Cardinality(waiting)>>,
                        at |-> Engine!OpenTick(p) + Cardinality(waiting) + 1]
                /\ Engine!OpenTick(p) > clock
                /\ \A q \in Opens[order_.instrument] :
                    Engine!OpenTick(q) > clock => Engine!OpenTick(p) <= Engine!OpenTick(q)
                /\ waiting' = waiting \cup {w} /\ closing' = late /\ UNCHANGED <<cash, shares>>
<1> DEFINE later == {p \in Opens[order_.instrument] : Engine!OpenTick(p) > clock}
           next == CHOOSE p \in later : \A q \in later : p <= q
<1>1. Engine!Cardinality(waiting) = Cardinality(waiting)
    BY DEF Engine!Cardinality, Cardinality
<1>2. CASE later = {}
    <2>1. Engine!SendLate(order_)
        BY <1>2 DEF Engine!SendAtNextOpen
    <2> QED
        BY <1>2, <2>1
<1>3. CASE later # {}
    <2>1. /\ waiting' = waiting \cup {[order |-> order_, since |-> <<clock, Cardinality(waiting)>>,
                                       at |-> Engine!OpenTick(next) + Cardinality(waiting) + 1]}
          /\ closing' = late /\ UNCHANGED <<cash, shares>>
        BY <1>1, <1>3 DEF Engine!SendAtNextOpen
    <2>2. /\ next \in Opens[order_.instrument] /\ Engine!OpenTick(next) > clock
          /\ \A q \in Opens[order_.instrument] :
                Engine!OpenTick(q) > clock => Engine!OpenTick(next) <= Engine!OpenTick(q)
        BY <1>3, NextOpenIs DEF HeldOrdersIInv
    <2> HIDE DEF next
    <2> QED
        BY <2>1, <2>2
<1> QED
    BY <1>2, <1>3

\* An order of the strategy that is held has its alert after the next open.
LEMMA HeldOrderStep ==
    ASSUME HeldOrdersIInv, RunHasBars, NEW order_, order_.instrument \in Instruments, NEW late,
           Engine!SendAtNextOpen(order_, late), orders < MaxOrders, orders' = orders + 1, UNCHANGED clock
    PROVE  HeldOrdersIInv'
<1>1. /\ clock \in Nat /\ orders \in 0 .. MaxOrders /\ IsFiniteSet(waiting) /\ Cardinality(waiting) <= orders
      /\ Cardinality(waiting) \in Nat /\ MaxOrders \in Nat /\ orders' \in 0 .. MaxOrders
      /\ clock <= Engine!Length * Engine!Ends
    <2>1. /\ clock \in Nat /\ orders \in 0 .. MaxOrders /\ IsFiniteSet(waiting) /\ Cardinality(waiting) <= orders
          /\ clock <= Engine!Length * Engine!Ends
        BY DEF HeldOrdersIInv
    <2>2. Cardinality(waiting) \in Nat /\ MaxOrders \in Nat
        BY <2>1, EngineConstants, FS_CardinalityType
    <2>3. orders' \in 0 .. MaxOrders
        BY <2>1, <2>2
    <2> QED
        BY <2>1, <2>2, <2>3
<1>2. Engine!Length' = Engine!Length /\ Engine!Ends' = Engine!Ends
    BY DEF Engine!Length, Engine!Ends
<1>3. ASSUME NEW w \in waiting PROVE WaitsForItsOpen(w)'
    BY <1>3 DEF HeldOrdersIInv, WaitsForItsOpen, Engine!OpenTick, Engine!Length
<1>4. CASE UNCHANGED waiting
    BY <1>1, <1>2, <1>3, <1>4 DEF HeldOrdersIInv
<1>5. ASSUME NEW p \in Opens[order_.instrument],
             NEW w, w = [order |-> order_, since |-> <<clock, Cardinality(waiting)>>,
                         at |-> Engine!OpenTick(p) + Cardinality(waiting) + 1],
             Engine!OpenTick(p) > clock,
             \A q \in Opens[order_.instrument] : Engine!OpenTick(q) > clock => Engine!OpenTick(p) <= Engine!OpenTick(q),
             waiting' = waiting \cup {w}
      PROVE  HeldOrdersIInv'
    <2>1. p \in Nat /\ Engine!OpenTick(p) \in Nat /\ \A q \in Opens[order_.instrument] : Engine!OpenTick(q) \in Nat
        BY EngineConstants
    <2>2. w.order.instrument = order_.instrument /\ w.since[1] = clock
          /\ w.at = Engine!OpenTick(p) + Cardinality(waiting) + 1
        BY <1>5
    <2>3. /\ w.at \in Nat /\ w.at >= clock /\ w.at <= Engine!OpenTick(p) + MaxOrders
        BY <1>1, <1>5, <2>1, <2>2
    <2>4. WaitsForItsOpen(w)
        BY <1>1, <1>5, <2>1, <2>2, <2>3 DEF WaitsForItsOpen
    <2>5. WaitsForItsOpen(w)'
        BY <2>4 DEF WaitsForItsOpen, Engine!OpenTick, Engine!Length
    <2>6. IsFiniteSet(waiting') /\ Cardinality(waiting') <= orders'
        <3>1. /\ IsFiniteSet(waiting \cup {w})
              /\ Cardinality(waiting \cup {w}) \in {Cardinality(waiting), Cardinality(waiting) + 1}
            BY <1>1, FS_AddElement
        <3>2. waiting' = waiting \cup {w} /\ orders' = orders + 1
            BY <1>5
        <3> QED
            BY <1>1, <3>1, <3>2
    <2> QED
        BY <1>1, <1>2, <1>3, <1>5, <2>5, <2>6 DEF HeldOrdersIInv
<1> QED
    BY <1>4, <1>5, OrderIsHeld DEF Engine!SendLate

\* Each step of a run keeps what its held orders wait for.
LEMMA HeldOrdersStep == RunHasBars /\ HeldOrdersIInv /\ [Engine!Next]_engine => HeldOrdersIInv'
<1> SUFFICES ASSUME RunHasBars, HeldOrdersIInv, Engine!Next \/ UNCHANGED engine PROVE HeldOrdersIInv'
    OBVIOUS
<1>1. /\ clock \in Nat /\ orders \in 0 .. MaxOrders /\ IsFiniteSet(waiting) /\ Cardinality(waiting) <= orders
      /\ Cardinality(waiting) \in Nat /\ MaxOrders \in Nat /\ clock <= Engine!Length * Engine!Ends
    BY EngineConstants, FS_CardinalityType DEF HeldOrdersIInv
<1>2. Engine!Length' = Engine!Length /\ Engine!Ends' = Engine!Ends
    BY DEF Engine!Length, Engine!Ends
<1>3. ASSUME waiting' \subseteq waiting, UNCHANGED <<clock, orders>> PROVE HeldOrdersIInv'
    <2>1. ASSUME NEW w \in waiting' PROVE WaitsForItsOpen(w)'
        BY <1>3, <2>1 DEF HeldOrdersIInv, WaitsForItsOpen, Engine!OpenTick, Engine!Length
    <2>2. IsFiniteSet(waiting') /\ Cardinality(waiting') <= Cardinality(waiting) /\ Cardinality(waiting') \in Nat
        BY <1>1, <1>3, FS_Subset, FS_CardinalityType
    <2> QED
        BY <1>1, <1>2, <1>3, <2>1, <2>2 DEF HeldOrdersIInv
<1>4. CASE Engine!SendWaiting
    BY <1>3, <1>4 DEF Engine!SendWaiting
<1>5. CASE Engine!Fill \/ UNCHANGED engine
    BY <1>3, <1>5 DEF Engine!Fill, engine
<1>6. CASE Engine!Tick
    <2>1. /\ clock' = clock + 1 /\ clock < Engine!Length * Engine!Ends /\ UNCHANGED <<waiting, orders>>
          /\ \A w \in waiting : w.at # clock
        BY <1>6 DEF Engine!Tick, Engine!Due
    <2>2. ASSUME NEW w \in waiting PROVE WaitsForItsOpen(w)'
        BY <1>1, <2>1, <2>2 DEF HeldOrdersIInv, WaitsForItsOpen, Engine!OpenTick, Engine!Length
    <2>3. Engine!Length * Engine!Ends \in Nat
        BY LastBar, EngineConstants, BarsFollow
    <2>4. clock' \in Nat /\ clock' <= Engine!Length * Engine!Ends
        BY <1>1, <2>1, <2>3
    <2> QED
        BY <1>1, <1>2, <2>1, <2>2, <2>4 DEF HeldOrdersIInv
<1>7. ASSUME NEW i \in Instruments, Engine!ClosePosition(i) PROVE HeldOrdersIInv'
    <2>1. orders < MaxOrders /\ orders' = orders + 1 /\ UNCHANGED clock
        BY <1>7 DEF Engine!ClosePosition, Engine!StrategyActs
    <2>2. CASE UNCHANGED waiting
        <3>1. ASSUME NEW w \in waiting PROVE WaitsForItsOpen(w)'
            BY <2>1, <3>1 DEF HeldOrdersIInv, WaitsForItsOpen, Engine!OpenTick, Engine!Length
        <3> QED
            BY <1>1, <1>2, <2>1, <2>2, <3>1 DEF HeldOrdersIInv
    <2>3. ASSUME NEW late, Engine!SendAtNextOpen([instrument |-> i, side |-> "CLOSE", quantity |-> 0], late)
          PROVE  HeldOrdersIInv'
        BY <2>1, <2>3, HeldOrderStep
    <2> QED
        BY <1>7, <2>2, <2>3 DEF Engine!ClosePosition
<1>8. ASSUME NEW i \in Instruments, NEW side \in {"BUY", "SELL"}, NEW quantity \in 1 .. 3,
             Engine!SubmitOrder(i, side, quantity)
      PROVE  HeldOrdersIInv'
    <2>1. orders < MaxOrders /\ orders' = orders + 1 /\ UNCHANGED clock
          /\ Engine!SendAtNextOpen([instrument |-> i, side |-> side, quantity |-> quantity], closing)
        BY <1>8 DEF Engine!SubmitOrder, Engine!StrategyActs
    <2> QED
        BY <2>1, HeldOrderStep
<1> QED
    BY <1>4, <1>5, <1>6, <1>7, <1>8 DEF Engine!Next

\* An alert comes before the end of the bar of its open, so it comes before the end of the run.
LEMMA HeldOrdersAreEnough == RunHasBars /\ HeldOrdersIInv => Engine!NoOrderMissesItsOpen
<1> SUFFICES ASSUME RunHasBars, HeldOrdersIInv PROVE Engine!NoOrderMissesItsOpen
    OBVIOUS
<1>1. ASSUME NEW w \in waiting, NEW p \in Opens[w.order.instrument], Engine!OpenTick(p) > w.since[1]
      PROVE  w.at <= Engine!OpenTick(p) + MaxOrders /\ w.at >= clock /\ w.at \in Nat /\ clock \in Nat /\ p \in Nat
             /\ Engine!OpenTick(p) = Engine!Length * p + 1 /\ Engine!Length * p \in Nat /\ p < Engine!Ends
    <2>1. w.order.instrument \in Instruments
        BY DEF HeldOrdersIInv, WaitsForItsOpen
    <2>2. p \in Nat /\ p < Engine!Ends
        BY <2>1, LastBar, EngineConstants
    <2> QED
        BY <1>1, <2>2, EngineConstants, BarsFollow DEF HeldOrdersIInv, WaitsForItsOpen
<1>2. ASSUME clock = Engine!Length * Engine!Ends, NEW w \in waiting PROVE FALSE
    <2>1. PICK p \in Opens[w.order.instrument] : Engine!OpenTick(p) > w.since[1]
        BY DEF HeldOrdersIInv, WaitsForItsOpen
    <2>2. Engine!Length * p + Engine!Length <= Engine!Length * Engine!Ends /\ Engine!Length * Engine!Ends \in Nat
        BY <1>1, <2>1, BarsFollow, LastBar, EngineConstants
    <2> QED
        BY <1>1, <1>2, <2>1, <2>2, EngineConstants
<1>3. \A w \in waiting : w.at >= clock
    BY DEF HeldOrdersIInv, WaitsForItsOpen
<1>4. ASSUME NEW w \in waiting, NEW p \in Opens[w.order.instrument],
             Engine!OpenTick(p) > w.since[1], Engine!OpenTick(p) + MaxOrders < clock
      PROVE  FALSE
    BY <1>1, <1>4, EngineConstants
<1> QED
    BY <1>2, <1>3, <1>4 DEF Engine!NoOrderMissesItsOpen

\* No order waits at the start of a run.
LEMMA HeldOrdersInit == RunHasBars /\ Init => HeldOrdersIInv
<1> SUFFICES ASSUME RunHasBars, Init PROVE HeldOrdersIInv
    OBVIOUS
<1>1. clock = Engine!Length /\ waiting = {} /\ orders = 0
    BY DEF Init, InitOf, Engine!Init
<1>2. Engine!Ends \in Nat /\ 0 < Engine!Ends
    <2>1. PICK i \in Instruments : \E p \in Opens[i] : p \in Nat
        BY EngineConstants DEF RunHasBars
    <2> QED
        BY <2>1, LastBar
<1>3. Engine!Length * 0 + Engine!Length <= Engine!Length * Engine!Ends /\ Engine!Length * 0 = 0
    BY <1>2, BarsFollow, EngineConstants
<1> QED
    BY <1>1, <1>3, EngineConstants, FS_EmptySet DEF HeldOrdersIInv

-----------------------------------------------------------------------------
(* What the orders pay for, when all instruments have the same bars.       *)

SameBars == RunHasBars /\ \A i, j \in Instruments : Opens[i] = Opens[j]

HasOpened(i) == \E p \in Opens[i] : Engine!OpenTick(p) <= clock
IsOrder(o) == o.instrument \in Instruments /\ o.side \in {"BUY", "SELL"} /\ o.quantity \in Nat

AlertIsTyped(w) ==
    /\ w.order.instrument \in Instruments /\ w.order.side \in {"BUY", "SELL", "CLOSE"} /\ w.order.quantity \in Nat
    /\ DOMAIN w.order = {"instrument", "side", "quantity"} /\ w.since[2] \in Nat
    /\ \E k \in Nat : w.since[1] = Engine!Length * k
    /\ \E p \in Opens[w.order.instrument] : Engine!OpenTick(p) < w.at

\* The orders that wait at the end of a bar were all made there, so their alerts follow one open.
AlertsFollowOneOpen ==
    Engine!IsBarEnd =>
        /\ sent = <<>>
        /\ \A w \in waiting : w.at > clock
        /\ \A w \in waiting : \A p \in Opens[w.order.instrument] :
            Engine!OpenTick(p) > clock => w.at <= Engine!OpenTick(p) + Cardinality(waiting)

\* The order at the engine is the only one of its time, and the cash or the shares for it are still there.
OneOrderIsSent ==
    sent = <<>> \/ \E o : /\ sent = <<o>> /\ IsOrder(o) /\ HasOpened(o.instrument) /\ Engine!Accepted(o)
                          /\ Engine!Due = {} /\ ~Engine!IsBarEnd

PaidIInv ==
    /\ cash \in Nat /\ shares \in [Instruments -> Nat]
    /\ \A w \in waiting : AlertIsTyped(w)
    /\ \A v, w \in waiting : v.at = w.at => v = w
    /\ AlertsFollowOneOpen
    /\ OneOrderIsSent

\* The last price of an instrument that had an open is one of the prices.
LEMMA PriceIs ==
    ASSUME RunHasBars, clock \in Nat, NEW i \in Instruments, HasOpened(i)
    PROVE  Engine!LastPrice(i) \in {1, 2}
<1> DEFINE opened == {p \in Opens[i] : Engine!OpenTick(p) <= clock}
           newest == CHOOSE q \in opened : \A r \in opened : r <= q
<1>1. Opens[i] \subseteq Nat /\ opened \subseteq Nat /\ opened # {}
    BY EngineConstants DEF HasOpened
<1>2. \E q \in opened : \A r \in opened : r <= q
    <2>1. PICK last \in Nat : \A p \in Opens[i] : p <= last
        BY DEF RunHasBars
    <2>2. \A p \in opened : p <= last
        BY <2>1
    <2> HIDE DEF opened
    <2> QED
        BY <1>1, <2>2, LargestNumber
<1>3. newest \in Nat
    BY <1>1, <1>2
<1>4. Engine!Last(i) + 1 \in Nat
    BY LastBar
<1>5. Engine!LastPrice(i) \in {Engine!Price(Engine!Last(i) + 1), Engine!Price(newest)}
    BY DEF Engine!LastPrice
<1> HIDE DEF newest
<1>6. \A n \in Nat : Engine!Price(n) \in {1, 2}
    BY DEF Engine!Price
<1> QED
    BY <1>3, <1>4, <1>5, <1>6

\* A fill of an order that the engine accepts leaves cash and shares that are not negative.
LEMMA FillIsCovered ==
    ASSUME cash \in Nat, shares \in [Instruments -> Nat], NEW o, IsOrder(o), Engine!Accepted(o),
           Engine!LastPrice(o.instrument) \in {1, 2}, Engine!Execute(o)
    PROVE  cash' \in Nat /\ shares' \in [Instruments -> Nat]
<1> DEFINE price == Engine!LastPrice(o.instrument)
           signed == IF o.side = "BUY" THEN o.quantity ELSE -o.quantity
<1>1. /\ cash' = cash - signed * price /\ shares' = [shares EXCEPT ![o.instrument] = @ + signed]
    BY DEF Engine!Execute
<1>2. /\ o.instrument \in Instruments /\ o.side \in {"BUY", "SELL"} /\ o.quantity \in Nat /\ price \in {1, 2}
      /\ shares[o.instrument] \in Nat
    BY DEF IsOrder
<1>3. IF o.side = "BUY" THEN o.quantity * price <= cash
      ELSE o.quantity <= shares[o.instrument] /\ o.quantity > 0
    BY DEF Engine!Accepted
<1> HIDE DEF price
<1>4. CASE o.side = "BUY"
    <2>1. signed = o.quantity
        BY <1>4
    <2>2. cash - o.quantity * price \in Nat /\ shares[o.instrument] + o.quantity \in Nat
        BY <1>2, <1>3, <1>4
    <2> QED
        BY <1>1, <1>2, <2>1, <2>2
<1>5. CASE o.side = "SELL"
    <2>1. signed = -o.quantity
        BY <1>5
    <2>2. o.quantity <= shares[o.instrument] /\ o.quantity > 0
        BY <1>3, <1>5
    <2> DEFINE n == -o.quantity
    <2>3. n \in Int /\ shares[o.instrument] + n \in Nat /\ cash - n * price \in Nat
        <3>1. CASE price = 1
            BY <1>2, <2>2, <3>1
        <3>2. CASE price = 2
            BY <1>2, <2>2, <3>2
        <3> QED
            BY <1>2, <3>1, <3>2
    <2> HIDE DEF n
    <2>4. signed = n
        BY <2>1 DEF n
    <2> HIDE DEF signed
    <2> QED
        BY <1>1, <1>2, <2>3, <2>4
<1> QED
    BY <1>2, <1>4, <1>5

\* A close becomes a sell of the position, and a buy at most as large as the cash.
LEMMA FittedIsOrder ==
    ASSUME cash \in Nat, shares \in [Instruments -> Nat], NEW o, o.instrument \in Instruments,
           DOMAIN o = {"instrument", "side", "quantity"},
           o.side \in {"BUY", "SELL", "CLOSE"}, o.quantity \in Nat, Engine!LastPrice(o.instrument) \in {1, 2}
    PROVE  IsOrder(Engine!Fitted(o)) /\ Engine!Fitted(o).instrument = o.instrument
<1> DEFINE price == Engine!LastPrice(o.instrument)
           paid == cash \div price
<1>1. CASE o.side = "CLOSE"
    <2> DEFINE close == [o EXCEPT !.side = "SELL", !.quantity = shares[o.instrument]]
    <2>1. Engine!Fitted(o) = close
        BY <1>1 DEF Engine!Fitted
    <2>2. close.instrument = o.instrument /\ close.side = "SELL" /\ close.quantity = shares[o.instrument]
        OBVIOUS
    <2> HIDE DEF close
    <2> QED
        BY <2>1, <2>2 DEF IsOrder
<1>2. CASE o.side # "CLOSE"
    <2> DEFINE smaller == [o EXCEPT !.quantity = paid]
    <2>1. paid \in Nat
        <3>1. price = 1 \/ price = 2
            OBVIOUS
        <3> HIDE DEF price
        <3>2. CASE price = 1
            BY <3>2
        <3>3. CASE price = 2
            BY <3>3
        <3> QED
            BY <3>1, <3>2, <3>3
    <2>2. Engine!Fitted(o) = o \/ Engine!Fitted(o) = smaller
        BY <1>2 DEF Engine!Fitted, Engine!Fit
    <2> HIDE DEF paid
    <2>3. smaller.instrument = o.instrument /\ smaller.side = o.side /\ smaller.quantity = paid
        OBVIOUS
    <2> HIDE DEF smaller
    <2> QED
        BY <1>2, <2>1, <2>2, <2>3 DEF IsOrder
<1> QED
    BY <1>1, <1>2

\* The end of a bar is the end of a bar of all instruments.
LEMMA BarEndIs ==
    ASSUME SameBars, NEW c \in Nat, c % Engine!Length = 0, NEW j \in Instruments, c \div Engine!Length - 1 \in Opens[j]
    PROVE  \E k \in Nat : c = Engine!Length * (k + 1) /\ \A i \in Instruments : k \in Opens[i]
<1> DEFINE k == c \div Engine!Length - 1
<1>1. k \in Nat /\ \A i \in Instruments : k \in Opens[i]
    BY EngineConstants DEF SameBars
<1>2. ASSUME NEW n \in Nat, n > 0, NEW d \in Nat, d % n = 0 PROVE d = n * (d \div n) /\ d \div n \in Nat
    BY <1>2
<1>3. Engine!Length \in Nat /\ Engine!Length > 0
    BY EngineConstants
<1>4. c = Engine!Length * (c \div Engine!Length) /\ c \div Engine!Length \in Nat
    BY <1>2, <1>3, Zenon
<1>5. c \div Engine!Length = k + 1
    BY <1>4
<1> HIDE DEF k
<1> QED
    BY <1>1, <1>4, <1>5

\* The strategy acts at the end of a bar: its order waits behind the others, or fills alone.
LEMMA StrategyOrderStep ==
    ASSUME SameBars, HeldOrdersIInv, PaidIInv, Engine!IsBarEnd,
           NEW order_, order_.instrument \in Instruments, order_.side \in {"BUY", "SELL", "CLOSE"},
           order_.quantity \in Nat, DOMAIN order_ = {"instrument", "side", "quantity"},
           NEW late, Engine!SendAtNextOpen(order_, late), UNCHANGED <<clock, sent>>
    PROVE  PaidIInv'
<1>1. /\ clock \in Nat /\ IsFiniteSet(waiting) /\ cash \in Nat /\ shares \in [Instruments -> Nat] /\ sent = <<>>
      /\ \A w \in waiting : w.at > clock
      /\ \A w \in waiting : \A p \in Opens[w.order.instrument] :
            Engine!OpenTick(p) > clock => w.at <= Engine!OpenTick(p) + Cardinality(waiting)
      /\ \A w \in waiting : AlertIsTyped(w)
      /\ \A v, w \in waiting : v.at = w.at => v = w
    BY DEF HeldOrdersIInv, PaidIInv, AlertsFollowOneOpen
<1>2. Cardinality(waiting) \in Nat
    BY <1>1, FS_CardinalityType
<1>3. OneOrderIsSent'
    BY <1>1 DEF OneOrderIsSent
<1>4. \A w \in waiting : AlertIsTyped(w)'
    BY <1>1 DEF AlertIsTyped, Engine!OpenTick, Engine!Length
<1>5. CASE (\A p \in Opens[order_.instrument] : ~(Engine!OpenTick(p) > clock)) /\ Engine!SendLate(order_)
    <2>1. Opens[order_.instrument] # {} /\ \A p \in Opens[order_.instrument] : Engine!OpenTick(p) \in Nat
        BY EngineConstants DEF SameBars, RunHasBars
    <2>2. HasOpened(order_.instrument)
        BY <1>1, <1>5, <2>1 DEF HasOpened
    <2>3. Engine!LastPrice(order_.instrument) \in {1, 2}
        BY <1>1, <2>2, PriceIs DEF SameBars
    <2>4. IsOrder(Engine!Fitted(order_)) /\ Engine!Fitted(order_).instrument = order_.instrument
        BY <1>1, <2>3, FittedIsOrder
    <2> DEFINE o == Engine!Fitted(order_)
    <2>5. (Engine!Accepted(o) /\ Engine!Execute(o)) \/ UNCHANGED <<cash, shares>>
        BY <1>5 DEF Engine!SendLate
    <2>6. UNCHANGED waiting
        BY <1>5 DEF Engine!SendLate
    <2> HIDE DEF o
    <2>7. cash' \in Nat /\ shares' \in [Instruments -> Nat]
        <3>1. IsOrder(o) /\ Engine!LastPrice(o.instrument) \in {1, 2}
            BY <2>3, <2>4 DEF o
        <3> QED
            BY <1>1, <2>5, <3>1, FillIsCovered
    <2>8. AlertsFollowOneOpen'
        BY <1>1, <2>6 DEF AlertsFollowOneOpen, Engine!OpenTick, Engine!Length
    <2> QED
        BY <1>1, <1>3, <1>4, <2>6, <2>7, <2>8 DEF PaidIInv
<1>6. ASSUME NEW p \in Opens[order_.instrument],
             NEW w, w = [order |-> order_, since |-> <<clock, Cardinality(waiting)>>,
                         at |-> Engine!OpenTick(p) + Cardinality(waiting) + 1],
             Engine!OpenTick(p) > clock,
             \A q \in Opens[order_.instrument] : Engine!OpenTick(q) > clock => Engine!OpenTick(p) <= Engine!OpenTick(q),
             waiting' = waiting \cup {w}, UNCHANGED <<cash, shares>>
      PROVE  PaidIInv'
    <2>1. p \in Nat /\ Engine!OpenTick(p) \in Nat
          /\ \A i \in Instruments : \A q \in Opens[i] : q \in Opens[order_.instrument] /\ Engine!OpenTick(q) \in Nat
        BY EngineConstants DEF SameBars
    <2>2. /\ w.order = order_ /\ w.since[1] = clock /\ w.since[2] = Cardinality(waiting)
          /\ w.at = Engine!OpenTick(p) + Cardinality(waiting) + 1
        BY <1>6
    <2>3. PICK k \in Nat : clock = Engine!Length * (k + 1)
        <3>1. PICK j \in Instruments : clock \div Engine!Length - 1 \in Opens[j]
            BY DEF Engine!IsBarEnd
        <3>2. clock % Engine!Length = 0
            BY DEF Engine!IsBarEnd
        <3> QED
            BY <1>1, <3>1, <3>2, BarEndIs
    <2>4. w.since[1] = Engine!Length * (k + 1) /\ k + 1 \in Nat
        BY <2>2, <2>3
    <2>5. w.at \in Nat /\ w.at > clock /\ Engine!OpenTick(p) < w.at
        BY <1>1, <1>2, <1>6, <2>1, <2>2
    <2>6. AlertIsTyped(w)
        BY <1>2, <2>2, <2>4, <2>5 DEF AlertIsTyped
    <2>7. AlertIsTyped(w)'
        BY <2>6 DEF AlertIsTyped, Engine!OpenTick, Engine!Length
    <2>8. ASSUME NEW v \in waiting PROVE v.at < w.at /\ v.at \in Nat
        <3>1. v.order.instrument \in Instruments /\ v.at \in Nat
            BY <2>8 DEF HeldOrdersIInv, WaitsForItsOpen
        <3>2. p \in Opens[v.order.instrument]
            BY <3>1 DEF SameBars
        <3>3. v.at <= Engine!OpenTick(p) + Cardinality(waiting)
            BY <1>1, <1>6, <2>8, <3>2
        <3> QED
            BY <1>2, <2>1, <2>2, <3>1, <3>3
    <2>9. w \notin waiting
        BY <2>5, <2>8
    <2>10. \A u, v \in waiting' : u.at = v.at => u = v
        BY <1>1, <1>6, <2>5, <2>8
    <2>11. Cardinality(waiting') = Cardinality(waiting) + 1
        <3>1. Cardinality(waiting \cup {w}) = Cardinality(waiting) + 1
            BY <1>1, <2>9, FS_AddElement
        <3> QED
            BY <1>6, <3>1
    <2>12. ASSUME NEW v \in waiting', NEW q \in Opens[v.order.instrument], Engine!OpenTick(q) > clock
           PROVE  v.at <= Engine!OpenTick(q) + Cardinality(waiting')
        <3>1. CASE v = w
            <4>1. Engine!OpenTick(p) <= Engine!OpenTick(q) /\ Engine!OpenTick(q) \in Nat
                BY <1>6, <2>1, <2>2, <2>12, <3>1
            <4> QED
                BY <1>2, <2>1, <2>2, <2>11, <3>1, <4>1
        <3>2. CASE v \in waiting
            <4>1. v.at <= Engine!OpenTick(q) + Cardinality(waiting)
                BY <1>1, <2>12, <3>2
            <4>2. v.order.instrument \in Instruments
                BY <1>1, <3>2 DEF AlertIsTyped
            <4>3. Engine!OpenTick(q) \in Nat /\ v.at \in Nat
                BY <2>1, <2>8, <3>2, <4>2
            <4> QED
                BY <1>2, <2>11, <4>1, <4>3
        <3> QED
            BY <1>6, <3>1, <3>2
    <2>13. AlertsFollowOneOpen'
        <3>1. \A v \in waiting' : v.at > clock'
            BY <1>1, <1>6, <2>5
        <3>2. \A v \in waiting' : \A q \in Opens[v.order.instrument] :
                Engine!OpenTick(q)' > clock' => v.at <= Engine!OpenTick(q)' + Cardinality(waiting')
            BY <2>12 DEF Engine!OpenTick, Engine!Length
        <3> QED
            BY <1>1, <3>1, <3>2 DEF AlertsFollowOneOpen
    <2> QED
        BY <1>1, <1>3, <1>4, <1>6, <2>7, <2>10, <2>13 DEF PaidIInv
<1> QED
    BY <1>5, <1>6, OrderIsHeld

\* The alert that is due is the only one of its time, so the cash is still there at its fill.
LEMMA SendWaitingStep ==
    ASSUME SameBars, HeldOrdersIInv, PaidIInv, Engine!SendWaiting
    PROVE  PaidIInv'
<1> DEFINE first == CHOOSE w \in Engine!Due : \A v \in Engine!Due :
                        \/ w.since[1] < v.since[1]
                        \/ w.since[1] = v.since[1] /\ w.since[2] <= v.since[2]
           o == Engine!Fitted(first.order)
<1>1. /\ clock \in Nat /\ cash \in Nat /\ shares \in [Instruments -> Nat]
      /\ (\A w \in waiting : AlertIsTyped(w)) /\ (\A v, w \in waiting : v.at = w.at => v = w)
      /\ AlertsFollowOneOpen /\ OneOrderIsSent
    BY DEF HeldOrdersIInv, PaidIInv
<1>2. /\ Engine!Due # {} /\ waiting' = waiting \ {first} /\ UNCHANGED <<clock, cash, shares>>
      /\ sent' = IF Engine!Accepted(o) THEN Append(sent, o) ELSE sent
    BY DEF Engine!SendWaiting
<1>3. PICK w \in waiting : w.at = clock /\ Engine!Due = {w}
    BY <1>1, <1>2 DEF Engine!Due
<1>4. first = w
    <2>1. w.since[2] <= w.since[2]
        BY <1>1 DEF AlertIsTyped
    <2>2. \E u \in Engine!Due : \A v \in Engine!Due :
                        \/ u.since[1] < v.since[1]
                        \/ u.since[1] = v.since[1] /\ u.since[2] <= v.since[2]
        BY <1>3, <2>1
    <2>3. first \in Engine!Due
        BY <2>2
    <2> HIDE DEF first
    <2> QED
        BY <1>3, <2>3
<1> HIDE DEF first
<1>5. sent = <<>> /\ ~Engine!IsBarEnd
    <2>1. ~Engine!IsBarEnd
        BY <1>1, <1>3 DEF AlertsFollowOneOpen
    <2> QED
        BY <1>1, <1>2, <2>1 DEF OneOrderIsSent
<1>6. ~Engine!IsBarEnd'
    BY <1>2, <1>5 DEF Engine!IsBarEnd, Engine!Length
<1>7. Engine!Due' = {}
    BY <1>2, <1>3, <1>4 DEF Engine!Due
<1>8. /\ w.order.instrument \in Instruments /\ w.order.side \in {"BUY", "SELL", "CLOSE"} /\ w.order.quantity \in Nat
      /\ DOMAIN w.order = {"instrument", "side", "quantity"} /\ \E p \in Opens[w.order.instrument] : Engine!OpenTick(p) < clock
    BY <1>1, <1>3 DEF AlertIsTyped
<1>9. HasOpened(w.order.instrument)
    <2>1. \A p \in Opens[w.order.instrument] : Engine!OpenTick(p) \in Nat
        BY <1>8, EngineConstants
    <2> QED
        BY <1>1, <1>8, <2>1 DEF HasOpened
<1>10. IsOrder(o) /\ o.instrument = w.order.instrument
    <2>1. Engine!LastPrice(w.order.instrument) \in {1, 2}
        BY <1>1, <1>8, <1>9, PriceIs DEF SameBars
    <2> QED
        BY <1>1, <1>4, <1>8, <2>1, FittedIsOrder
<1> HIDE DEF o
<1>11. OneOrderIsSent'
    <2>1. CASE Engine!Accepted(o)
        <3> PICK order_ : order_ = o
            OBVIOUS
        <3>1. sent' = <<order_>>
            BY <1>2, <1>5, <2>1
        <3>2. Engine!Accepted(order_)
            BY <2>1
        <3>3. Engine!LastPrice(order_.instrument)' = Engine!LastPrice(order_.instrument)
            BY <1>2 DEF Engine!LastPrice, Engine!Last, Engine!Price, Engine!OpenTick, Engine!Length
        <3>4. Engine!Accepted(order_)'
            BY <1>2, <3>2, <3>3 DEF Engine!Accepted
        <3>5. IsOrder(order_)' /\ HasOpened(order_.instrument)'
            BY <1>2, <1>9, <1>10 DEF IsOrder, HasOpened, Engine!OpenTick, Engine!Length
        <3> QED
            BY <1>6, <1>7, <3>1, <3>4, <3>5 DEF OneOrderIsSent
    <2>2. CASE ~Engine!Accepted(o)
        BY <1>2, <1>5, <2>2 DEF OneOrderIsSent
    <2> QED
        BY <2>1, <2>2
<1>12. AlertsFollowOneOpen'
    BY <1>6 DEF AlertsFollowOneOpen
<1>13. \A v \in waiting' : AlertIsTyped(v)'
    BY <1>1, <1>2 DEF AlertIsTyped, Engine!OpenTick, Engine!Length
<1> QED
    BY <1>1, <1>2, <1>11, <1>12, <1>13 DEF PaidIInv

\* The clock comes to the end of a bar only without orders: each alert comes before the end of the bar of its open.
LEMMA TickStep ==
    ASSUME SameBars, HeldOrdersIInv, PaidIInv, Engine!Tick
    PROVE  PaidIInv'
<1>1. /\ clock \in Nat /\ cash \in Nat /\ shares \in [Instruments -> Nat]
      /\ (\A w \in waiting : AlertIsTyped(w)) /\ (\A v, w \in waiting : v.at = w.at => v = w)
    BY DEF HeldOrdersIInv, PaidIInv
<1>2. /\ clock' = clock + 1 /\ UNCHANGED <<cash, shares, waiting, sent>> /\ sent = <<>>
      /\ \A w \in waiting : w.at # clock
    BY DEF Engine!Tick, Engine!Due
<1>3. \A w \in waiting : AlertIsTyped(w)'
    BY <1>1 DEF AlertIsTyped, Engine!OpenTick, Engine!Length
<1>4. OneOrderIsSent'
    BY <1>2 DEF OneOrderIsSent
<1>5. ASSUME Engine!IsBarEnd', NEW w \in waiting PROVE FALSE
    <2>1. PICK k \in Nat : clock' = Engine!Length * (k + 1) /\ \A i \in Instruments : k \in Opens[i]
        <3>1. clock' \in Nat
            BY <1>1, <1>2
        <3>2. PICK j \in Instruments : clock' \div Engine!Length - 1 \in Opens[j]
            BY <1>5 DEF Engine!IsBarEnd, Engine!Length
        <3>3. clock' % Engine!Length = 0
            BY <1>5 DEF Engine!IsBarEnd, Engine!Length
        <3> QED
            BY <3>1, <3>2, <3>3, BarEndIs
    <2>2. PICK j \in Nat : w.since[1] = Engine!Length * j
        BY <1>1 DEF AlertIsTyped
    <2>3. /\ w.since[1] \in Nat /\ w.since[1] <= clock /\ w.at >= clock /\ w.at \in Nat
          /\ w.order.instrument \in Instruments
          /\ Engine!OpenTick(k) > w.since[1] => w.at <= Engine!OpenTick(k) + MaxOrders
        BY <2>1 DEF HeldOrdersIInv, WaitsForItsOpen
    <2>4. w.at >= clock'
        BY <1>1, <1>2, <2>3
    <2>5. j <= k
        <3>1. k + 1 <= j => Engine!Length * (k + 1) <= Engine!Length * j
            BY BarsFollow, EngineConstants
        <3>2. Engine!Length * (k + 1) \in Nat /\ Engine!Length * j \in Nat
            BY BarsFollow, EngineConstants
        <3> QED
            BY <1>1, <1>2, <2>1, <2>2, <2>3, <3>1, <3>2
    <2>6. /\ Engine!Length * j <= Engine!Length * k /\ Engine!Length * k \in Nat /\ Engine!Length * j \in Nat
          /\ Engine!Length * (k + 1) = Engine!Length * k + Engine!Length
        BY <2>5, BarsFollow, EngineConstants
    <2>7. Engine!OpenTick(k) = Engine!Length * k + 1 /\ Engine!Length = MaxOrders + 3 /\ MaxOrders \in Nat
        BY EngineConstants
    <2> QED
        BY <2>1, <2>2, <2>3, <2>4, <2>6, <2>7
<1>6. AlertsFollowOneOpen'
    BY <1>2, <1>5 DEF AlertsFollowOneOpen
<1> QED
    BY <1>1, <1>2, <1>3, <1>4, <1>6 DEF PaidIInv

\* The fill of the one order that was sent.
LEMMA FillStep ==
    ASSUME SameBars, HeldOrdersIInv, PaidIInv, Engine!Fill
    PROVE  PaidIInv'
<1>1. /\ clock \in Nat /\ cash \in Nat /\ shares \in [Instruments -> Nat]
      /\ (\A w \in waiting : AlertIsTyped(w)) /\ (\A v, w \in waiting : v.at = w.at => v = w)
      /\ OneOrderIsSent
    BY DEF HeldOrdersIInv, PaidIInv
<1>2. sent # <<>> /\ Engine!Execute(Head(sent)) /\ sent' = Tail(sent) /\ UNCHANGED <<clock, waiting>>
    BY DEF Engine!Fill
<1>3. PICK o : sent = <<o>> /\ IsOrder(o) /\ HasOpened(o.instrument) /\ Engine!Accepted(o) /\ ~Engine!IsBarEnd
    BY <1>1, <1>2 DEF OneOrderIsSent
<1>4. sent' = <<>> /\ Engine!Execute(o)
    BY <1>2, <1>3
<1>5. Engine!LastPrice(o.instrument) \in {1, 2}
    BY <1>1, <1>3, PriceIs DEF IsOrder, SameBars
<1>6. cash' \in Nat /\ shares' \in [Instruments -> Nat]
    BY <1>1, <1>3, <1>4, <1>5, FillIsCovered
<1>7. OneOrderIsSent'
    BY <1>4 DEF OneOrderIsSent
<1>8. AlertsFollowOneOpen'
    BY <1>2, <1>3 DEF AlertsFollowOneOpen, Engine!IsBarEnd, Engine!Length
<1>9. \A v \in waiting' : AlertIsTyped(v)'
    BY <1>1, <1>2 DEF AlertIsTyped, Engine!OpenTick, Engine!Length
<1> QED
    BY <1>1, <1>2, <1>6, <1>7, <1>8, <1>9 DEF PaidIInv

\* Each step of a run keeps that its fills are paid.
LEMMA PaidStep == SameBars /\ HeldOrdersIInv /\ PaidIInv /\ [Engine!Next]_engine => PaidIInv'
<1> SUFFICES ASSUME SameBars, HeldOrdersIInv, PaidIInv, Engine!Next \/ UNCHANGED engine PROVE PaidIInv'
    OBVIOUS
<1>1. /\ cash \in Nat /\ shares \in [Instruments -> Nat]
      /\ (\A w \in waiting : AlertIsTyped(w)) /\ (\A v, w \in waiting : v.at = w.at => v = w)
      /\ OneOrderIsSent /\ AlertsFollowOneOpen
    BY DEF PaidIInv
<1>2. ASSUME UNCHANGED <<clock, cash, shares, waiting, sent>> PROVE PaidIInv'
    <2>1. OneOrderIsSent'
        <3>1. CASE sent = <<>>
            BY <1>2, <3>1 DEF OneOrderIsSent
        <3>2. ASSUME NEW o, sent = <<o>>, IsOrder(o), HasOpened(o.instrument), Engine!Accepted(o), Engine!Due = {},
                     ~Engine!IsBarEnd
              PROVE  OneOrderIsSent'
            <4>1. Engine!LastPrice(o.instrument)' = Engine!LastPrice(o.instrument)
                BY <1>2 DEF Engine!LastPrice, Engine!Last, Engine!Price, Engine!OpenTick, Engine!Length
            <4>2. Engine!Accepted(o)'
                BY <1>2, <3>2, <4>1 DEF Engine!Accepted
            <4>3. IsOrder(o)' /\ HasOpened(o.instrument)' /\ Engine!Due' = {} /\ ~Engine!IsBarEnd'
                BY <1>2, <3>2 DEF IsOrder, HasOpened, Engine!OpenTick, Engine!Length, Engine!Due, Engine!IsBarEnd
            <4> QED
                BY <1>2, <3>2, <4>2, <4>3 DEF OneOrderIsSent
        <3> QED
            BY <1>1, <3>1, <3>2 DEF OneOrderIsSent
    <2>2. AlertsFollowOneOpen'
        BY <1>1, <1>2 DEF AlertsFollowOneOpen, Engine!IsBarEnd, Engine!Length, Engine!OpenTick
    <2>3. \A v \in waiting' : AlertIsTyped(v)'
        BY <1>1, <1>2 DEF AlertIsTyped, Engine!OpenTick, Engine!Length
    <2> QED
        BY <1>1, <1>2, <2>1, <2>2, <2>3 DEF PaidIInv
<1>3. CASE Engine!Tick \/ Engine!SendWaiting \/ Engine!Fill
    BY <1>3, TickStep, SendWaitingStep, FillStep
<1>4. CASE UNCHANGED engine
    BY <1>2, <1>4 DEF engine
<1>5. ASSUME NEW i \in Instruments, Engine!ClosePosition(i) PROVE PaidIInv'
    <2> DEFINE close == [instrument |-> i, side |-> "CLOSE", quantity |-> 0]
    <2>1. Engine!IsBarEnd /\ UNCHANGED <<clock, sent>>
        BY <1>5 DEF Engine!ClosePosition, Engine!StrategyActs
    <2>2. UNCHANGED <<cash, shares, waiting>> \/ Engine!SendAtNextOpen(close, closing \cup {i})
        BY <1>5 DEF Engine!ClosePosition
    <2>3. close.instrument = i /\ close.side = "CLOSE" /\ close.quantity = 0
          /\ DOMAIN close = {"instrument", "side", "quantity"}
        OBVIOUS
    <2> HIDE DEF close
    <2>4. ASSUME Engine!SendAtNextOpen(close, closing \cup {i}) PROVE PaidIInv'
        BY <2>1, <2>3, <2>4, StrategyOrderStep
    <2> QED
        BY <1>2, <2>1, <2>2, <2>4
<1>6. ASSUME NEW i \in Instruments, NEW side \in {"BUY", "SELL"}, NEW quantity \in 1 .. 3,
             Engine!SubmitOrder(i, side, quantity)
      PROVE  PaidIInv'
    <2> DEFINE order_ == [instrument |-> i, side |-> side, quantity |-> quantity]
    <2>1. Engine!IsBarEnd /\ UNCHANGED <<clock, sent>> /\ Engine!SendAtNextOpen(order_, closing)
        BY <1>6 DEF Engine!SubmitOrder, Engine!StrategyActs
    <2>2. order_.instrument = i /\ order_.side = side /\ order_.quantity = quantity /\ quantity \in Nat
          /\ DOMAIN order_ = {"instrument", "side", "quantity"}
        OBVIOUS
    <2> HIDE DEF order_
    <2> QED
        BY <2>1, <2>2, StrategyOrderStep
<1> QED
    BY <1>3, <1>4, <1>5, <1>6 DEF Engine!Next

\* The start of a run has its cash and no order.
LEMMA PaidInit == SameBars /\ Init => PaidIInv
<1> SUFFICES ASSUME SameBars, Init PROVE PaidIInv
    OBVIOUS
<1>1. /\ clock = Engine!Length /\ waiting = {} /\ cash = StartCash /\ shares = [i \in Instruments |-> 0] /\ sent = <<>>
    BY DEF Init, InitOf, Engine!Init
<1>2. shares \in [Instruments -> Nat]
    BY <1>1
<1> QED
    BY <1>1, <1>2, EngineConstants DEF PaidIInv, AlertsFollowOneOpen, OneOrderIsSent

-----------------------------------------------------------------------------
\* Each step is a step of the engine run, or changes nothing of it.
LEMMA StepsOfTheEngine == [Next]_vars => [Engine!Next]_engine
BY DEF Next, ResearchStep, AssistantStep, vars, research

\* For all bars of the instruments, with and without gaps: no order passes the first open of its instrument, and none
\* waits at the end of the run.
THEOREM NoOpenIsMissed ==
    ASSUME RunHasBars PROVE Spec => [](part = "engine" => Engine!NoOrderMissesItsOpen)
<1>1. Init => HeldOrdersIInv
    BY HeldOrdersInit
<1>2. HeldOrdersIInv /\ [Next]_vars => HeldOrdersIInv'
    BY StepsOfTheEngine, HeldOrdersStep
<1>3. HeldOrdersIInv => (part = "engine" => Engine!NoOrderMissesItsOpen)
    BY HeldOrdersAreEnough
<1> QED
    BY <1>1, <1>2, <1>3, PTL DEF Spec

\* OrdersInv for every number of instruments and orders, when the instruments have the same bars: the cash pays for each
\* fill and no share is sold two times. With a gap in the bars it is false: the run next_open_alerts shows how.
THEOREM FillsArePaid == ASSUME SameBars PROVE Spec => []OrdersInv
<1>1. Init => HeldOrdersIInv /\ PaidIInv
    BY HeldOrdersInit, PaidInit DEF SameBars
<1>2. HeldOrdersIInv /\ PaidIInv /\ [Next]_vars => HeldOrdersIInv' /\ PaidIInv'
    BY StepsOfTheEngine, HeldOrdersStep, PaidStep DEF SameBars
<1>3. HeldOrdersIInv /\ PaidIInv => OrdersInv
    <2> SUFFICES ASSUME HeldOrdersIInv, PaidIInv PROVE OrdersInv
        OBVIOUS
    <2>1. Engine!NoOrderMissesItsOpen
        BY HeldOrdersAreEnough DEF SameBars
    <2>2. Engine!FillsAreCovered
        BY DEF PaidIInv, Engine!FillsAreCovered
    <2> QED
        BY <2>1, <2>2 DEF OrdersInv
<1> QED
    BY <1>1, <1>2, <1>3, PTL DEF Spec
-----------------------------------------------------------------------------
(* The exchange rates. A start is accepted when it has a rate at its       *)
(* start; rates are never deleted, so it still has one when its child      *)
(* converts, and any later time has that one or one of a later day.        *)

HasStartRate(s) ==
    Rates!FindUsdPerUnit(Rates!SelectExchangeRates(Rates!FindExchangeRateRange(request[s])), request[s].start) # {}

\* The rates are those of trading days, and an accepted start has a rate at its start.
RatesIInv ==
    /\ published \subseteq Rates!TradingDays /\ rates \subseteq Rates!TradingDays
    /\ request \in [Rates!BacktestStarts -> Rates!Requests]
    /\ DOMAIN at = Rates!BacktestStarts
    /\ \A s \in Rates!BacktestStarts : at[s] = "accepted" => HasStartRate(s)

\* The days are numbers, few enough to have a last one.
LEMMA LastTradingDay ==
    ASSUME NEW days, days \subseteq Rates!TradingDays, days # {}
    PROVE  /\ Rates!Max(days) \in days /\ Rates!Max(days) \in Int
           /\ \A d \in days : d <= Rates!Max(days)
<1>1. days \subseteq {0, 4, 12, 16}
    BY DEF Rates!TradingDays
<1>2. \E x \in days : \A y \in days : x >= y
    <2>1. CASE 16 \in days
        BY <1>1, <2>1
    <2>2. CASE 16 \notin days /\ 12 \in days
        BY <1>1, <2>2
    <2>3. CASE 16 \notin days /\ 12 \notin days /\ 4 \in days
        BY <1>1, <2>3
    <2>4. CASE 16 \notin days /\ 12 \notin days /\ 4 \notin days
        <3>1. days = {0}
            BY <1>1, <2>4
        <3> QED
            BY <3>1
    <2> QED
        BY <2>1, <2>2, <2>3, <2>4
<1>3. Rates!Max(days) \in days /\ \A y \in days : Rates!Max(days) >= y
    BY <1>2 DEF Rates!Max
<1>4. days \subseteq Int
    BY <1>1
<1>5. \A d \in days : d <= Rates!Max(days)
    BY <1>3, <1>4
<1> QED
    BY <1>3, <1>4, <1>5

\* What FindUsdPerUnit gives: nothing when no known day has ended, and otherwise the last day that has.
LEMMA RateOfTheLastDay ==
    ASSUME NEW known, known \subseteq Rates!TradingDays, NEW time_ \in Int, NEW d
    PROVE  d \in Rates!FindUsdPerUnit(known, time_) <=>
               /\ d \in known /\ d + Rates!Day <= time_
               /\ \A e \in known : e + Rates!Day <= time_ => e <= d
<1> DEFINE ended == {e \in known : e + Rates!Day <= time_}
<1>1. known \subseteq Int /\ Rates!Day = 4
    BY DEF Rates!TradingDays, Rates!Day
<1>2. CASE ended = {}
    BY <1>2 DEF Rates!FindUsdPerUnit
<1>3. CASE ended # {}
    <2>1. Rates!FindUsdPerUnit(known, time_) = {Rates!Max(ended)}
        BY <1>3 DEF Rates!FindUsdPerUnit
    <2>2. Rates!Max(ended) \in ended /\ \A e \in ended : e <= Rates!Max(ended)
        BY <1>3, LastTradingDay
    <2> HIDE DEF ended
    <2>3. ended \subseteq Int
        BY <1>1 DEF ended
    <2>4. ASSUME d \in ended, \A e \in ended : e <= d PROVE d = Rates!Max(ended)
        <3>1. d <= Rates!Max(ended) /\ Rates!Max(ended) <= d /\ d \in Int /\ Rates!Max(ended) \in Int
            BY <2>2, <2>3, <2>4
        <3> QED
            BY <3>1
    <2> QED
        BY <2>1, <2>2, <2>4 DEF ended
<1> QED
    BY <1>2, <1>3

\* A time after the start of a range that has a rate at its start has exactly one rate.
LEMMA LaterTimesHaveOneRate ==
    ASSUME NEW known, known \subseteq Rates!TradingDays, NEW from \in Int, NEW time_ \in Int, from <= time_,
           Rates!FindUsdPerUnit(known, from) # {}
    PROVE  \E d \in known : Rates!FindUsdPerUnit(known, time_) = {d} /\ d + Rates!Day <= time_
<1>1. PICK e \in known : e + Rates!Day <= from
    BY RateOfTheLastDay
<1> DEFINE ended == {x \in known : x + Rates!Day <= time_}
<1>2. e \in ended
    BY <1>1 DEF Rates!TradingDays, Rates!Day
<1>3. Rates!FindUsdPerUnit(known, time_) = {Rates!Max(ended)}
    BY <1>2 DEF Rates!FindUsdPerUnit
<1>4. Rates!Max(ended) \in ended
    BY <1>2, LastTradingDay
<1> QED
    BY <1>3, <1>4

\* More rates never take the rate of a time away.
LEMMA RatesStayKnown ==
    ASSUME NEW known, NEW more, known \subseteq more, more \subseteq Rates!TradingDays, NEW time_ \in Int,
           Rates!FindUsdPerUnit(known, time_) # {}
    PROVE  Rates!FindUsdPerUnit(more, time_) # {}
<1>1. PICK e \in known : e + Rates!Day <= time_
    BY RateOfTheLastDay
<1>2. {x \in more : x + Rates!Day <= time_} # {}
    BY <1>1
<1> QED
    BY <1>2 DEF Rates!FindUsdPerUnit

\* The times of a request are numbers, and none is before its start.
LEMMA RequestTimes ==
    ASSUME RatesIInv, NEW s \in Rates!BacktestStarts
    PROVE  /\ request[s].start \in Int /\ request[s].end \in Int
           /\ Rates!KnownRates(s) \subseteq Rates!TradingDays
           /\ \A d \in Rates!KnownRates(s) : d >= request[s].start - Rates!LookBack
           /\ Rates!Saved!Times(request[s]) \subseteq {t \in Int : request[s].start <= t}
<1>1. request[s] \in Rates!Requests
    BY DEF RatesIInv
<1>2. request[s].start \in Int /\ request[s].end \in Int
    BY <1>1 DEF Rates!Requests
<1>3. Rates!LookBack = 8
    BY DEF Rates!LookBack, Rates!Day
<1> QED
    BY <1>2, <1>3 DEF RatesIInv, Rates!KnownRates, Rates!SelectExchangeRates, Rates!FindExchangeRateRange,
                      Rates!Saved!Times, Rates!TradingDays

\* At the start no start is accepted, and no rate is saved.
LEMMA RatesInit == Init => RatesIInv
<1> SUFFICES ASSUME Init PROVE RatesIInv
    OBVIOUS
<1>1. Rates!Init
    BY DEF Init, InitOf
<1>2. (CHOOSE r \in Rates!Requests : TRUE) \in Rates!Requests
    BY DEF Rates!Requests
<1> QED
    BY <1>1, <1>2 DEF Rates!Init, RatesIInv

\* A step keeps the rates of the accepted starts when it keeps their requests and takes no rate away.
LEMMA StartRatesStay ==
    ASSUME RatesIInv, rates \subseteq rates', rates' \subseteq Rates!TradingDays, published' \subseteq Rates!TradingDays,
           request' \in [Rates!BacktestStarts -> Rates!Requests], DOMAIN at' = Rates!BacktestStarts,
           \A s \in Rates!BacktestStarts : at'[s] = "accepted" =>
                request'[s] = request[s] /\ (at[s] = "accepted" \/ HasStartRate(s))
    PROVE  RatesIInv'
<1>1. ASSUME NEW s \in Rates!BacktestStarts, at'[s] = "accepted" PROVE HasStartRate(s)'
    <2> DEFINE times == Rates!Saved!Times(Rates!FindExchangeRateRange(request[s]))
    <2>1. request'[s] = request[s] /\ HasStartRate(s) /\ request[s].start \in Int
        BY <1>1, RequestTimes DEF RatesIInv
    <2>2. rates \cap times \subseteq rates' \cap times /\ rates' \cap times \subseteq Rates!TradingDays
        OBVIOUS
    <2>3. Rates!FindUsdPerUnit(rates \cap times, request[s].start) # {}
        BY <2>1 DEF HasStartRate, Rates!SelectExchangeRates
    <2>4. Rates!FindUsdPerUnit(rates' \cap times, request[s].start) # {}
        BY <2>1, <2>2, <2>3, RatesStayKnown
    <2> QED
        BY <2>1, <2>4 DEF HasStartRate, Rates!SelectExchangeRates
<1> QED
    BY <1>1 DEF RatesIInv

\* Each action adds rates or takes none away; only CheckStartRate accepts a start.
LEMMA RatesStep == RatesIInv /\ [Rates!Next]_exchange_rates => RatesIInv'
<1> SUFFICES ASSUME RatesIInv, [Rates!Next]_exchange_rates PROVE RatesIInv'
    OBVIOUS
<1>1. CASE UNCHANGED exchange_rates
    BY <1>1, StartRatesStay DEF exchange_rates, RatesIInv
<1>2. ASSUME NEW s \in Rates!BacktestStarts, Rates!Begin(s) PROVE RatesIInv'
    BY <1>2, StartRatesStay DEF Rates!Begin, RatesIInv
<1>3. ASSUME NEW s \in Rates!BacktestStarts, Rates!SelectMissing(s) PROVE RatesIInv'
    BY <1>3, StartRatesStay DEF Rates!SelectMissing, RatesIInv
<1>4. ASSUME NEW s \in Rates!BacktestStarts, Rates!ReadDailyExchangeRates(s) PROVE RatesIInv'
    <2>1. rates \subseteq rates' /\ rates' \subseteq rates \cup published /\ UNCHANGED <<published, request>>
        BY <1>4 DEF Rates!ReadDailyExchangeRates, Rates!SaveExchangeRatesOfRange
    <2>2. at' = at \/ at' = [at EXCEPT ![s] = "read"]
        BY <1>4 DEF Rates!ReadDailyExchangeRates
    <2> QED
        BY <2>1, <2>2, StartRatesStay DEF RatesIInv
<1>5. ASSUME NEW s \in Rates!BacktestStarts, Rates!RatesNotRead(s) PROVE RatesIInv'
    BY <1>5, StartRatesStay DEF Rates!RatesNotRead, RatesIInv
<1>6. ASSUME NEW s \in Rates!BacktestStarts, Rates!CheckStartRate(s) PROVE RatesIInv'
    BY <1>6, StartRatesStay DEF Rates!CheckStartRate, RatesIInv, HasStartRate
<1>7. CASE Rates!Publish
    BY <1>7, StartRatesStay DEF Rates!Publish, RatesIInv
<1>8. CASE Rates!TimePasses \/ Rates!ConnectionChanges
    BY <1>8, StartRatesStay DEF Rates!TimePasses, Rates!ConnectionChanges, RatesIInv
<1>9. CASE Rates!WebRestarts
    BY <1>9, StartRatesStay DEF Rates!WebRestarts, RatesIInv
<1> QED
    BY <1>1, <1>2, <1>3, <1>4, <1>5, <1>6, <1>7, <1>8, <1>9 DEF Rates!Next

\* The trades of an accepted start: each time of its request has one.
LEMMA EachTimeIsConverted ==
    ASSUME RatesIInv, NEW s \in Rates!BacktestStarts, HasStartRate(s), NEW t \in Rates!Saved!Times(request[s])
    PROVE  Rates!Cardinality({p \in Rates!Trades(s) : p[1] = t}) = 1
<1>1. t \in Int /\ request[s].start \in Int /\ request[s].start <= t /\ Rates!KnownRates(s) \subseteq Rates!TradingDays
    BY RequestTimes
<1>2. Rates!FindUsdPerUnit(Rates!KnownRates(s), request[s].start) # {}
    BY DEF HasStartRate, Rates!KnownRates
<1>3. PICK d \in Rates!KnownRates(s) : Rates!FindUsdPerUnit(Rates!KnownRates(s), t) = {d}
    BY <1>1, <1>2, LaterTimesHaveOneRate
<1>4. {p \in Rates!Trades(s) : p[1] = t} = {<<t, d>>}
    BY <1>3 DEF Rates!Trades, Rates!ConvertToUsd
<1>5. Rates!Cardinality({<<t, d>>}) = Cardinality({<<t, d>>})
    BY DEF Rates!Cardinality, Cardinality
<1> QED
    BY <1>4, <1>5, FS_Singleton

\* One time has one rate, in the equity curve and in the trades alike.
LEMMA OneRateForOneTime ==
    ASSUME RatesIInv, NEW s \in Rates!BacktestStarts, NEW p \in Rates!EquityCurve(s) \cup Rates!Trades(s)
    PROVE  /\ p[2] + Rates!Day <= p[1]
           /\ Rates!FindUsdPerUnit(Rates!KnownRates(s), p[1]) = {p[2]} /\ p = <<p[1], p[2]>>
<1>1. p[1] \in Int /\ p[2] \in Rates!FindUsdPerUnit(Rates!KnownRates(s), p[1]) /\ p = <<p[1], p[2]>>
    BY RequestTimes DEF Rates!EquityCurve, Rates!Trades, Rates!ConvertToUsd
<1>2. p[2] + Rates!Day <= p[1]
    BY <1>1, RequestTimes, RateOfTheLastDay
<1>3. Rates!FindUsdPerUnit(Rates!KnownRates(s), p[1]) = {p[2]}
    BY <1>1 DEF Rates!FindUsdPerUnit
<1> QED
    BY <1>1, <1>2, <1>3

\* The invariant has what the amounts of an accepted backtest need.
LEMMA RatesAreEnough == RatesIInv => Rates!AcceptedIsConverted
<1> SUFFICES ASSUME RatesIInv, NEW s \in Rates!BacktestStarts, at[s] = "accepted"
             PROVE  /\ Rates!StartingCash(s) # {}
                    /\ \A cash_ \in Rates!StartingCash(s) : cash_[2] >= request[s].start - Rates!LookBack
                    /\ \A t \in Rates!Saved!Times(request[s]) : Rates!Cardinality({p \in Rates!Trades(s) : p[1] = t}) = 1
                    /\ \A p \in Rates!EquityCurve(s) \cup Rates!Trades(s) : p[2] + Rates!Day <= p[1]
                    /\ \A p \in Rates!EquityCurve(s), trade \in Rates!Trades(s) : p[1] = trade[1] => p = trade
    BY DEF Rates!AcceptedIsConverted
<1>1. HasStartRate(s)
    BY DEF RatesIInv
<1>2. Rates!FindUsdPerUnit(Rates!KnownRates(s), request[s].start) # {}
    BY <1>1 DEF HasStartRate, Rates!KnownRates
<1>3. Rates!StartingCash(s) # {}
    BY <1>2 DEF Rates!StartingCash
<1>4. ASSUME NEW cash_ \in Rates!StartingCash(s) PROVE cash_[2] >= request[s].start - Rates!LookBack
    <2>1. cash_[2] \in Rates!FindUsdPerUnit(Rates!KnownRates(s), request[s].start)
        BY DEF Rates!StartingCash
    <2>2. cash_[2] \in Rates!KnownRates(s)
        BY <2>1, RequestTimes, RateOfTheLastDay
    <2> QED
        BY <2>2, RequestTimes
<1>5. \A p \in Rates!EquityCurve(s), trade \in Rates!Trades(s) : p[1] = trade[1] => p = trade
    <2> SUFFICES ASSUME NEW p \in Rates!EquityCurve(s), NEW trade \in Rates!Trades(s), p[1] = trade[1] PROVE p = trade
        OBVIOUS
    <2>1. {p[2]} = {trade[2]} /\ p = <<p[1], p[2]>> /\ trade = <<trade[1], trade[2]>>
        BY OneRateForOneTime
    <2>2. p[2] = trade[2]
        BY <2>1
    <2> QED
        BY <2>1, <2>2
<1> QED
    BY <1>1, <1>3, <1>4, <1>5, EachTimeIsConverted, OneRateForOneTime

\* A step of another part changes nothing of the rates.
LEMMA StepsOfTheRates == [Next]_vars => [Rates!Next]_exchange_rates
BY DEF Next, ResearchStep, AssistantStep, vars, research

\* BacktestsAreConverted for any number of starts of both ports and any delay of the publication: an accepted backtest
\* has one rate for its capital and for each time of its request, of a day that ended before that time.
THEOREM AcceptedBacktestsAreConverted == Spec => []BacktestsAreConverted
<1>1. Init => RatesIInv
    BY RatesInit
<1>2. RatesIInv /\ [Next]_vars => RatesIInv'
    BY StepsOfTheRates, RatesStep
<1>3. RatesIInv => BacktestsAreConverted
    BY RatesAreEnough DEF BacktestsAreConverted
<1> QED
    BY <1>1, <1>2, <1>3, PTL DEF Spec
=============================================================================
