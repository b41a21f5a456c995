------------------------- MODULE OwnerLedger_proofs -------------------------
(***************************************************************************)
(* Proofs about OwnerLedger, for any number of forward tests and requests, *)
(* any quantities, capital, start of the ledger and faults.                *)
(***************************************************************************)
EXTENDS OwnerLedgerChecks, Sums

OrderType == [owner : Owners, side : Sides, quantity : Nat, filled : Nat, isOpen : BOOLEAN]

-----------------------------------------------------------------------------
(* Sets of executions and of open shares. *)

\* A pair is an execution exactly when the order has filled up to it.
LEMMA ExecutionIs ==
    \A i, n : <<i, n>> \in Executions <=> i \in OrderIds /\ n \in 1..orders[i].filled
  BY DEF Executions

\* Order ids are the places in the sequence of orders.
LEMMA OrderIdsType ==
    ASSUME TypeOK
    PROVE  /\ Len(orders) \in Nat
           /\ OrderIds = 1..Len(orders)
           /\ OrderIds \subseteq Nat \ {0}
           /\ IsFiniteSet(OrderIds)
           /\ \A i \in OrderIds : orders[i] \in OrderType
<1>1. orders \in Seq(OrderType)
  BY DEF TypeOK, OrderType
<1>2. Len(orders) \in Nat
  BY <1>1
<1>3. IsFiniteSet(1..Len(orders))
  BY <1>2, FS_Interval
<1> QED BY <1>1, <1>2, <1>3 DEF OrderIds

\* A finite index set with a finite set for each index has a finite union.
LEMMA FiniteUnion ==
    ASSUME NEW S, IsFiniteSet(S), NEW F, F = [x \in S |-> F[x]],
           \A x \in S : IsFiniteSet(F[x])
    PROVE  IsFiniteSet(UNION {F[x] : x \in S})
<1> DEFINE T == {F[x] : x \in S}
<1>1. F \in Surjection(S, T)
  BY DEF Surjection
<1>2. IsFiniteSet(T)
  BY <1>1, FS_Surjection
<1> QED BY <1>2, FS_UNION

\* The cardinalities that the checks and the books use are natural numbers.
LEMMA ExecutionsAreFinite ==
    ASSUME TypeOK
    PROVE  IsFiniteSet(Executions)
<1> DEFINE F == [i \in OrderIds |-> {i} \X (1..orders[i].filled)]
<1>1. IsFiniteSet(OrderIds) /\ \A i \in OrderIds : orders[i].filled \in Nat
  BY OrderIdsType DEF OrderType
<1>2. \A i \in OrderIds : IsFiniteSet(F[i])
  <2> TAKE i \in OrderIds
  <2>1. IsFiniteSet(1..orders[i].filled)
    BY <1>1, FS_Interval
  <2>2. IsFiniteSet({i} \X (1..orders[i].filled))
    BY <2>1, FS_Singleton, FS_Product
  <2> QED BY <2>2
<1>3. IsFiniteSet(UNION {F[i] : i \in OrderIds})
  <2> HIDE DEF F
  <2>1. F = [i \in OrderIds |-> F[i]]
    BY DEF F
  <2> QED BY <1>1, <1>2, <2>1, FiniteUnion
<1>4. {F[i] : i \in OrderIds} = {{i} \X (1..orders[i].filled) : i \in OrderIds}
  OBVIOUS
<1> QED BY <1>3, <1>4 DEF Executions

\* The shares that OpenShares counts.
OpenOf(o, side) ==
    {j \in OrderIds : orders[j].owner = o /\ orders[j].side = side /\ orders[j].isOpen}
ToFill(S) == UNION {{i} \X ((orders[i].filled + 1)..orders[i].quantity) : i \in S}

\* The open shares of an owner on a side are the shares its open orders have
\* left to fill.
LEMMA OpenSharesIs ==
    \A o, side : OpenShares(o, side) = Cardinality(ToFill(OpenOf(o, side)))
  BY DEF OpenShares, ToFill, OpenOf

\* An owner has finitely many open shares.
LEMMA OpenSharesFinite ==
    ASSUME TypeOK, NEW o, NEW side
    PROVE  IsFiniteSet(ToFill(OpenOf(o, side)))
<1> DEFINE S == OpenOf(o, side)
           F == [i \in S |-> {i} \X ((orders[i].filled + 1)..orders[i].quantity)]
<1>1. IsFiniteSet(S) /\ \A i \in S : orders[i].filled \in Nat /\ orders[i].quantity \in Nat
  BY OrderIdsType, FS_Subset DEF OrderType, OpenOf
<1>2. \A i \in S : IsFiniteSet(F[i])
  <2> TAKE i \in S
  <2>1. IsFiniteSet((orders[i].filled + 1)..orders[i].quantity)
    <3>1. orders[i].filled + 1 \in Int /\ orders[i].quantity \in Int
      BY <1>1
    <3> QED BY ONLY <3>1, FS_Interval
  <2>2. IsFiniteSet({i} \X ((orders[i].filled + 1)..orders[i].quantity))
    BY <2>1, FS_Singleton, FS_Product
  <2> QED BY <2>2
<1>3. IsFiniteSet(UNION {F[i] : i \in S})
  <2> HIDE DEF F, S
  <2>1. F = [i \in S |-> F[i]]
    BY DEF F
  <2> QED BY <1>1, <1>2, <2>1, FiniteUnion
<1>4. {F[i] : i \in S} = {{i} \X ((orders[i].filled + 1)..orders[i].quantity) : i \in S}
  OBVIOUS
<1> QED BY <1>3, <1>4 DEF ToFill

\* The open shares are a natural number.
LEMMA OpenSharesType ==
    ASSUME TypeOK, NEW o, NEW side
    PROVE  OpenShares(o, side) \in Nat
  BY OpenSharesFinite, OpenSharesIs, FS_CardinalityType

\* A set of executions changes a position by a whole number of shares.
LEMMA ChangeType ==
    ASSUME TypeOK, NEW E \in SUBSET Executions
    PROVE  Change(E) \in Int
<1>1. \A D \in SUBSET Executions : Cardinality(D) \in Nat
  BY ExecutionsAreFinite, FS_Subset, FS_CardinalityType
<1> QED BY <1>1 DEF Change

-----------------------------------------------------------------------------
(* Types. *)

\* The variables have their types at the start.
LEMMA InitTypeOK == Init => TypeOK
<1> SUFFICES ASSUME Init PROVE TypeOK
  OBVIOUS
<1>1. Executions = {}
  BY DEF Init, Executions, OrderIds
<1>2. OrderIds = {}
  BY DEF Init, OrderIds
<1>3. order \in [Checkers -> [side : Sides, quantity : Nat, id : {0} \cup OrderIds]]
  BY <1>2 DEF Init, NoOrder, Sides
<1>4. orders \in Seq([owner : Owners, side : Sides, quantity : Nat, filled : Nat, isOpen : BOOLEAN])
  BY DEF Init
<1> QED BY <1>1, <1>2, <1>3, <1>4, ConstantsAssumption
        DEF Init, TypeOK, Owners, Checkers, Recorders, Steps

\* Steps that change no order at IBKR change no execution.
LEMMA SameOrders ==
    ASSUME UNCHANGED orders
    PROVE  /\ OrderIds' = OrderIds
           /\ Executions' = Executions
  BY DEF OrderIds, Executions

LedgerType ==
    /\ position \in [Owners -> Int]
    /\ cash \in [Owners -> Int]
    /\ recorded \subseteq Executions
RowType ==
    /\ manualOrders \subseteq {i \in OrderIds : orders[i].owner = ByHand}
    /\ stage \in [ForwardTests -> {"absent", "running", "over"}]
    /\ capital \in [ForwardTests -> Nat]
OrderInWork == [side : Sides, quantity : Nat, id : {0} \cup OrderIds]
LocalsType ==
    /\ order \in [Checkers -> OrderInWork]
    /\ funds \in [Checkers -> Int]
    /\ open \in [Checkers -> Nat]
ProcessType ==
    /\ sendLock \in Requests \cup {NoRequest}
    /\ at \in [Checkers \cup {Background} -> Steps]
    /\ LocalsType
    /\ seen \in [Recorders -> SUBSET Executions]
IbkrType ==
    /\ account \in [position : Int, cash : Int]
    /\ orders \in Seq(OrderType)
    /\ held \subseteq Executions

\* The type invariant, in the parts that different steps disturb.
LEMMA TypeParts ==
    TypeOK <=> LedgerType /\ RowType /\ ProcessType /\ IbkrType /\ faults \in Nat
  BY DEF TypeOK, LedgerType, RowType, ProcessType, LocalsType, IbkrType, OrderInWork, OrderType

\* A part of the type invariant stays when its variables do and no order is
\* added.
LEMMA PartsKept ==
    ASSUME UNCHANGED orders
    PROVE  /\ LedgerType /\ UNCHANGED ledgerVars => LedgerType'
           /\ RowType /\ UNCHANGED rowVars => RowType'
           /\ LocalsType /\ UNCHANGED <<order, funds, open>> => LocalsType'
           /\ ProcessType /\ UNCHANGED processVars => ProcessType'
           /\ IbkrType /\ UNCHANGED ibkrVars => IbkrType'
           /\ OrderInWork' = OrderInWork
<1>1. OrderIds' = OrderIds /\ Executions' = Executions /\ orders' = orders
  BY SameOrders
<1> QED BY <1>1 DEF LedgerType, RowType, LocalsType, ProcessType, IbkrType, OrderInWork, ledgerVars,
             rowVars, processVars, ibkrVars

\* A check that finishes leaves its process idle with typed locals.
LEMMA FinishType ==
    ASSUME ProcessType, NEW r \in Checkers, Finish(r), UNCHANGED orders
    PROVE  /\ at' \in [Checkers \cup {Background} -> Steps]
           /\ LocalsType'
<1>1. "idle" \in Steps /\ NoOrder \in OrderInWork
  BY DEF Steps, NoOrder, OrderInWork, Sides
<1>2. OrderInWork' = OrderInWork
  BY PartsKept
<1>3. at' \in [Checkers \cup {Background} -> Steps]
  BY <1>1 DEF ProcessType, Finish, GoTo
<1>4. order' \in [Checkers -> OrderInWork]
  BY <1>1 DEF ProcessType, LocalsType, Finish
<1>5. funds' \in [Checkers -> Int] /\ open' \in [Checkers -> Nat]
  BY DEF ProcessType, LocalsType, Finish
<1> QED BY <1>2, <1>3, <1>4, <1>5 DEF LocalsType

\* A step of a process that writes no row and nothing at IBKR.
LEMMA ProcessStepType ==
    ASSUME TypeOK, UNCHANGED <<ledgerVars, rowVars, ibkrVars>>, ProcessType', faults' \in Nat
    PROVE  TypeOK'
<1>1. UNCHANGED orders
  BY DEF ibkrVars
<1>2. LedgerType' /\ RowType' /\ IbkrType'
  BY <1>1, TypeParts, PartsKept
<1>3. TypeOK' <=> LedgerType' /\ RowType' /\ ProcessType' /\ IbkrType' /\ faults' \in Nat
  BY DEF TypeOK, LedgerType, RowType, ProcessType, LocalsType, IbkrType, OrderInWork, OrderType
<1> QED BY <1>2, <1>3

\* The parts together, after a step that changes no order at IBKR.
LEMMA JoinParts ==
    ASSUME LedgerType', RowType', ProcessType', IbkrType', faults' \in Nat
    PROVE  TypeOK'
  BY DEF TypeOK, LedgerType, RowType, ProcessType, LocalsType, IbkrType, OrderInWork, OrderType

\* The send lock is held by a request or is free.
LEMMA ReleaseLockType ==
    ASSUME ProcessType, NEW r, ReleaseLock(r)
    PROVE  sendLock' \in Requests \cup {NoRequest}
  BY DEF ProcessType, ReleaseLock

\* The count of faults stays a number.
LEMMA FaultType ==
    ASSUME TypeOK, Fault
    PROVE  faults' \in Nat
  BY ConstantsAssumption DEF TypeOK, Fault

\* Writing a set of executions to one owner keeps the ledger typed.
LEMMA BookType ==
    ASSUME TypeOK, NEW o \in Owners, NEW E \in SUBSET Executions, Book(o, E), UNCHANGED orders
    PROVE  LedgerType'
<1>1. Change(E) \in Int
  BY ChangeType
<1>2. Executions' = Executions
  BY SameOrders
<1>3. position' \in [Owners -> Int] /\ cash' \in [Owners -> Int] /\ recorded' \subseteq Executions'
  BY <1>1, <1>2 DEF TypeOK, Book
<1> QED BY <1>3 DEF LedgerType

\* The owner of every request is one of the ledger's owners.
LEMMA ByHandType ==
    /\ ByHand \in Owners
    /\ \A r : OwnerOf(r) \in Owners
  BY DEF Owners, OwnerOf

\* The steps of the recording: ReadExecutions, RecordFills, RecordingFails.
LEMMA RecordingType ==
    ASSUME TypeOK, NEW w \in Recorders,
           \/ ReadExecutions(w)
           \/ RecordFills(w)
           \/ RecordingFails(w)
    PROVE  TypeOK'
<1> USE TypeParts
<1>0. w \in Checkers \cup {Background} /\ (w # Background => w \in Checkers)
  BY DEF Recorders, Checkers
<1>1. CASE ReadExecutions(w)
  <2>0. UNCHANGED orders /\ Executions' = Executions
    BY <1>1, SameOrders DEF ReadExecutions, ibkrVars
  <2>1. LocalsType'
    BY <1>1, <2>0, PartsKept DEF ReadExecutions, ProcessType
  <2>2. at' \in [Checkers \cup {Background} -> Steps]
    BY <1>1, <1>0 DEF ReadExecutions, ProcessType, GoTo, Steps
  <2>3. seen' \in [Recorders -> SUBSET Executions']
    BY <1>1, <2>0 DEF ReadExecutions, ProcessType, ExecutionsOf
  <2>4. ProcessType'
    BY <1>1, <2>1, <2>2, <2>3 DEF ReadExecutions, ProcessType
  <2> QED BY <1>1, <2>4, ProcessStepType DEF ReadExecutions
<1>2. CASE RecordFills(w)
  <2>0. UNCHANGED orders /\ Executions' = Executions
    BY <1>2, SameOrders DEF RecordFills, ibkrVars
  <2>1. LedgerType'
    <3> DEFINE E == {e \in seen[w] \ recorded : e[1] \in manualOrders}
    <3>1. E \in SUBSET Executions
      BY DEF ProcessType
    <3>2. Book(ByHand, E)
      BY <1>2 DEF RecordFills
    <3> HIDE DEF E
    <3> QED BY <3>1, <3>2, <2>0, ByHandType, BookType
  <2>2. LocalsType'
    BY <1>2, <2>0, PartsKept DEF RecordFills, ProcessType
  <2>3. at' \in [Checkers \cup {Background} -> Steps]
    BY <1>2, <1>0 DEF RecordFills, EndRecording, ProcessType, GoTo, Steps
  <2>4. seen' \in [Recorders -> SUBSET Executions']
    BY <1>2, <2>0 DEF RecordFills, EndRecording, ProcessType
  <2>5. ProcessType'
    BY <1>2, <2>2, <2>3, <2>4 DEF RecordFills, ProcessType
  <2>6. RowType' /\ IbkrType' /\ faults' \in Nat
    BY <1>2, <2>0, PartsKept DEF RecordFills
  <2> QED BY <2>1, <2>5, <2>6, JoinParts
<1>3. CASE RecordingFails(w)
  <2>0. UNCHANGED orders /\ Executions' = Executions
    BY <1>3, SameOrders DEF RecordingFails, ibkrVars
  <2>1. /\ at' \in [Checkers \cup {Background} -> Steps]
        /\ LocalsType'
        /\ sendLock' \in Requests \cup {NoRequest}
    <3>1. CASE w = Background
      <4>1. LocalsType' /\ sendLock' = sendLock
        BY <1>3, <2>0, <3>1, PartsKept DEF RecordingFails, ProcessType
      <4>2. at' \in [Checkers \cup {Background} -> Steps]
        BY <1>3, <1>0, <3>1 DEF RecordingFails, ProcessType, GoTo, Steps
      <4> QED BY <4>1, <4>2 DEF ProcessType
    <3>2. CASE w # Background
      <4>1. Finish(w) /\ ReleaseLock(w)
        BY <1>3, <3>2 DEF RecordingFails
      <4> QED BY <1>0, <3>2, <4>1, <2>0, FinishType, ReleaseLockType
    <3> QED BY <3>1, <3>2
  <2>2. seen' \in [Recorders -> SUBSET Executions']
    BY <1>3, <2>0 DEF RecordingFails, ProcessType
  <2>3. ProcessType'
    BY <2>1, <2>2 DEF ProcessType
  <2> QED BY <1>3, <2>3, FaultType, ProcessStepType DEF RecordingFails
<1> QED BY <1>1, <1>2, <1>3

\* The steps of a request or a check that write its place and its local variables only.
LEMMA CheckType ==
    ASSUME TypeOK, NEW r \in Checkers,
           \/ RequestOrder(r)
           \/ TakeLock(r) /\ r \in Requests
           \/ ExecutionReadFails(r)
           \/ ReadEntries(r)
           \/ ReadOpenOrders(r)
    PROVE  TypeOK'
<1> USE TypeParts
<1>0. UNCHANGED orders /\ Executions' = Executions /\ OrderInWork' = OrderInWork
  BY SameOrders, PartsKept
     DEF RequestOrder, TakeLock, ExecutionReadFails, ReadEntries, ReadOpenOrders, ibkrVars
<1>1. UNCHANGED <<ledgerVars, rowVars, ibkrVars>>
  BY DEF RequestOrder, TakeLock, ExecutionReadFails, ReadEntries, ReadOpenOrders
<1>2. faults' \in Nat
  BY FaultType DEF RequestOrder, TakeLock, ExecutionReadFails, ReadEntries, ReadOpenOrders
<1>3. at' \in [Checkers \cup {Background} -> Steps]
  BY DEF RequestOrder, TakeLock, ExecutionReadFails, ReadEntries, ReadOpenOrders, ProcessType,
         GoTo, Steps
<1>4. sendLock' \in Requests \cup {NoRequest}
  BY DEF RequestOrder, TakeLock, ExecutionReadFails, ReadEntries, ReadOpenOrders, ProcessType
<1>5. seen' \in [Recorders -> SUBSET Executions']
  BY <1>0 DEF RequestOrder, TakeLock, ExecutionReadFails, ReadEntries, ReadOpenOrders, ProcessType
<1>6. LocalsType'
  <2>1. CASE RequestOrder(r)
    <3>1. order' \in [Checkers -> OrderInWork]
      BY <2>1, ConstantsAssumption DEF RequestOrder, ProcessType, LocalsType, OrderInWork
    <3> QED BY <2>1, <3>1, <1>0 DEF RequestOrder, ProcessType, LocalsType
  <2>2. CASE TakeLock(r) \/ ExecutionReadFails(r)
    BY <2>2, <1>0, PartsKept DEF TakeLock, ExecutionReadFails, ProcessType
  <2>3. CASE ReadEntries(r)
    <3>1. LedgerFunds(OwnerOf(r), order[r].side) \in Int
      BY ByHandType DEF LedgerFunds, LedgerType
    <3> QED BY <2>3, <3>1, <1>0 DEF ReadEntries, ProcessType, LocalsType
  <2>4. CASE ReadOpenOrders(r)
    <3>1. OpenShares(OwnerOf(r), order[r].side) \in Nat
      BY OpenSharesType
    <3> QED BY <2>4, <3>1, <1>0 DEF ReadOpenOrders, ProcessType, LocalsType
  <2> QED BY <2>1, <2>2, <2>3, <2>4
<1>7. ProcessType'
  BY <1>3, <1>4, <1>5, <1>6 DEF ProcessType
<1> QED BY <1>1, <1>2, <1>7, ProcessStepType

\* The ends of a request or a check.
LEMMA EndsType ==
    ASSUME TypeOK, NEW r \in Checkers,
           \/ Refuse(r)
           \/ ReadAnswer(r)
           \/ RequestFails(r)
           \/ CheckFails(r)
    PROVE  TypeOK'
<1> USE TypeParts
<1>0. UNCHANGED orders /\ Executions' = Executions /\ OrderInWork' = OrderInWork
  BY SameOrders, PartsKept DEF Refuse, ReadAnswer, RequestFails, CheckFails, ibkrVars
<1>1. UNCHANGED <<ledgerVars, rowVars, ibkrVars>>
  BY DEF Refuse, ReadAnswer, RequestFails, CheckFails
<1>2. faults' \in Nat
  BY FaultType DEF Refuse, ReadAnswer, RequestFails, CheckFails
<1>3. at' \in [Checkers \cup {Background} -> Steps] /\ LocalsType'
  <2>1. CASE Finish(r)
    BY <2>1, <1>0, FinishType
  <2>2. CASE GoTo(r, "insert") /\ UNCHANGED <<order, funds, open>>
    <3>1. at' \in [Checkers \cup {Background} -> Steps]
      BY <2>2 DEF ProcessType, GoTo, Steps
    <3>2. LocalsType'
      BY <2>2, <1>0, PartsKept DEF ProcessType
    <3> QED BY <3>1, <3>2
  <2> QED BY <2>1, <2>2 DEF Refuse, ReadAnswer, RequestFails, CheckFails
<1>4. sendLock' \in Requests \cup {NoRequest}
  BY ReleaseLockType DEF Refuse, ReadAnswer, RequestFails, CheckFails, ProcessType
<1>5. seen' \in [Recorders -> SUBSET Executions']
  BY <1>0 DEF Refuse, ReadAnswer, RequestFails, CheckFails, ProcessType
<1>6. ProcessType'
  BY <1>3, <1>4, <1>5 DEF ProcessType
<1> QED BY <1>1, <1>2, <1>6, ProcessStepType

\* A restart of the Web process keeps the types.
LEMMA WebRestartsType ==
    ASSUME TypeOK, WebRestarts
    PROVE  TypeOK'
<1> USE TypeParts
<1>1. UNCHANGED <<ledgerVars, rowVars, ibkrVars>> /\ UNCHANGED orders
  BY DEF WebRestarts, ibkrVars
<1>2. Executions' = Executions /\ OrderInWork' = OrderInWork
  BY <1>1, SameOrders, PartsKept
<1>3. at' \in [Checkers \cup {Background} -> Steps]
  BY DEF WebRestarts, ProcessType, Steps
<1>4. LocalsType'
  <2>1. NoOrder \in OrderInWork
    BY DEF NoOrder, OrderInWork, Sides
  <2>2. order' \in [Checkers -> OrderInWork]
    BY <2>1 DEF WebRestarts, ProcessType, LocalsType
  <2>3. funds' \in [Checkers -> Int] /\ open' \in [Checkers -> Nat]
    BY DEF WebRestarts, ProcessType, LocalsType
  <2> QED BY <1>2, <2>2, <2>3 DEF LocalsType
<1>5. ProcessType'
  BY <1>3, <1>4 DEF WebRestarts, ProcessType
<1>6. faults' \in Nat
  BY FaultType DEF WebRestarts
<1> QED BY <1>1, <1>5, <1>6, ProcessStepType

\* The steps of a forward test that change no order at IBKR.
LEMMA ForwardTestType ==
    ASSUME TypeOK, NEW f \in ForwardTests,
           \/ StartForwardTest(f)
           \/ SubmitOrder(f)
           \/ SaveFill(f)
           \/ EndForwardTest(f)
    PROVE  TypeOK'
<1> USE TypeParts
<1>0. UNCHANGED orders /\ Executions' = Executions /\ OrderInWork' = OrderInWork
  BY SameOrders, PartsKept
     DEF StartForwardTest, SubmitOrder, SaveFill, EndForwardTest, EndAndTransfer, ibkrVars
<1>1. f \in Owners /\ ByHand \in Owners /\ f \in Checkers
  BY DEF Owners, Checkers
<1>2. CASE StartForwardTest(f)
  <2>1. PICK amount \in Capitals :
          /\ capital' = [capital EXCEPT ![f] = amount]
          /\ cash' = [cash EXCEPT ![ByHand] = @ - amount, ![f] = @ + amount]
    BY <1>2 DEF StartForwardTest
  <2>2. amount \in Nat
    BY ConstantsAssumption
  <2>3. LedgerType'
    BY <1>0, <1>1, <1>2, <2>1, <2>2 DEF StartForwardTest, LedgerType
  <2>4. RowType'
    BY <1>0, <1>2, <2>1, <2>2 DEF StartForwardTest, RowType, OrderIds
  <2>5. ProcessType' /\ IbkrType' /\ faults' \in Nat
    BY <1>0, <1>2, PartsKept DEF StartForwardTest
  <2> QED BY <2>3, <2>4, <2>5, JoinParts
<1>3. CASE SubmitOrder(f)
  <2>1. PICK side \in Sides, quantity \in Quantities :
          /\ order' = [order EXCEPT ![f] = [side |-> side, quantity |-> quantity, id |-> 0]]
          /\ open' = [open EXCEPT ![f] = OpenShares(f, side)]
    BY <1>3 DEF SubmitOrder
  <2>2. OpenShares(f, side) \in Nat /\ quantity \in Nat
    BY OpenSharesType, ConstantsAssumption
  <2>3. order' \in [Checkers -> OrderInWork]
    BY <2>1, <2>2 DEF ProcessType, LocalsType, OrderInWork
  <2>4. funds' \in [Checkers -> Int] /\ open' \in [Checkers -> Nat]
    BY <1>3, <2>1, <2>2 DEF SubmitOrder, ProcessType, LocalsType
  <2>5. at' \in [Checkers \cup {Background} -> Steps]
    BY <1>1, <1>3 DEF SubmitOrder, ProcessType, GoTo, Steps
  <2>6. ProcessType'
    BY <1>0, <1>3, <2>3, <2>4, <2>5 DEF SubmitOrder, ProcessType, LocalsType
  <2> QED BY <1>3, <2>6, ProcessStepType DEF SubmitOrder
<1>4. CASE SaveFill(f)
  <2>1. PICK e \in Unrecorded(f) \ held : Book(f, {e})
    BY <1>4 DEF SaveFill
  <2>2. {e} \in SUBSET Executions
    BY DEF Unrecorded, ExecutionsOf
  <2>3. LedgerType'
    BY <1>0, <1>1, <2>1, <2>2, BookType
  <2>4. RowType' /\ ProcessType' /\ IbkrType' /\ faults' \in Nat
    BY <1>0, <1>4, PartsKept DEF SaveFill
  <2> QED BY <2>3, <2>4, JoinParts
<1>5. CASE EndForwardTest(f)
  <2>1. LedgerType'
    BY <1>0, <1>1, <1>5 DEF EndForwardTest, EndAndTransfer, LedgerType
  <2>2. RowType'
    BY <1>0, <1>5 DEF EndForwardTest, EndAndTransfer, RowType, OrderIds
  <2>3. ProcessType' /\ IbkrType' /\ faults' \in Nat
    BY <1>0, <1>5, PartsKept DEF EndForwardTest, EndAndTransfer
  <2> QED BY <2>1, <2>2, <2>3, JoinParts
<1> QED BY <1>2, <1>3, <1>4, <1>5

-----------------------------------------------------------------------------
(* What IBKR does to the orders. *)

\* The orders at IBKR only grow: an order keeps its owner, side and quantity, its executions stay,
\* and an order that ended stays so.
OrdersGrow ==
    /\ OrderIds \subseteq OrderIds'
    /\ \A i \in OrderIds :
        /\ orders'[i].owner = orders[i].owner
        /\ orders'[i].side = orders[i].side
        /\ orders'[i].quantity = orders[i].quantity
        /\ orders[i].filled <= orders'[i].filled
        /\ orders'[i].isOpen => orders[i].isOpen

\* No execution and no order is lost while the sequence of orders grows.
LEMMA GrowKeeps ==
    ASSUME TypeOK, OrdersGrow, orders' \in Seq(OrderType)
    PROVE  /\ Executions \subseteq Executions'
           /\ \A o : ExecutionsOf(o) \subseteq ExecutionsOf(o)'
           /\ OrderInWork \subseteq OrderInWork'
<1>1. \A i \in OrderIds : orders[i].filled \in Nat
  BY OrderIdsType DEF OrderType
<1>2. \A i \in OrderIds' : orders'[i].filled \in Nat
  <2>1. \A i \in 1..Len(orders') : orders'[i] \in OrderType
    OBVIOUS
  <2>2. OrderIds' = 1..Len(orders')
    BY DEF OrderIds
  <2> QED BY <2>1, <2>2 DEF OrderType
<1>3. \A i \in OrderIds : 1..orders[i].filled \subseteq 1..orders'[i].filled
  BY <1>1, <1>2 DEF OrdersGrow
<1>4. Executions \subseteq Executions'
  BY <1>3 DEF Executions, OrdersGrow
<1>5. \A e \in Executions : e[1] \in OrderIds
  BY DEF Executions
<1>6. \A o : ExecutionsOf(o) \subseteq ExecutionsOf(o)'
  BY <1>4, <1>5 DEF ExecutionsOf, OrdersGrow
<1>7. OrderInWork \subseteq OrderInWork'
  BY DEF OrderInWork, OrdersGrow
<1> QED BY <1>4, <1>6, <1>7

\* A new order has no execution.
LEMMA NewOrder ==
    ASSUME TypeOK, NEW r \in Checkers, PlaceOrder(r)
    PROVE  /\ orders' \in Seq(OrderType)
           /\ Len(orders') = Len(orders) + 1
           /\ OrderIds' = OrderIds \cup {Len(orders')}
           /\ \A i \in OrderIds : orders'[i] = orders[i]
           /\ orders'[Len(orders')] = [owner |-> OwnerOf(r), side |-> order[r].side,
                                       quantity |-> order[r].quantity, filled |-> 0, isOpen |-> TRUE]
           /\ OrdersGrow
           /\ Executions' = Executions
<1> DEFINE new == [owner |-> OwnerOf(r), side |-> order[r].side,
                   quantity |-> order[r].quantity, filled |-> 0, isOpen |-> TRUE]
<1>1. orders \in Seq(OrderType) /\ new \in OrderType /\ orders' = Append(orders, new)
  BY ByHandType DEF TypeOK, PlaceOrder, OrderType
<1> HIDE DEF new
<1>2. /\ orders' \in Seq(OrderType)
      /\ Len(orders') = Len(orders) + 1
      /\ Len(orders) \in Nat
      /\ \A i \in 1..Len(orders) : orders'[i] = orders[i]
      /\ orders'[Len(orders')] = new
  BY <1>1
<1>3. OrderIds' = OrderIds \cup {Len(orders')}
  BY <1>2 DEF OrderIds
<1>4. \A i \in OrderIds : orders'[i] = orders[i] /\ orders[i].filled \in Nat
  BY <1>2, OrderIdsType DEF OrderIds, OrderType
<1>5. OrdersGrow
  BY <1>3, <1>4 DEF OrdersGrow
<1>6. Executions' = Executions
  <2>1. orders'[Len(orders')].filled = 0
    BY <1>2 DEF new
  <2>2. 1..orders'[Len(orders')].filled = {}
    BY <2>1
  <2> QED BY <1>3, <1>4, <2>2 DEF Executions
<1> QED BY <1>2, <1>3, <1>4, <1>5, <1>6 DEF new

\* A step that changes one order at IBKR keeps the types of all rows and processes.
LEMMA GrowType ==
    ASSUME TypeOK, OrdersGrow, orders' \in Seq(OrderType),
           UNCHANGED <<ledgerVars, rowVars>>
    PROVE  /\ LedgerType'
           /\ RowType'
           /\ UNCHANGED <<order, funds, open>> => LocalsType'
           /\ UNCHANGED processVars => ProcessType'
           /\ UNCHANGED seen => seen' \in [Recorders -> SUBSET Executions']
<1> USE TypeParts
<1>1. Executions \subseteq Executions' /\ OrderInWork \subseteq OrderInWork'
  BY GrowKeeps
<1>2. LedgerType'
  BY <1>1 DEF LedgerType, ledgerVars
<1>3. RowType'
  BY DEF RowType, rowVars, OrdersGrow
<1>4. UNCHANGED <<order, funds, open>> => LocalsType'
  BY <1>1 DEF ProcessType, LocalsType
<1>5. UNCHANGED seen => seen' \in [Recorders -> SUBSET Executions']
  BY <1>1 DEF ProcessType
<1>6. UNCHANGED processVars => ProcessType'
  BY <1>4, <1>5 DEF ProcessType, processVars
<1> QED BY <1>2, <1>3, <1>4, <1>5, <1>6

\* Sending an order by hand keeps the types.
LEMMA SendByHandType ==
    ASSUME TypeOK, NEW r \in Requests, SendByHand(r)
    PROVE  TypeOK'
<1> USE TypeParts
<1>0. r \in Checkers /\ PlaceOrder(r)
  BY DEF Checkers, SendByHand
<1>1. OrdersGrow /\ orders' \in Seq(OrderType) /\ Executions' = Executions
      /\ OrderInWork \subseteq OrderInWork' /\ Len(orders') \in OrderIds'
  BY <1>0, NewOrder, GrowKeeps
<1>2. LedgerType' /\ RowType' /\ seen' \in [Recorders -> SUBSET Executions']
  BY <1>1, GrowType DEF SendByHand
<1>3. order' \in [Checkers -> OrderInWork']
  <2>1. order' = [order EXCEPT ![r] = [@ EXCEPT !.id = Len(orders')]]
    BY DEF SendByHand
  <2>2. [order[r] EXCEPT !.id = Len(orders')] \in OrderInWork'
    BY <1>0, <1>1 DEF ProcessType, LocalsType, OrderInWork
  <2> QED BY <1>1, <2>1, <2>2 DEF ProcessType, LocalsType
<1>4. LocalsType'
  BY <1>3 DEF SendByHand, ProcessType, LocalsType
<1>5. at' \in [Checkers \cup {Background} -> Steps]
  BY <1>0 DEF SendByHand, ProcessType, GoTo, Steps
<1>6. ProcessType'
  BY <1>2, <1>4, <1>5 DEF SendByHand, ProcessType
<1>7. IbkrType' /\ faults' \in Nat
  BY <1>1 DEF SendByHand, IbkrType
<1> QED BY <1>2, <1>6, <1>7, JoinParts

\* Sending an order of a forward test keeps the types.
LEMMA SendForForwardTestType ==
    ASSUME TypeOK, NEW f \in ForwardTests, SendForForwardTest(f)
    PROVE  TypeOK'
<1> USE TypeParts
<1>0. f \in Checkers /\ PlaceOrder(f) /\ Finish(f)
  BY DEF Checkers, SendForForwardTest
<1>1. OrdersGrow /\ orders' \in Seq(OrderType) /\ Executions' = Executions
      /\ OrderInWork \subseteq OrderInWork'
  BY <1>0, NewOrder, GrowKeeps
<1>2. LedgerType' /\ RowType' /\ seen' \in [Recorders -> SUBSET Executions']
  BY <1>1, GrowType DEF SendForForwardTest
<1>3. LocalsType'
  <2>1. NoOrder \in OrderInWork
    BY DEF NoOrder, OrderInWork, Sides
  <2>2. order' \in [Checkers -> OrderInWork]
    BY <1>0, <2>1 DEF ProcessType, LocalsType, Finish
  <2>3. funds' \in [Checkers -> Int] /\ open' \in [Checkers -> Nat]
    BY <1>0 DEF ProcessType, LocalsType, Finish
  <2> QED BY <1>1, <2>2, <2>3 DEF LocalsType
<1>4. at' \in [Checkers \cup {Background} -> Steps]
  BY <1>0 DEF Finish, ProcessType, GoTo, Steps
<1>5. ProcessType'
  BY <1>2, <1>3, <1>4 DEF SendForForwardTest, ProcessType
<1>6. IbkrType' /\ faults' \in Nat
  BY <1>1 DEF SendForForwardTest, IbkrType
<1> QED BY <1>2, <1>5, <1>6, JoinParts

\* A fill adds one execution, the next share of its order.
LEMMA FillEffect ==
    ASSUME TypeOK, NEW i \in OrderIds, OrderFills(i)
    PROVE  /\ orders' \in Seq(OrderType)
           /\ OrdersGrow
           /\ OrderIds' = OrderIds
           /\ orders[i].isOpen
           /\ \A j \in OrderIds \ {i} : orders'[j] = orders[j]
           /\ orders'[i] = [orders[i] EXCEPT !.filled = orders[i].filled + 1,
                               !.isOpen = orders[i].filled + 1 < orders[i].quantity]
           /\ <<i, orders[i].filled + 1>> \notin Executions
           /\ Executions' = Executions \cup {<<i, orders[i].filled + 1>>}
<1> DEFINE n == orders[i].filled + 1
           new == [orders[i] EXCEPT !.filled = n, !.isOpen = n < orders[i].quantity]
<1>1. /\ orders \in Seq(OrderType)
      /\ OrderIds = 1..Len(orders)
      /\ Len(orders) \in Nat
      /\ \A j \in OrderIds : orders[j] \in OrderType
  BY OrderIdsType DEF TypeOK, OrderType
<1>2. orders' = [orders EXCEPT ![i] = new] /\ orders[i].isOpen
  <2>1. orders' = [orders EXCEPT ![i].filled = @ + 1, ![i].isOpen = n < orders[i].quantity]
    BY DEF OrderFills
  <2> QED BY <1>1, <2>1 DEF OrderFills, OrderType
<1>3. new \in OrderType /\ n \in Nat
  <2>1. orders[i] \in OrderType
    BY <1>1
  <2>2. n \in Nat
    BY <2>1 DEF OrderType
  <2>3. (n < orders[i].quantity) \in BOOLEAN
    OBVIOUS
  <2> HIDE DEF n
  <2> QED BY <2>1, <2>2, <2>3 DEF OrderType
<1>4. /\ new.owner = orders[i].owner
      /\ new.side = orders[i].side
      /\ new.quantity = orders[i].quantity
      /\ new.filled = n
  BY <1>1 DEF OrderType
<1> HIDE DEF new
<1>5. /\ orders' \in Seq(OrderType)
      /\ Len(orders') = Len(orders)
      /\ \A j \in OrderIds \ {i} : orders'[j] = orders[j]
      /\ orders'[i] = new
  BY <1>1, <1>2, <1>3
<1>6. OrderIds' = OrderIds
  BY <1>5 DEF OrderIds
<1>7. OrdersGrow
  BY <1>1, <1>2, <1>3, <1>4, <1>5, <1>6 DEF OrdersGrow, OrderType
<1>8. 1..orders'[i].filled = (1..orders[i].filled) \cup {n} /\ n \notin 1..orders[i].filled
  BY <1>1, <1>3, <1>4, <1>5 DEF OrderType
<1>9. <<i, n>> \notin Executions
  BY <1>8, ExecutionIs
<1>10. Executions' = Executions \cup {<<i, n>>}
  <2>1. ASSUME NEW j \in OrderIds \ {i}
        PROVE  {j} \X (1..orders'[j].filled) = {j} \X (1..orders[j].filled)
    BY <1>5
  <2>2. {i} \X (1..orders'[i].filled) = ({i} \X (1..orders[i].filled)) \cup {<<i, n>>}
    BY <1>8
  <2>3. Executions = UNION {{j} \X (1..orders[j].filled) : j \in OrderIds}
    BY DEF Executions
  <2>4. Executions' = UNION {{j} \X (1..orders'[j].filled) : j \in OrderIds}
    BY <1>6 DEF Executions
  <2> HIDE DEF n
  <2>5. ASSUME NEW e PROVE e \in Executions' <=> e \in Executions \cup {<<i, n>>}
    <3>1. e \in Executions' <=> \E j \in OrderIds : e \in {j} \X (1..orders'[j].filled)
      BY <2>4
    <3>2. e \in Executions <=> \E j \in OrderIds : e \in {j} \X (1..orders[j].filled)
      BY <2>3
    <3> QED BY <3>1, <3>2, <2>1, <2>2
  <2> QED BY <2>5
<1> QED BY <1>2, <1>5, <1>6, <1>7, <1>9, <1>10 DEF new

\* An order that ends keeps its executions.
LEMMA OrderEndsEffect ==
    ASSUME TypeOK, NEW i \in OrderIds, OrderEnds(i)
    PROVE  /\ orders' \in Seq(OrderType)
           /\ OrdersGrow
           /\ OrderIds' = OrderIds
           /\ \A j \in OrderIds : orders'[j].filled = orders[j].filled
           /\ Executions' = Executions
<1> DEFINE new == [orders[i] EXCEPT !.isOpen = FALSE]
<1>1. /\ orders \in Seq(OrderType)
      /\ OrderIds = 1..Len(orders)
      /\ Len(orders) \in Nat
      /\ \A j \in OrderIds : orders[j] \in OrderType
  BY OrderIdsType DEF TypeOK, OrderType
<1>2. orders' = [orders EXCEPT ![i] = new]
  BY <1>1 DEF OrderEnds, OrderType
<1>3. new \in OrderType
  BY <1>1 DEF OrderType
<1>4. /\ new.owner = orders[i].owner
      /\ new.side = orders[i].side
      /\ new.quantity = orders[i].quantity
      /\ new.filled = orders[i].filled
      /\ new.isOpen = FALSE
  BY <1>1 DEF OrderType
<1> HIDE DEF new
<1>5. /\ orders' \in Seq(OrderType)
      /\ Len(orders') = Len(orders)
      /\ \A j \in OrderIds \ {i} : orders'[j] = orders[j]
      /\ orders'[i] = new
  BY <1>1, <1>2, <1>3
<1>6. OrderIds' = OrderIds
  BY <1>5 DEF OrderIds
<1>7. \A j \in OrderIds : orders'[j].filled = orders[j].filled
  BY <1>4, <1>5
<1>8. OrdersGrow
  <2>1. \A j \in OrderIds : orders[j].filled \in Nat
    BY <1>1 DEF OrderType
  <2>2. ASSUME NEW j \in OrderIds
        PROVE  /\ orders'[j].owner = orders[j].owner
               /\ orders'[j].side = orders[j].side
               /\ orders'[j].quantity = orders[j].quantity
               /\ orders'[j].isOpen => orders[j].isOpen
    <3>1. CASE j = i
      BY <1>4, <1>5, <3>1
    <3>2. CASE j # i
      BY <1>5, <3>2
    <3> QED BY <3>1, <3>2
  <2>3. \A j \in OrderIds : orders[j].filled <= orders'[j].filled
    BY <2>1, <1>7
  <2> QED BY <2>2, <2>3, <1>6 DEF OrdersGrow
<1>9. Executions' = Executions
  BY <1>6, <1>7 DEF Executions
<1> QED BY <1>5, <1>6, <1>7, <1>8, <1>9

\* A fill, the end of an order and the end of a hold at IBKR keep the types.
LEMMA IbkrStepType ==
    ASSUME TypeOK, IbkrStep
    PROVE  TypeOK'
<1> USE TypeParts
<1>1. ASSUME NEW i \in OrderIds, OrderFills(i) PROVE TypeOK'
  <2>1. OrdersGrow /\ orders' \in Seq(OrderType) /\ Executions \subseteq Executions'
        /\ <<i, orders[i].filled + 1>> \in Executions'
    BY <1>1, FillEffect
  <2>2. LedgerType' /\ RowType' /\ ProcessType'
    BY <1>1, <2>1, GrowType DEF OrderFills
  <2>3. account' \in [position : Int, cash : Int]
    <3>1. account.position \in Int /\ account.cash \in Int
      BY DEF IbkrType
    <3>2. \E change \in {1, -1} :
            account' = [position |-> account.position + change, cash |-> account.cash - change]
      BY <1>1 DEF OrderFills
    <3> QED BY <3>1, <3>2
  <2>4. held' \subseteq Executions'
    <3>1. held' = held \/ held' = held \cup {<<i, orders[i].filled + 1>>}
      BY <1>1 DEF OrderFills
    <3> QED BY <2>1, <3>1 DEF IbkrType
  <2>5. faults' \in Nat
    BY <1>1 DEF OrderFills
  <2> QED BY <2>1, <2>2, <2>3, <2>4, <2>5, JoinParts DEF IbkrType
<1>2. ASSUME NEW i \in OrderIds, OrderEnds(i) PROVE TypeOK'
  <2>1. OrdersGrow /\ orders' \in Seq(OrderType) /\ Executions' = Executions
    BY <1>2, OrderEndsEffect
  <2>2. LedgerType' /\ RowType' /\ ProcessType'
    BY <1>2, <2>1, GrowType DEF OrderEnds
  <2>3. IbkrType' /\ faults' \in Nat
    BY <1>2, <2>1 DEF OrderEnds, IbkrType
  <2> QED BY <2>2, <2>3, JoinParts
<1>3. ASSUME NEW e \in held, EndHold(e) PROVE TypeOK'
  <2>1. UNCHANGED orders /\ Executions' = Executions
    BY <1>3, SameOrders DEF EndHold
  <2>2. LedgerType' /\ RowType' /\ ProcessType'
    BY <1>3, <2>1, PartsKept DEF EndHold
  <2>3. IbkrType' /\ faults' \in Nat
    BY <1>3, <2>1 DEF EndHold, IbkrType
  <2> QED BY <2>2, <2>3, JoinParts
<1> QED BY <1>1, <1>2, <1>3 DEF IbkrStep

-----------------------------------------------------------------------------
(* The invariant. TypeOK is not inductive: the ID that a request stores must be of its order. *)

\* A request waits for the answer to an order by hand.
SentByHand ==
    \A r \in Requests : at[r] \in {"answer", "insert"} =>
        order[r].id \in OrderIds /\ orders[order[r].id].owner = ByHand

\* A recording reads and books the executions of "By hand" only.
SeenByHand == \A w \in Recorders : seen[w] \subseteq ExecutionsOf(ByHand)

\* An order in work is for a quantity that the request or the strategy asked for.
InWork == \A r \in Checkers : at[r] # "idle" => order[r].quantity \in Quantities

\* Only a running forward test has a check or an open order, and an absent one has no order.
ChildRuns == \A f \in ForwardTests : at[f] # "idle" => stage[f] = "running"
OrdersHaveOwners ==
    \A i \in OrderIds :
        /\ orders[i].owner \in ForwardTests => stage[orders[i].owner] # "absent"
        /\ orders[i].owner \in ForwardTests /\ orders[i].isOpen =>
                stage[orders[i].owner] = "running"
        /\ orders[i].isOpen => orders[i].filled < orders[i].quantity

\* A forward test has nothing before its start and after its end, and its capital in between.
CapitalIsOwned ==
    \A f \in ForwardTests :
        /\ stage[f] = "absent" => position[f] = 0 /\ cash[f] = 0
        /\ stage[f] = "running" => position[f] + cash[f] = capital[f]
        /\ stage[f] = "over" => Unrecorded(f) = {}

LedgerInv ==
    /\ TypeOK
    /\ SentByHand
    /\ SeenByHand
    /\ InWork
    /\ ChildRuns
    /\ OrdersHaveOwners
    /\ CapitalIsOwned

\* The orders at IBKR change with a send, a fill or an end only, and no order goes away.
LEMMA OrdersChange ==
    ASSUME TypeOK, Next
    PROVE  /\ OrdersGrow
           /\ orders' \in Seq(OrderType)
           /\ \/ UNCHANGED orders
              \/ \E r \in Requests : SendByHand(r)
              \/ \E f \in ForwardTests : SendForForwardTest(f)
              \/ \E i \in OrderIds : OrderFills(i) \/ OrderEnds(i)
<1> USE OrderIdsType
<1>0. /\ UNCHANGED orders => OrdersGrow /\ orders' \in Seq(OrderType)
      /\ \A r \in Requests : SendByHand(r) => OrdersGrow /\ orders' \in Seq(OrderType)
      /\ \A f \in ForwardTests : SendForForwardTest(f) => OrdersGrow /\ orders' \in Seq(OrderType)
      /\ \A i \in OrderIds : OrderFills(i) \/ OrderEnds(i) => OrdersGrow /\ orders' \in Seq(OrderType)
  <2>1. UNCHANGED orders => OrdersGrow /\ orders' \in Seq(OrderType)
    <3>1. \A i \in OrderIds : orders[i].filled \in Nat
      BY DEF OrderType
    <3>2. orders \in Seq(OrderType)
      BY DEF TypeOK, OrderType
    <3>3. UNCHANGED orders => OrderIds' = OrderIds
      BY SameOrders
    <3>4. UNCHANGED orders => OrdersGrow
      BY <3>1, <3>3 DEF OrdersGrow
    <3> QED BY <3>2, <3>4
  <2>2. \A r \in Requests : SendByHand(r) => OrdersGrow /\ orders' \in Seq(OrderType)
    BY NewOrder DEF SendByHand, Checkers
  <2>3. \A f \in ForwardTests : SendForForwardTest(f) => OrdersGrow /\ orders' \in Seq(OrderType)
    BY NewOrder DEF SendForForwardTest, Checkers
  <2>4. \A i \in OrderIds : OrderFills(i) \/ OrderEnds(i) => OrdersGrow /\ orders' \in Seq(OrderType)
    BY FillEffect, OrderEndsEffect
  <2> QED BY <2>1, <2>2, <2>3, <2>4
<1>1. ASSUME NEW r \in Requests, RequestStep(r) PROVE UNCHANGED orders \/ SendByHand(r)
  BY <1>1 DEF RequestStep, RequestOrder, TakeLock, ReadExecutions, ExecutionReadFails, RecordFills,
     RecordingFails, ReadAnswer, InsertManualOrder, RequestFails, ibkrVars
<1>2. ASSUME NEW r \in Checkers, CheckStep(r) PROVE UNCHANGED orders
  BY <1>2 DEF CheckStep, ReadEntries, ReadOpenOrders, Refuse, ibkrVars
<1>3. ASSUME BackgroundStep \/ WebRestarts PROVE UNCHANGED orders
  BY <1>3 DEF BackgroundStep, WebRestarts, ReadExecutions, RecordFills, RecordingFails, ibkrVars
<1>4. ASSUME NEW f \in ForwardTests, ForwardTestStep(f)
      PROVE  UNCHANGED orders \/ SendForForwardTest(f)
  BY <1>4 DEF ForwardTestStep, StartForwardTest, SubmitOrder, SaveFill, CheckFails, EndForwardTest,
     EndAndTransfer, ibkrVars
<1>5. ASSUME IbkrStep PROVE UNCHANGED orders \/ \E i \in OrderIds : OrderFills(i) \/ OrderEnds(i)
  BY <1>5 DEF IbkrStep, EndHold
<1>6. \/ UNCHANGED orders
      \/ \E r \in Requests : SendByHand(r)
      \/ \E f \in ForwardTests : SendForForwardTest(f)
      \/ \E i \in OrderIds : OrderFills(i) \/ OrderEnds(i)
  BY <1>1, <1>2, <1>3, <1>4, <1>5 DEF Next
<1> QED BY <1>0, <1>6

\* Inserting the manual_order row keeps the types: the id is that of an order
\* by hand.
LEMMA InsertType ==
    ASSUME TypeOK, SentByHand, NEW r \in Requests, InsertManualOrder(r)
    PROVE  TypeOK'
<1> USE TypeParts
<1>0. r \in Checkers /\ UNCHANGED orders /\ OrderIds' = OrderIds
  BY SameOrders DEF Checkers, InsertManualOrder, ibkrVars
<1>1. order[r].id \in OrderIds /\ orders[order[r].id].owner = ByHand
  BY DEF InsertManualOrder, SentByHand
<1>2. RowType'
  BY <1>0, <1>1 DEF InsertManualOrder, RowType
<1>3. at' \in [Checkers \cup {Background} -> Steps] /\ LocalsType'
  BY <1>0, FinishType DEF InsertManualOrder
<1>4. ProcessType'
  BY <1>0, <1>3, SameOrders DEF InsertManualOrder, ProcessType
<1>5. LedgerType' /\ IbkrType' /\ faults' \in Nat
  BY <1>0, PartsKept DEF InsertManualOrder
<1> QED BY <1>2, <1>4, <1>5, JoinParts

\* Each step keeps the types, when what a request inserts was sent by hand.
LEMMA StepTypeOK ==
    ASSUME TypeOK, SentByHand, Next
    PROVE  TypeOK'
<1>1. ASSUME NEW r \in Requests, RequestStep(r) PROVE TypeOK'
  <2>1. r \in Checkers /\ r \in Recorders
    BY DEF Checkers, Recorders
  <2> QED BY <1>1, <2>1, CheckType, RecordingType, SendByHandType, EndsType, InsertType
          DEF RequestStep
<1>2. ASSUME NEW r \in Checkers, CheckStep(r) PROVE TypeOK'
  BY <1>2, CheckType, EndsType DEF CheckStep
<1>3. ASSUME BackgroundStep PROVE TypeOK'
  <2>1. Background \in Recorders
    BY DEF Recorders
  <2> QED BY <1>3, <2>1, RecordingType DEF BackgroundStep
<1>4. ASSUME NEW f \in ForwardTests, ForwardTestStep(f) PROVE TypeOK'
  <2>1. f \in Checkers
    BY DEF Checkers
  <2> QED BY <1>4, <2>1, ForwardTestType, SendForForwardTestType, EndsType DEF ForwardTestStep
<1> QED BY <1>1, <1>2, <1>3, <1>4, WebRestartsType, IbkrStepType DEF Next

\* A step of another process leaves the place and the local variables of q alone.
IsKept(q) ==
    at'[q] = at[q] /\ order'[q] = order[q] /\ funds'[q] = funds[q] /\ open'[q] = open[q]

\* A step either keeps a given checker, or is a step of that checker's request
\* or check.
LEMMA StepOf ==
    ASSUME TypeOK, Next, NEW q \in Checkers
    PROVE  \/ IsKept(q)
           \/ q \in Requests /\ RequestStep(q)
           \/ CheckStep(q)
           \/ q \in ForwardTests /\ ForwardTestStep(q)
           \/ WebRestarts
<1> USE DEF IsKept, GoTo, Finish
<1>0. /\ q # Background
      /\ at \in [Checkers \cup {Background} -> Steps]
      /\ DOMAIN order = Checkers /\ DOMAIN funds = Checkers /\ DOMAIN open = Checkers
  BY ConstantsAssumption DEF Checkers, TypeOK
<1>1. ASSUME NEW r \in Requests, RequestStep(r), r # q PROVE IsKept(q)
  <2>1. CASE RequestOrder(r) \/ TakeLock(r) \/ ReadExecutions(r) \/ ExecutionReadFails(r)
    BY <1>0, <1>1, <2>1 DEF RequestOrder, TakeLock, ReadExecutions, ExecutionReadFails
  <2>2. CASE RecordFills(r) \/ RecordingFails(r)
    BY <1>0, <1>1, <2>2 DEF RecordFills, EndRecording, RecordingFails
  <2>3. CASE SendByHand(r) \/ ReadAnswer(r) \/ InsertManualOrder(r) \/ RequestFails(r)
    BY <1>0, <1>1, <2>3 DEF SendByHand, ReadAnswer, InsertManualOrder, RequestFails
  <2> QED BY <1>1, <2>1, <2>2, <2>3 DEF RequestStep
<1>2. ASSUME NEW r \in Checkers, CheckStep(r), r # q PROVE IsKept(q)
  BY <1>0, <1>2 DEF CheckStep, ReadEntries, ReadOpenOrders, Refuse
<1>3. ASSUME BackgroundStep PROVE IsKept(q)
  BY <1>0, <1>3 DEF BackgroundStep, ReadExecutions, RecordFills, EndRecording, RecordingFails
<1>4. ASSUME NEW f \in ForwardTests, ForwardTestStep(f), f # q PROVE IsKept(q)
  BY <1>0, <1>4 DEF ForwardTestStep, StartForwardTest, SubmitOrder, SendForForwardTest, SaveFill,
     CheckFails, EndForwardTest, EndAndTransfer, processVars
<1>5. ASSUME IbkrStep PROVE IsKept(q)
  BY <1>5 DEF IbkrStep, OrderFills, OrderEnds, EndHold, processVars
<1> QED BY <1>1, <1>2, <1>3, <1>4, <1>5 DEF Next

\* What a busy checker works on is an order of a legal quantity, after each
\* step.
LEMMA InWorkKept ==
    ASSUME TypeOK, InWork, Next
    PROVE  InWork'
<1> SUFFICES ASSUME NEW q \in Checkers, at'[q] # "idle"
             PROVE  order'[q].quantity \in Quantities
  BY DEF InWork
<1>0. /\ at[q] # "idle" => order[q].quantity \in Quantities
      /\ q \in Checkers \cup {Background} /\ at \in [Checkers \cup {Background} -> Steps]
      /\ order \in [Checkers -> OrderInWork]
      /\ q # Background
  BY ConstantsAssumption DEF InWork, TypeOK, OrderInWork, Checkers
<1>1. CASE IsKept(q)
  BY <1>0, <1>1 DEF IsKept
<1>2. CASE q \in Requests /\ RequestStep(q)
  <2>1. CASE RequestOrder(q)
    <3>1. \E side \in Sides, quantity \in Quantities :
            order' = [order EXCEPT ![q] = [side |-> side, quantity |-> quantity, id |-> 0]]
      BY <2>1 DEF RequestOrder
    <3> QED BY <1>0, <3>1
  <2>2. CASE TakeLock(q) \/ ReadExecutions(q) \/ ExecutionReadFails(q) \/ RecordFills(q)
    BY <1>0, <2>2 DEF TakeLock, ReadExecutions, ExecutionReadFails, RecordFills
  <2>3. CASE RecordingFails(q) \/ InsertManualOrder(q) \/ RequestFails(q)
    BY <1>0, <2>3 DEF RecordingFails, InsertManualOrder, RequestFails, Finish, GoTo
  <2>4. CASE SendByHand(q)
    <3>1. order'[q].quantity = order[q].quantity /\ at[q] # "idle"
      BY <1>0, <2>4 DEF SendByHand, PlaceOrder, OrderInWork
    <3> QED BY <1>0, <3>1
  <2>5. CASE ReadAnswer(q)
    <3>1. at[q] # "idle" /\ (order' = order \/ at'[q] = "idle")
      BY <1>0, <2>5 DEF ReadAnswer, Finish, GoTo
    <3> QED BY <1>0, <3>1
  <2> QED BY <1>2, <2>1, <2>2, <2>3, <2>4, <2>5 DEF RequestStep
<1>3. CASE CheckStep(q)
  BY <1>0, <1>3 DEF CheckStep, ReadEntries, ReadOpenOrders, Refuse, Finish, GoTo
<1>4. CASE q \in ForwardTests /\ ForwardTestStep(q)
  <2>1. CASE SubmitOrder(q)
    <3>1. \E side \in Sides, quantity \in Quantities :
            order' = [order EXCEPT ![q] = [side |-> side, quantity |-> quantity, id |-> 0]]
      BY <2>1 DEF SubmitOrder
    <3> QED BY <1>0, <3>1
  <2>2. CASE SendForForwardTest(q) \/ CheckFails(q)
    BY <1>0, <2>2 DEF SendForForwardTest, CheckFails, Finish, GoTo
  <2>3. CASE StartForwardTest(q) \/ SaveFill(q) \/ EndForwardTest(q)
    BY <1>0, <2>3 DEF StartForwardTest, SaveFill, EndForwardTest, EndAndTransfer, processVars
  <2> QED BY <1>4, <2>1, <2>2, <2>3 DEF ForwardTestStep
<1>5. CASE WebRestarts
  BY <1>0, <1>5 DEF WebRestarts
<1> QED BY <1>1, <1>2, <1>3, <1>4, <1>5, StepOf

\* A child that checks or sends is the child of a running test, after each
\* step.
LEMMA ChildRunsKept ==
    ASSUME TypeOK, ChildRuns, Next
    PROVE  ChildRuns'
<1> SUFFICES ASSUME NEW f \in ForwardTests, at'[f] # "idle"
             PROVE  stage'[f] = "running"
  BY DEF ChildRuns
<1>0. /\ f \in Checkers /\ f \notin Requests /\ f # Background
      /\ at \in [Checkers \cup {Background} -> Steps]
      /\ stage \in [ForwardTests -> {"absent", "running", "over"}]
      /\ at[f] # "idle" => stage[f] = "running"
  BY ConstantsAssumption DEF ChildRuns, TypeOK, Checkers
<1>1. at'[f] = at[f] \/ CheckStep(f) \/ ForwardTestStep(f)
  BY <1>0, StepOf DEF IsKept, WebRestarts
<1>2. stage' = stage \/ \E g \in ForwardTests : StartForwardTest(g) \/ EndForwardTest(g)
  BY DEF Next, RequestStep, RequestOrder, TakeLock, ReadExecutions, ExecutionReadFails, RecordFills,
     RecordingFails, SendByHand, ReadAnswer, InsertManualOrder, RequestFails, CheckStep, ReadEntries,
     ReadOpenOrders, Refuse, BackgroundStep, WebRestarts, ForwardTestStep, SubmitOrder,
     SendForForwardTest, SaveFill, CheckFails, IbkrStep, OrderFills, OrderEnds, EndHold, rowVars
<1>3. CASE ForwardTestStep(f)
  <2>1. CASE SubmitOrder(f)
    BY <1>0, <2>1 DEF SubmitOrder, rowVars
  <2>2. CASE SendForForwardTest(f) \/ CheckFails(f)
    BY <1>0, <2>2 DEF SendForForwardTest, CheckFails, Finish, GoTo
  <2>3. CASE StartForwardTest(f)
    BY <1>0, <2>3 DEF StartForwardTest
  <2>4. CASE SaveFill(f)
    BY <1>0, <2>4 DEF SaveFill, processVars, rowVars
  <2>5. CASE EndForwardTest(f)
    BY <1>0, <2>5 DEF EndForwardTest, EndAndTransfer, processVars
  <2> QED BY <1>3, <2>1, <2>2, <2>3, <2>4, <2>5 DEF ForwardTestStep
<1>4. CASE CheckStep(f)
  BY <1>0, <1>4 DEF CheckStep, ReadEntries, ReadOpenOrders, Refuse, Finish, GoTo, rowVars
<1>5. CASE at'[f] = at[f] /\ ~ForwardTestStep(f)
  <2>1. CASE stage' = stage
    BY <1>0, <1>5, <2>1
  <2>2. CASE \E g \in ForwardTests : StartForwardTest(g) \/ EndForwardTest(g)
    <3>1. PICK g \in ForwardTests : StartForwardTest(g) \/ EndForwardTest(g)
      BY <2>2
    <3>2. g # f
      BY <1>5, <3>1 DEF ForwardTestStep
    <3>3. stage'[f] = stage[f]
      BY <1>0, <3>1, <3>2 DEF StartForwardTest, EndForwardTest, EndAndTransfer
    <3> QED BY <1>0, <1>5, <3>3
  <2> QED BY <1>2, <2>1, <2>2
<1> QED BY <1>1, <1>3, <1>4, <1>5

\* What a request inserts is an order by hand that IBKR has, after each step.
LEMMA SentByHandKept ==
    ASSUME TypeOK, SentByHand, Next
    PROVE  SentByHand'
<1> SUFFICES ASSUME NEW r \in Requests, at'[r] \in {"answer", "insert"}
             PROVE  order'[r].id \in OrderIds' /\ orders'[order'[r].id].owner = ByHand
  BY DEF SentByHand
<1>0. /\ r \in Checkers /\ r \notin ForwardTests
      /\ at \in [Checkers \cup {Background} -> Steps]
      /\ order \in [Checkers -> OrderInWork]
      /\ at[r] \in {"answer", "insert"} =>
            order[r].id \in OrderIds /\ orders[order[r].id].owner = ByHand
  BY ConstantsAssumption DEF SentByHand, TypeOK, OrderInWork, Checkers
<1>1. OrdersGrow
  BY OrdersChange
<1>2. CASE at'[r] = at[r] /\ order'[r] = order[r]
  BY <1>0, <1>1, <1>2 DEF OrdersGrow
<1>3. CASE RequestStep(r)
  <2>1. CASE SendByHand(r)
    <3>1. order'[r].id = Len(orders')
      BY <1>0, <2>1 DEF SendByHand, OrderInWork
    <3>2. Len(orders') \in OrderIds' /\ orders'[Len(orders')].owner = OwnerOf(r)
      <4>1. PlaceOrder(r)
        BY <2>1 DEF SendByHand
      <4>2. orders'[Len(orders')] = [owner |-> OwnerOf(r), side |-> order[r].side,
                                     quantity |-> order[r].quantity, filled |-> 0, isOpen |-> TRUE]
            /\ Len(orders') \in OrderIds'
        BY <1>0, <4>1, NewOrder
      <4> QED BY <4>2
    <3>3. OwnerOf(r) = ByHand
      BY <1>0 DEF OwnerOf
    <3> QED BY <3>1, <3>2, <3>3
  <2>2. CASE ReadAnswer(r)
    <3>1. at[r] = "answer" /\ (order' = order \/ at'[r] = "idle")
      BY <1>0, <2>2 DEF ReadAnswer, Finish, GoTo
    <3> QED BY <1>0, <1>1, <3>1 DEF OrdersGrow
  <2>3. CASE RequestOrder(r) \/ TakeLock(r) \/ ReadExecutions(r) \/ ExecutionReadFails(r)
    BY <1>0, <2>3 DEF RequestOrder, TakeLock, ReadExecutions, ExecutionReadFails, GoTo
  <2>4. CASE RecordFills(r) \/ RecordingFails(r) \/ InsertManualOrder(r) \/ RequestFails(r)
    <3>1. r # Background
      BY ConstantsAssumption
    <3> QED BY <1>0, <2>4, <3>1
            DEF RecordFills, EndRecording, RecordingFails, InsertManualOrder, RequestFails, Finish, GoTo
  <2> QED BY <1>3, <2>1, <2>2, <2>3, <2>4 DEF RequestStep
<1>4. CASE CheckStep(r)
  BY <1>0, <1>4 DEF CheckStep, ReadEntries, ReadOpenOrders, Refuse, Finish, GoTo
<1>5. CASE WebRestarts
  BY <1>0, <1>5, ConstantsAssumption DEF WebRestarts
<1> QED BY <1>0, <1>2, <1>3, <1>4, <1>5, StepOf DEF IsKept

\* A recorder saves only executions of orders by hand, after each step.
LEMMA SeenByHandKept ==
    ASSUME TypeOK, SeenByHand, Next
    PROVE  SeenByHand'
<1> SUFFICES ASSUME NEW w \in Recorders
             PROVE  seen'[w] \subseteq ExecutionsOf(ByHand)'
  BY DEF SeenByHand
<1>0. seen \in [Recorders -> SUBSET Executions] /\ seen[w] \subseteq ExecutionsOf(ByHand)
  BY DEF TypeOK, SeenByHand
<1>1. ExecutionsOf(ByHand) \subseteq ExecutionsOf(ByHand)'
  BY OrdersChange, GrowKeeps
<1>2. \/ seen' = seen
      \/ WebRestarts
      \/ \E v \in Recorders : ReadExecutions(v) \/ RecordFills(v) \/ RecordingFails(v)
  BY DEF Next, RequestStep, RequestOrder, TakeLock, ExecutionReadFails, SendByHand, ReadAnswer,
     InsertManualOrder, RequestFails, CheckStep, ReadEntries, ReadOpenOrders, Refuse, BackgroundStep,
     ForwardTestStep, StartForwardTest, SubmitOrder, SendForForwardTest, SaveFill, CheckFails,
     EndForwardTest, EndAndTransfer, IbkrStep, OrderFills, OrderEnds, EndHold, processVars, Recorders
<1>3. CASE seen' = seen
  BY <1>0, <1>1, <1>3
<1>4. CASE WebRestarts
  BY <1>4 DEF WebRestarts
<1>5. ASSUME NEW v \in Recorders, ReadExecutions(v) \/ RecordFills(v) \/ RecordingFails(v)
      PROVE  seen'[w] \subseteq ExecutionsOf(ByHand)'
  <2>1. seen'[w] = seen[w] \/ seen'[w] \subseteq ExecutionsOf(ByHand)
    BY <1>0, <1>5 DEF ReadExecutions, RecordFills, EndRecording, RecordingFails
  <2> QED BY <1>0, <1>1, <2>1
<1> QED BY <1>2, <1>3, <1>4, <1>5

\* The rows of the forward tests change with a start or an end only.
LEMMA StageChange ==
    ASSUME Next
    PROVE  \/ UNCHANGED <<stage, capital>>
           \/ \E f \in ForwardTests : StartForwardTest(f) \/ EndForwardTest(f)
  BY DEF Next, RequestStep, RequestOrder, TakeLock, ReadExecutions, ExecutionReadFails, RecordFills,
     RecordingFails, SendByHand, ReadAnswer, InsertManualOrder, RequestFails, CheckStep, ReadEntries,
     ReadOpenOrders, Refuse, BackgroundStep, WebRestarts, ForwardTestStep, SubmitOrder,
     SendForForwardTest, SaveFill, CheckFails, IbkrStep, OrderFills, OrderEnds, EndHold, rowVars

\* An end finds no open order.
LEMMA NoneOpen ==
    ASSUME TypeOK, OrdersHaveOwners, NEW f \in ForwardTests,
           OpenShares(f, "BUY") + OpenShares(f, "SELL") = 0
    PROVE  \A i \in OrderIds : orders[i].owner = f => ~orders[i].isOpen
<1> SUFFICES ASSUME NEW i \in OrderIds, orders[i].owner = f, orders[i].isOpen
             PROVE  FALSE
  OBVIOUS
<1>1. orders[i] \in OrderType /\ orders[i].filled < orders[i].quantity
  BY OrderIdsType DEF OrdersHaveOwners
<1>2. orders[i].side \in Sides
  BY <1>1 DEF OrderType
<1>3. OpenShares(f, orders[i].side) = 0
  BY <1>2, OpenSharesType DEF Sides
<1> DEFINE U == ToFill(OpenOf(f, orders[i].side))
<1>4. IsFiniteSet(U) /\ Cardinality(U) = 0
  BY <1>3, OpenSharesFinite, OpenSharesIs
<1>5. U = {}
  BY <1>4, FS_EmptySet
<1>6. <<i, orders[i].filled + 1>> \in U
  <2>1. orders[i].filled + 1 \in (orders[i].filled + 1)..orders[i].quantity
    BY <1>1 DEF OrderType
  <2>2. i \in OpenOf(f, orders[i].side)
    BY DEF OpenOf
  <2> QED BY <2>1, <2>2 DEF ToFill
<1> QED BY <1>5, <1>6

\* Each order belongs to a test that was started, and each open one to a test
\* that runs, after each step.
LEMMA OrdersHaveOwnersKept ==
    ASSUME TypeOK, InWork, ChildRuns, OrdersHaveOwners, Next
    PROVE  OrdersHaveOwners'
<1> SUFFICES ASSUME NEW i \in OrderIds'
             PROVE  /\ orders'[i].owner \in ForwardTests => stage'[orders'[i].owner] # "absent"
                    /\ orders'[i].owner \in ForwardTests /\ orders'[i].isOpen =>
                            stage'[orders'[i].owner] = "running"
                    /\ orders'[i].isOpen => orders'[i].filled < orders'[i].quantity
  BY DEF OrdersHaveOwners
<1> DEFINE OwnerKept(g) == /\ stage[g] # "absent" => stage'[g] # "absent"
                           /\ stage[g] = "running" => stage'[g] = "running"
<1>0. stage \in [ForwardTests -> {"absent", "running", "over"}] /\ OrdersGrow
  BY OrdersChange DEF TypeOK
<1>1. ASSUME NEW f \in ForwardTests, StartForwardTest(f)
      PROVE  UNCHANGED orders /\ \A g \in ForwardTests : OwnerKept(g)
  BY <1>0, <1>1 DEF StartForwardTest, ibkrVars
<1>2. ASSUME NEW f \in ForwardTests, EndForwardTest(f)
      PROVE  /\ UNCHANGED orders
             /\ \A g \in ForwardTests : stage[g] # "absent" => stage'[g] # "absent"
             /\ \A g \in ForwardTests \ {f} : OwnerKept(g)
             /\ \A j \in OrderIds : orders[j].owner = f => ~orders[j].isOpen
  BY <1>0, <1>2, NoneOpen DEF EndForwardTest, EndAndTransfer, ibkrVars
<1>3. CASE \E f \in ForwardTests : StartForwardTest(f) \/ EndForwardTest(f)
  <2>1. PICK f \in ForwardTests : StartForwardTest(f) \/ EndForwardTest(f)
    BY <1>3
  <2>2. UNCHANGED orders /\ OrderIds' = OrderIds
    BY <1>1, <1>2, <2>1, SameOrders
  <2>3. /\ orders[i].owner \in ForwardTests => stage[orders[i].owner] # "absent"
        /\ orders[i].owner \in ForwardTests /\ orders[i].isOpen => stage[orders[i].owner] = "running"
        /\ orders[i].isOpen => orders[i].filled < orders[i].quantity
    BY <2>2 DEF OrdersHaveOwners
  <2> QED BY <1>1, <1>2, <2>1, <2>2, <2>3
<1>4. CASE UNCHANGED <<stage, capital>>
  <2>1. CASE UNCHANGED orders
    BY <1>4, <2>1, SameOrders DEF OrdersHaveOwners
  <2>2. ASSUME NEW r \in Checkers, PlaceOrder(r), r \in ForwardTests => stage[r] = "running"
        PROVE  /\ orders'[i].owner \in ForwardTests => stage'[orders'[i].owner] # "absent"
               /\ orders'[i].owner \in ForwardTests /\ orders'[i].isOpen =>
                       stage'[orders'[i].owner] = "running"
               /\ orders'[i].isOpen => orders'[i].filled < orders'[i].quantity
    <3>1. /\ OrderIds' = OrderIds \cup {Len(orders')}
          /\ \A j \in OrderIds : orders'[j] = orders[j]
          /\ orders'[Len(orders')] = [owner |-> OwnerOf(r), side |-> order[r].side,
                                      quantity |-> order[r].quantity, filled |-> 0, isOpen |-> TRUE]
      BY <2>2, NewOrder
    <3>2. CASE i \in OrderIds
      <4>1. orders'[i] = orders[i] /\ stage' = stage
        BY <1>4, <3>1, <3>2
      <4> QED BY <3>2, <4>1 DEF OrdersHaveOwners
    <3>3. CASE i = Len(orders')
      <4>1. order[r].quantity \in Nat \ {0}
        BY <2>2, ConstantsAssumption DEF PlaceOrder, InWork
      <4>2. orders'[i].owner = OwnerOf(r) /\ orders'[i].filled = 0
            /\ orders'[i].quantity = order[r].quantity
        BY <3>1, <3>3
      <4>3. OwnerOf(r) \in ForwardTests => stage[OwnerOf(r)] = "running"
        BY <2>2, ConstantsAssumption DEF OwnerOf
      <4> QED BY <1>4, <4>1, <4>2, <4>3
    <3> QED BY <3>1, <3>2, <3>3
  <2>3. CASE \E r \in Requests : SendByHand(r)
    <3>1. PICK r \in Requests : SendByHand(r)
      BY <2>3
    <3>2. r \in Checkers /\ r \notin ForwardTests /\ PlaceOrder(r)
      BY <3>1, ConstantsAssumption DEF Checkers, SendByHand
    <3> QED BY <2>2, <3>2
  <2>4. CASE \E f \in ForwardTests : SendForForwardTest(f)
    <3>1. PICK f \in ForwardTests : SendForForwardTest(f)
      BY <2>4
    <3>2. f \in Checkers /\ PlaceOrder(f) /\ stage[f] = "running"
      BY <3>1 DEF Checkers, SendForForwardTest, PlaceOrder, ChildRuns
    <3> QED BY <2>2, <3>2
  <2>5. ASSUME NEW k \in OrderIds, OrderFills(k) \/ OrderEnds(k)
        PROVE  /\ OrderIds' = OrderIds
               /\ orders'[i].isOpen => orders'[i].filled < orders'[i].quantity
    <3>1. CASE OrderFills(k)
      <4>1. /\ OrderIds' = OrderIds
            /\ \A j \in OrderIds \ {k} : orders'[j] = orders[j]
            /\ orders'[k] = [orders[k] EXCEPT !.filled = orders[k].filled + 1,
                                !.isOpen = orders[k].filled + 1 < orders[k].quantity]
        BY <3>1, FillEffect
      <4>2. CASE i = k
        <5>1. orders[k] \in OrderType
          BY OrderIdsType
        <5>2. /\ orders'[k].filled = orders[k].filled + 1
              /\ orders'[k].quantity = orders[k].quantity
              /\ orders'[k].isOpen = (orders[k].filled + 1 < orders[k].quantity)
          BY <4>1, <5>1 DEF OrderType
        <5> QED BY <4>1, <4>2, <5>2
      <4>3. CASE i # k
        BY <4>1, <4>3 DEF OrdersHaveOwners
      <4> QED BY <4>1, <4>2, <4>3
    <3>2. CASE OrderEnds(k)
      <4>1. OrderIds' = OrderIds /\ orders'[i].filled = orders[i].filled
        BY <3>2, OrderEndsEffect
      <4> QED BY <1>0, <4>1 DEF OrdersGrow, OrdersHaveOwners
    <3> QED BY <2>5, <3>1, <3>2
  <2>6. CASE \E k \in OrderIds : OrderFills(k) \/ OrderEnds(k)
    <3>1. OrderIds' = OrderIds /\ (orders'[i].isOpen => orders'[i].filled < orders'[i].quantity)
      BY <2>5, <2>6
    <3>2. orders'[i].owner = orders[i].owner /\ (orders'[i].isOpen => orders[i].isOpen) /\ i \in OrderIds
      BY <1>0, <3>1 DEF OrdersGrow
    <3> QED BY <1>4, <3>1, <3>2 DEF OrdersHaveOwners
  <2> QED BY <2>1, <2>3, <2>4, <2>6, OrdersChange
<1> QED BY <1>3, <1>4, StageChange

\* The owner ledger changes with a recording, a saved fill, a start or an end only.
LEMMA LedgerChange ==
    ASSUME Next
    PROVE  \/ UNCHANGED ledgerVars
           \/ \E w \in Recorders : RecordFills(w)
           \/ \E f \in ForwardTests : SaveFill(f) \/ StartForwardTest(f) \/ EndForwardTest(f)
  BY DEF Next, RequestStep, RequestOrder, TakeLock, ReadExecutions, ExecutionReadFails,
     RecordingFails, SendByHand, ReadAnswer, InsertManualOrder, RequestFails, CheckStep, ReadEntries,
     ReadOpenOrders, Refuse, BackgroundStep, WebRestarts, ForwardTestStep, SubmitOrder,
     SendForForwardTest, CheckFails, IbkrStep, OrderFills, OrderEnds, EndHold, Recorders

\* Only an open order of an owner adds to the executions of the owner.
LEMMA NoNewExecutions ==
    ASSUME TypeOK, Next, NEW o, \A i \in OrderIds : orders[i].owner = o => ~orders[i].isOpen
    PROVE  ExecutionsOf(o)' = ExecutionsOf(o)
<1>0. \A e \in Executions : e[1] \in OrderIds
  BY DEF Executions
<1>1. CASE UNCHANGED orders
  BY <1>1, SameOrders DEF ExecutionsOf
<1>2. ASSUME NEW r \in Checkers, PlaceOrder(r) PROVE ExecutionsOf(o)' = ExecutionsOf(o)
  <2>1. Executions' = Executions /\ \A i \in OrderIds : orders'[i] = orders[i]
    BY <1>2, NewOrder
  <2> QED BY <1>0, <2>1 DEF ExecutionsOf
<1>3. CASE \E r \in Requests : SendByHand(r)
  BY <1>2, <1>3 DEF SendByHand, Checkers
<1>4. CASE \E f \in ForwardTests : SendForForwardTest(f)
  BY <1>2, <1>4 DEF SendForForwardTest, Checkers
<1>5. ASSUME NEW k \in OrderIds, OrderFills(k) PROVE ExecutionsOf(o)' = ExecutionsOf(o)
  <2>1. /\ Executions' = Executions \cup {<<k, orders[k].filled + 1>>}
        /\ OrdersGrow
        /\ orders[k].owner # o
    BY <1>5, FillEffect
  <2> QED BY <1>0, <2>1 DEF ExecutionsOf, OrdersGrow
<1>6. ASSUME NEW k \in OrderIds, OrderEnds(k) PROVE ExecutionsOf(o)' = ExecutionsOf(o)
  <2>1. Executions' = Executions /\ OrdersGrow
    BY <1>6, OrderEndsEffect
  <2> QED BY <1>0, <2>1 DEF ExecutionsOf, OrdersGrow
<1> QED BY <1>1, <1>3, <1>4, <1>5, <1>6, OrdersChange

\* A running test owns its capital, and one before its start nothing, after
\* each step.
LEMMA CapitalIsOwnedKept ==
    ASSUME TypeOK, SeenByHand, OrdersHaveOwners, CapitalIsOwned, Next
    PROVE  CapitalIsOwned'
<1> SUFFICES ASSUME NEW f \in ForwardTests
             PROVE  /\ stage'[f] = "absent" => position'[f] = 0 /\ cash'[f] = 0
                    /\ stage'[f] = "running" => position'[f] + cash'[f] = capital'[f]
                    /\ stage'[f] = "over" => Unrecorded(f)' = {}
  BY DEF CapitalIsOwned
<1>0. /\ position \in [Owners -> Int] /\ cash \in [Owners -> Int]
      /\ stage \in [ForwardTests -> {"absent", "running", "over"}]
      /\ capital \in [ForwardTests -> Nat]
      /\ f \in Owners /\ ByHand \in Owners /\ f # ByHand
      /\ stage[f] = "absent" => position[f] = 0 /\ cash[f] = 0
      /\ stage[f] = "running" => position[f] + cash[f] = capital[f]
      /\ stage[f] = "over" => Unrecorded(f) = {}
  BY ConstantsAssumption DEF TypeOK, CapitalIsOwned, Owners
<1>1. stage[f] = "over" => ExecutionsOf(f)' = ExecutionsOf(f)
  <2>1. stage[f] = "over" => \A i \in OrderIds : orders[i].owner = f => ~orders[i].isOpen
    BY DEF OrdersHaveOwners
  <2> QED BY <2>1, NoNewExecutions
<1>2. CASE UNCHANGED ledgerVars
  <2>1. CASE UNCHANGED <<stage, capital>>
    BY <1>0, <1>1, <1>2, <2>1 DEF ledgerVars, Unrecorded
  <2>2. ASSUME NEW g \in ForwardTests, StartForwardTest(g) \/ EndForwardTest(g)
        PROVE  /\ stage'[f] = "absent" => position'[f] = 0 /\ cash'[f] = 0
               /\ stage'[f] = "running" => position'[f] + cash'[f] = capital'[f]
               /\ stage'[f] = "over" => Unrecorded(f)' = {}
    <3>1. CASE StartForwardTest(g)
      <4>1. PICK amount \in Capitals :
              /\ capital' = [capital EXCEPT ![g] = amount]
              /\ cash' = [cash EXCEPT ![ByHand] = @ - amount, ![g] = @ + amount]
        BY <3>1 DEF StartForwardTest
      <4>2. amount \in Nat \ {0} /\ g \in Owners /\ g # ByHand
        BY ConstantsAssumption DEF Owners
      <4>3. cash'[g] = cash[g] + amount
        BY <1>0, <4>1, <4>2
      <4>4. cash'[g] = cash[g]
        BY <1>2 DEF ledgerVars
      <4> QED BY <1>0, <4>2, <4>3, <4>4
    <3>2. CASE EndForwardTest(g)
      <4>1. position' = [position EXCEPT ![ByHand] = @ + position[g], ![g] = 0]
            /\ cash' = [cash EXCEPT ![ByHand] = @ + cash[g], ![g] = 0]
            /\ stage' = [stage EXCEPT ![g] = "over"] /\ capital' = capital
            /\ Unrecorded(g) = {} /\ UNCHANGED <<recorded, orders>>
        BY <3>2 DEF EndForwardTest, EndAndTransfer, ibkrVars
      <4>2. Unrecorded(f)' = Unrecorded(f)
        BY <4>1, SameOrders DEF Unrecorded, ExecutionsOf
      <4> QED BY <1>0, <1>2, <4>1, <4>2 DEF ledgerVars
    <3> QED BY <2>2, <3>1, <3>2
  <2> QED BY <2>1, <2>2, StageChange
<1>3. ASSUME NEW w \in Recorders, RecordFills(w)
      PROVE  /\ stage'[f] = "absent" => position'[f] = 0 /\ cash'[f] = 0
             /\ stage'[f] = "running" => position'[f] + cash'[f] = capital'[f]
             /\ stage'[f] = "over" => Unrecorded(f)' = {}
  <2>1. position'[f] = position[f] /\ cash'[f] = cash[f] /\ recorded \subseteq recorded'
        /\ UNCHANGED <<stage, capital, orders>>
    BY <1>0, <1>3 DEF RecordFills, Book, rowVars, ibkrVars
  <2>2. Unrecorded(f)' \subseteq Unrecorded(f)
    BY <2>1, SameOrders DEF Unrecorded, ExecutionsOf
  <2> QED BY <1>0, <2>1, <2>2
<1>4. ASSUME NEW g \in ForwardTests, SaveFill(g)
      PROVE  /\ stage'[f] = "absent" => position'[f] = 0 /\ cash'[f] = 0
             /\ stage'[f] = "running" => position'[f] + cash'[f] = capital'[f]
             /\ stage'[f] = "over" => Unrecorded(f)' = {}
  <2>1. PICK e \in Unrecorded(g) \ held : Book(g, {e})
    BY <1>4 DEF SaveFill
  <2>2. Change({e}) \in Int
    BY ChangeType DEF Unrecorded, ExecutionsOf
  <2>3. /\ stage[g] = "running" /\ UNCHANGED <<stage, capital, orders>>
        /\ recorded \subseteq recorded'
    BY <1>4, <2>1 DEF SaveFill, Book, rowVars, ibkrVars
  <2>4. Unrecorded(f)' \subseteq Unrecorded(f)
    BY <2>3, SameOrders DEF Unrecorded, ExecutionsOf
  <2>5. CASE f = g
    <3>1. position'[f] = position[f] + Change({e}) /\ cash'[f] = cash[f] - Change({e})
      BY <1>0, <2>1, <2>5 DEF Book
    <3> QED BY <1>0, <2>2, <2>3, <2>5, <3>1
  <2>6. CASE f # g
    <3>1. position'[f] = position[f] /\ cash'[f] = cash[f]
      BY <1>0, <2>1, <2>6 DEF Book
    <3> QED BY <1>0, <2>3, <2>4, <3>1
  <2> QED BY <2>5, <2>6
<1>5. ASSUME NEW g \in ForwardTests, StartForwardTest(g)
      PROVE  /\ stage'[f] = "absent" => position'[f] = 0 /\ cash'[f] = 0
             /\ stage'[f] = "running" => position'[f] + cash'[f] = capital'[f]
             /\ stage'[f] = "over" => Unrecorded(f)' = {}
  <2>1. PICK amount \in Capitals :
          /\ capital' = [capital EXCEPT ![g] = amount]
          /\ cash' = [cash EXCEPT ![ByHand] = @ - amount, ![g] = @ + amount]
    BY <1>5 DEF StartForwardTest
  <2>2. amount \in Nat
    BY ConstantsAssumption
  <2>3. /\ stage[g] = "absent" /\ stage' = [stage EXCEPT ![g] = "running"]
        /\ UNCHANGED <<position, recorded, orders>>
    BY <1>5 DEF StartForwardTest, ibkrVars
  <2>4. Unrecorded(f)' = Unrecorded(f)
    BY <2>3, SameOrders DEF Unrecorded, ExecutionsOf
  <2> QED BY <1>0, <2>1, <2>2, <2>3, <2>4
<1>6. ASSUME NEW g \in ForwardTests, EndForwardTest(g)
      PROVE  /\ stage'[f] = "absent" => position'[f] = 0 /\ cash'[f] = 0
             /\ stage'[f] = "running" => position'[f] + cash'[f] = capital'[f]
             /\ stage'[f] = "over" => Unrecorded(f)' = {}
  <2>1. /\ position' = [position EXCEPT ![ByHand] = @ + position[g], ![g] = 0]
        /\ cash' = [cash EXCEPT ![ByHand] = @ + cash[g], ![g] = 0]
        /\ stage' = [stage EXCEPT ![g] = "over"] /\ stage[g] = "running" /\ capital' = capital
        /\ Unrecorded(g) = {} /\ UNCHANGED <<recorded, orders>>
    BY <1>6 DEF EndForwardTest, EndAndTransfer, ibkrVars
  <2>2. Unrecorded(f)' = Unrecorded(f)
    BY <2>1, SameOrders DEF Unrecorded, ExecutionsOf
  <2> QED BY <1>0, <2>1, <2>2
<1> QED BY <1>2, <1>3, <1>4, <1>5, <1>6, LedgerChange

\* The ledger invariant holds at the start: there is no order.
LEMMA InitLedgerInv == Init => LedgerInv
<1> SUFFICES ASSUME Init PROVE LedgerInv
  OBVIOUS
<1>1. OrderIds = {}
  BY DEF Init, OrderIds
<1>2. SentByHand /\ ChildRuns /\ OrdersHaveOwners /\ CapitalIsOwned /\ InWork /\ SeenByHand
  BY <1>1, ConstantsAssumption DEF Init, SentByHand, ChildRuns, OrdersHaveOwners, CapitalIsOwned,
     InWork, SeenByHand, Checkers, Owners
<1> QED BY <1>2, InitTypeOK DEF LedgerInv

\* A stutter keeps the ledger invariant.
LEMMA SameLedgerInv == LedgerInv /\ UNCHANGED vars => LedgerInv'
<1> SUFFICES ASSUME LedgerInv, UNCHANGED vars PROVE LedgerInv'
  OBVIOUS
<1> USE DEF vars, ledgerVars, rowVars, processVars, ibkrVars
<1>1. OrderIds' = OrderIds /\ Executions' = Executions
  BY SameOrders
<1>2. \A o : ExecutionsOf(o)' = ExecutionsOf(o) /\ Unrecorded(o)' = Unrecorded(o)
  BY <1>1 DEF ExecutionsOf, Unrecorded
<1>3. TypeOK'
  BY <1>1 DEF LedgerInv, TypeOK
<1>4. SentByHand' /\ ChildRuns' /\ OrdersHaveOwners' /\ InWork'
  BY <1>1 DEF LedgerInv, SentByHand, ChildRuns, OrdersHaveOwners, InWork
<1>5. SeenByHand' /\ CapitalIsOwned'
  BY <1>2 DEF LedgerInv, SeenByHand, CapitalIsOwned
<1> QED BY <1>3, <1>4, <1>5 DEF LedgerInv

\* Each step keeps the ledger invariant.
LEMMA StepLedgerInv == LedgerInv /\ [Next]_vars => LedgerInv'
<1> SUFFICES ASSUME LedgerInv, Next PROVE LedgerInv'
  BY SameLedgerInv
<1> QED BY StepTypeOK, SentByHandKept, SeenByHandKept, InWorkKept, ChildRunsKept,
           OrdersHaveOwnersKept, CapitalIsOwnedKept DEF LedgerInv

\* The inductive invariant: requests keep the ID of the order that they sent, recordings book
\* executions of "By hand" only, orders lie under running owners, and a running forward test owns
\* its capital in cash and shares (the rows and the local variables of the processes of OwnerLedger).
THEOREM LedgerInvariant == Spec => []LedgerInv
<1>1. Init => LedgerInv
  BY InitLedgerInv
<1>2. LedgerInv /\ [Next]_vars => LedgerInv'
  BY StepLedgerInv
<1> QED BY <1>1, <1>2, PTL DEF Spec

\* Every variable keeps its type: above all, each recorded and held execution is one of an order at
\* IBKR, and a manual_order row names an order by hand.
THEOREM TypeCorrect == Spec => []TypeOK
<1>1. LedgerInv => TypeOK
  BY DEF LedgerInv
<1> QED BY <1>1, LedgerInvariant, PTL

-----------------------------------------------------------------------------
(* The capital of the forward tests. *)

\* The dollars that AllocatedCapital counts.
Allocated == UNION {{f} \X (1..capital[f]) : f \in RunningForwardTests}

CapitalFits ==
    /\ IsFiniteSet(Allocated)
    /\ AllocatedCapital <= NetLiquidation

\* All prices are one dollar: a fill moves value between position and cash.
LEMMA NetLiquidationKept ==
    ASSUME TypeOK, Next
    PROVE  NetLiquidation' = NetLiquidation
<1>1. account' = account \/ \E i \in OrderIds : OrderFills(i)
  BY DEF Next, RequestStep, RequestOrder, TakeLock, ReadExecutions, ExecutionReadFails, RecordFills,
     RecordingFails, SendByHand, ReadAnswer, InsertManualOrder, RequestFails, CheckStep, ReadEntries,
     ReadOpenOrders, Refuse, BackgroundStep, WebRestarts, ForwardTestStep, StartForwardTest,
     SubmitOrder, SendForForwardTest, SaveFill, CheckFails, EndForwardTest, EndAndTransfer, IbkrStep,
     OrderEnds, EndHold, ibkrVars
<1>2. ASSUME NEW i \in OrderIds, OrderFills(i) PROVE NetLiquidation' = NetLiquidation
  <2>1. account.position \in Int /\ account.cash \in Int
    BY DEF TypeOK
  <2>2. PICK change \in {1, -1} :
          account' = [position |-> account.position + change, cash |-> account.cash - change]
    BY <1>2 DEF OrderFills
  <2> QED BY <2>1, <2>2 DEF NetLiquidation
<1> QED BY <1>1, <1>2 DEF NetLiquidation

\* The allocated capital counts the dollars of the running tests.
LEMMA AllocatedCapitalIs == AllocatedCapital = Cardinality(Allocated)
  BY DEF AllocatedCapital, Allocated

\* A started test does not bring the allocated capital above the account's
\* value.
LEMMA StartAllocates ==
    ASSUME TypeOK, IsFiniteSet(Allocated), NEW f \in ForwardTests, StartForwardTest(f)
    PROVE  IsFiniteSet(Allocated') /\ AllocatedCapital' <= NetLiquidation
<1>1. PICK amount \in Capitals : /\ amount <= NetLiquidation - AllocatedCapital
                                 /\ capital' = [capital EXCEPT ![f] = amount]
  BY DEF StartForwardTest
<1>2. amount \in Nat
  BY ConstantsAssumption
<1>3. /\ RunningForwardTests' = RunningForwardTests \cup {f}
      /\ f \notin RunningForwardTests
  BY DEF StartForwardTest, RunningForwardTests, TypeOK
<1>4. capital'[f] = amount /\ \A g \in RunningForwardTests : capital'[g] = capital[g]
  BY <1>1, <1>3 DEF TypeOK, RunningForwardTests
<1> DEFINE New == {f} \X (1..amount)
<1>5. Allocated' = Allocated \cup New /\ Allocated \cap New = {}
  <2>1. Allocated' = UNION {{g} \X (1..capital'[g]) : g \in RunningForwardTests \cup {f}}
    BY <1>3 DEF Allocated
  <2> QED BY <2>1, <1>3, <1>4 DEF Allocated
<1>6. IsFiniteSet(New) /\ Cardinality(New) = amount
  <2>1. IsFiniteSet(1..amount) /\ Cardinality(1..amount) = amount
    BY <1>2, FS_Interval
  <2>2. IsFiniteSet({f}) /\ Cardinality({f}) = 1
    BY FS_Singleton
  <2>3. IsFiniteSet(New) /\ Cardinality(New) = 1 * amount
    BY <2>1, <2>2, FS_Product
  <2> QED BY <1>2, <2>3
<1> HIDE DEF New
<1>7. /\ IsFiniteSet(Allocated \cup New)
      /\ Cardinality(Allocated \cup New) = Cardinality(Allocated) + amount
  <2>1. Cardinality(Allocated \cup New) =
            Cardinality(Allocated) + Cardinality(New) - Cardinality(Allocated \cap New)
        /\ IsFiniteSet(Allocated \cup New)
    BY <1>6, FS_Union
  <2>2. Cardinality(Allocated \cap New) = 0
    BY <1>5, FS_EmptySet
  <2>3. Cardinality(Allocated) \in Nat
    BY FS_CardinalityType
  <2> QED BY <1>2, <1>6, <2>1, <2>2, <2>3
<1>8. AllocatedCapital' = Cardinality(Allocated')
  BY DEF AllocatedCapital, Allocated
<1>9. NetLiquidation \in Int /\ AllocatedCapital \in Nat
  BY AllocatedCapitalIs, FS_CardinalityType DEF NetLiquidation, TypeOK
<1>10. AllocatedCapital' = AllocatedCapital + amount
  BY <1>5, <1>7, <1>8, AllocatedCapitalIs
<1> QED BY <1>1, <1>2, <1>5, <1>7, <1>9, <1>10

\* The allocated capital fits the account's value after each step.
LEMMA CapitalFitsKept ==
    ASSUME TypeOK, CapitalFits, Next
    PROVE  CapitalFits'
<1>1. NetLiquidation' = NetLiquidation
  BY NetLiquidationKept
<1>2. CASE UNCHANGED <<stage, capital>>
  BY <1>1, <1>2 DEF CapitalFits, Allocated, AllocatedCapital, RunningForwardTests
<1>3. ASSUME NEW f \in ForwardTests, StartForwardTest(f) PROVE CapitalFits'
  BY <1>1, <1>3, StartAllocates DEF CapitalFits
<1>4. ASSUME NEW f \in ForwardTests, EndForwardTest(f) PROVE CapitalFits'
  <2>1. RunningForwardTests' \subseteq RunningForwardTests /\ capital' = capital
    BY <1>4 DEF EndForwardTest, EndAndTransfer, RunningForwardTests, TypeOK
  <2>2. Allocated' \subseteq Allocated
    BY <2>1 DEF Allocated
  <2>3. IsFiniteSet(Allocated') /\ Cardinality(Allocated') <= Cardinality(Allocated)
    BY <2>2, FS_Subset DEF CapitalFits
  <2>4. AllocatedCapital' = Cardinality(Allocated')
    BY DEF AllocatedCapital, Allocated
  <2>5. NetLiquidation \in Int /\ Cardinality(Allocated) \in Nat /\ Cardinality(Allocated') \in Nat
    BY <2>3, FS_CardinalityType DEF CapitalFits, NetLiquidation, TypeOK
  <2> QED BY <1>1, <2>3, <2>4, <2>5, AllocatedCapitalIs DEF CapitalFits
<1> QED BY <1>2, <1>3, <1>4, StageChange

\* No capital is allocated at the start.
LEMMA InitCapitalFits == Init => CapitalFits
<1> SUFFICES ASSUME Init PROVE CapitalFits
  OBVIOUS
<1>1. RunningForwardTests = {}
  BY DEF Init, RunningForwardTests
<1>2. Allocated = {}
  BY <1>1 DEF Allocated
<1>3. IsFiniteSet(Allocated) /\ AllocatedCapital = 0
  BY <1>2, AllocatedCapitalIs, FS_EmptySet
<1>4. NetLiquidation \in Nat
  BY ConstantsAssumption DEF Init, NetLiquidation
<1> QED BY <1>3, <1>4 DEF CapitalFits

\* A running forward test owns exactly its capital, as cash and as shares, recorded or not, and the
\* starts together allocate no more than the paper account is worth, whatever order the starts,
\* fills and ends come in (the check of start_forward_test and the transfers).
THEOREM CapitalKept == Spec => []CapitalIsKept
<1>1. LedgerInv /\ CapitalFits => CapitalIsKept
  <2> SUFFICES ASSUME LedgerInv, CapitalFits, NEW f \in RunningForwardTests
               PROVE  OwnedShares(f) + OwnedCash(f) = capital[f]
    BY DEF CapitalIsKept, CapitalFits
  <2>1. Unrecorded(f) \in SUBSET Executions /\ f \in ForwardTests /\ stage[f] = "running"
        /\ f \in Owners
    BY DEF Unrecorded, ExecutionsOf, RunningForwardTests, Owners
  <2>2. Change(Unrecorded(f)) \in Int /\ position[f] \in Int /\ cash[f] \in Int
    BY <2>1, ChangeType DEF LedgerInv, TypeOK
  <2>3. position[f] + cash[f] = capital[f]
    BY <2>1 DEF LedgerInv, CapitalIsOwned
  <2> QED BY <2>2, <2>3 DEF OwnedShares, OwnedCash
<1>2. CapitalFits /\ UNCHANGED vars => CapitalFits'
  BY DEF CapitalFits, Allocated, AllocatedCapital, NetLiquidation, RunningForwardTests, vars, rowVars,
         ibkrVars
<1>3. LedgerInv /\ CapitalFits /\ [Next]_vars => CapitalFits'
  BY <1>2, CapitalFitsKept DEF LedgerInv
<1> QED BY <1>1, <1>3, InitCapitalFits, LedgerInvariant, PTL DEF Spec

-----------------------------------------------------------------------------
(* The lock of the orders by hand. *)

LockedSteps == {"read_executions", "record", "read_entries", "read_orders", "send", "answer"}

\* A request between the begin of its check and the answer to its send holds the lock.
LockIsHeld == \A r \in Requests : at[r] \in LockedSteps => sendLock = r

\* No execution and no allocation yet: nothing changes the funds of "By hand".
Fresh == Executions = {} /\ \A f \in ForwardTests : stage[f] = "absent"

\* Then what a request read is still true, or too careful.
CheckHolds ==
    Fresh =>
        /\ \A side \in Sides : OpenShares(ByHand, side) <= LedgerFunds(ByHand, side)
        /\ \A r \in Requests, side \in Sides :
            order[r].side = side =>
                /\ at[r] \in {"read_orders", "send"} => funds[r] = LedgerFunds(ByHand, side)
                /\ at[r] = "send" => OpenShares(ByHand, side) <= open[r]

\* A request between the begin of its check and its answer holds the send lock,
\* after each step.
LEMMA LockIsHeldKept ==
    ASSUME TypeOK, LockIsHeld, Next
    PROVE  LockIsHeld'
<1> SUFFICES ASSUME NEW q \in Requests, at'[q] \in LockedSteps
             PROVE  sendLock' = q
  BY DEF LockIsHeld
<1> USE DEF LockedSteps
<1>0. /\ q \in Checkers /\ q # NoRequest /\ q # Background /\ q \notin ForwardTests
      /\ at \in [Checkers \cup {Background} -> Steps]
      /\ at[q] \in LockedSteps => sendLock = q
  BY ConstantsAssumption DEF LockIsHeld, TypeOK, Checkers
<1>1. CASE at'[q] = at[q]
  <2>1. sendLock = q
    BY <1>0, <1>1
  <2>2. ASSUME NEW r, ReleaseLock(r), r # q PROVE sendLock' = q
    BY <2>1, <2>2 DEF ReleaseLock
  <2>3. ASSUME NEW r, Finish(r), r \in Checkers PROVE r # q
    BY <1>0, <1>1, <2>3 DEF Finish, GoTo
  <2>4. ASSUME NEW r \in Requests, RequestStep(r) PROVE sendLock' = q
    <3>1. CASE TakeLock(r)
      BY <1>0, <2>1, <3>1 DEF TakeLock
    <3>2. CASE RecordingFails(r)
      <4>1. Finish(r) /\ ReleaseLock(r)
        BY <3>2, ConstantsAssumption DEF RecordingFails
      <4> QED BY <4>1, <2>2, <2>3 DEF Checkers
    <3>3. CASE ReadAnswer(r)
      <4>1. r # q
        BY <1>0, <1>1, <3>3 DEF ReadAnswer, Finish, GoTo
      <4> QED BY <3>3, <4>1, <2>2 DEF ReadAnswer
    <3>4. CASE RequestFails(r)
      BY <3>4, <2>2, <2>3 DEF RequestFails, Checkers
    <3>5. CASE RequestOrder(r) \/ ReadExecutions(r) \/ ExecutionReadFails(r) \/ RecordFills(r)
               \/ SendByHand(r) \/ InsertManualOrder(r)
      BY <2>1, <3>5
         DEF RequestOrder, ReadExecutions, ExecutionReadFails, RecordFills, SendByHand,
             InsertManualOrder
    <3> QED BY <2>4, <3>1, <3>2, <3>3, <3>4, <3>5 DEF RequestStep
  <2>5. ASSUME NEW r \in Checkers, CheckStep(r) PROVE sendLock' = q
    BY <2>1, <2>2, <2>3, <2>5 DEF CheckStep, ReadEntries, ReadOpenOrders, Refuse
  <2>6. ASSUME BackgroundStep PROVE sendLock' = q
    BY <2>1, <2>6 DEF BackgroundStep, ReadExecutions, RecordFills, RecordingFails
  <2>7. ASSUME WebRestarts PROVE FALSE
    BY <1>0, <2>7 DEF WebRestarts
  <2>8. ASSUME NEW f \in ForwardTests, ForwardTestStep(f) PROVE sendLock' = q
    BY <2>1, <2>8 DEF ForwardTestStep, StartForwardTest, SubmitOrder, SendForForwardTest, SaveFill,
       CheckFails, EndForwardTest, EndAndTransfer, processVars
  <2>9. ASSUME IbkrStep PROVE sendLock' = q
    BY <2>1, <2>9 DEF IbkrStep, OrderFills, OrderEnds, EndHold, processVars
  <2> QED BY <2>4, <2>5, <2>6, <2>7, <2>8, <2>9 DEF Next
<1>2. CASE at'[q] # at[q]
  <2>1. RequestStep(q) \/ CheckStep(q) \/ WebRestarts
    BY <1>0, <1>2, StepOf DEF IsKept
  <2>2. CASE RequestStep(q)
    <3>1. CASE TakeLock(q)
      BY <3>1 DEF TakeLock
    <3>2. CASE RequestOrder(q) \/ RecordingFails(q) \/ ReadAnswer(q) \/ InsertManualOrder(q)
               \/ RequestFails(q)
      BY <1>0, <3>2 DEF RequestOrder, RecordingFails, ReadAnswer, InsertManualOrder, RequestFails,
         Finish, GoTo
    <3>3. CASE ReadExecutions(q) \/ ExecutionReadFails(q) \/ RecordFills(q) \/ SendByHand(q)
      BY <1>0, <3>3 DEF ReadExecutions, ExecutionReadFails, RecordFills, SendByHand, PlaceOrder
    <3> QED BY <2>2, <3>1, <3>2, <3>3 DEF RequestStep
  <2>3. CASE CheckStep(q)
    BY <1>0, <2>3 DEF CheckStep, ReadEntries, ReadOpenOrders, Refuse, Finish, GoTo
  <2>4. CASE WebRestarts
    BY <1>0, <2>4 DEF WebRestarts
  <2> QED BY <2>1, <2>2, <2>3, <2>4
<1> QED BY <1>1, <1>2

\* An order that ends, or a step that changes no order, opens no share.
LEMMA OpenSharesShrink ==
    ASSUME TypeOK, UNCHANGED orders \/ \E i \in OrderIds : OrderEnds(i), NEW o, NEW side
    PROVE  OpenShares(o, side)' \in Nat /\ OpenShares(o, side)' <= OpenShares(o, side)
<1>1. /\ OrderIds' = OrderIds
      /\ \A j \in OrderIds : /\ orders'[j].owner = orders[j].owner
                             /\ orders'[j].side = orders[j].side
                             /\ orders'[j].quantity = orders[j].quantity
                             /\ orders'[j].filled = orders[j].filled
                             /\ orders'[j].isOpen => orders[j].isOpen
  <2>1. CASE UNCHANGED orders
    BY <2>1, SameOrders
  <2>2. CASE \E i \in OrderIds : OrderEnds(i)
    BY <2>2, OrderEndsEffect DEF OrdersGrow
  <2> QED BY <2>1, <2>2
<1> DEFINE Now == ToFill(OpenOf(o, side))
<1>2. Now' \subseteq Now
  BY <1>1 DEF ToFill, OpenOf
<1>3. IsFiniteSet(Now)
  BY OpenSharesFinite
<1>4. IsFiniteSet(Now') /\ Cardinality(Now') <= Cardinality(Now)
  BY <1>2, <1>3, FS_Subset
<1>5. OpenShares(o, side) = Cardinality(Now)
  BY OpenSharesIs
<1>6. OpenShares(o, side)' = Cardinality(Now')
  BY DEF OpenShares, ToFill, OpenOf
<1> QED BY <1>4, <1>5, <1>6, FS_CardinalityType

\* A send opens the quantity of its order, for its owner and its side.
LEMMA OpenSharesSend ==
    ASSUME TypeOK, NEW r \in Checkers, PlaceOrder(r), NEW o, NEW side
    PROVE  /\ (o = OwnerOf(r) /\ side = order[r].side) =>
                    OpenShares(o, side)' <= OpenShares(o, side) + order[r].quantity
           /\ ~(o = OwnerOf(r) /\ side = order[r].side) => OpenShares(o, side)' = OpenShares(o, side)
           /\ OpenShares(o, side)' \in Nat
<1> DEFINE last == Len(orders')
           quantity == order[r].quantity
           Now == ToFill(OpenOf(o, side))
           New == {last} \X (1..quantity)
<1>1. /\ OrderIds' = OrderIds \cup {last}
      /\ last \notin OrderIds
      /\ \A j \in OrderIds : orders'[j] = orders[j]
      /\ orders'[last] = [owner |-> OwnerOf(r), side |-> order[r].side, quantity |-> quantity,
                          filled |-> 0, isOpen |-> TRUE]
  BY NewOrder, OrderIdsType
<1>2. quantity \in Nat
  BY DEF TypeOK
<1>quantity. quantity = order[r].quantity
  OBVIOUS
<1> HIDE DEF quantity
<1>3. OpenShares(o, side) = Cardinality(Now) /\ IsFiniteSet(Now)
  BY OpenSharesIs, OpenSharesFinite
<1>4. OpenShares(o, side)' = Cardinality(Now')
  BY DEF OpenShares, ToFill, OpenOf
<1>5. CASE o = OwnerOf(r) /\ side = order[r].side
  <2>1. OpenOf(o, side)' = OpenOf(o, side) \cup {last}
    BY <1>1, <1>5 DEF OpenOf
  <2>2. OpenOf(o, side) \subseteq OrderIds
    BY DEF OpenOf
  <2>3. Now' = UNION {{i} \X ((orders'[i].filled + 1)..orders'[i].quantity) :
                          i \in OpenOf(o, side) \cup {last}}
    BY <2>1 DEF ToFill
  <2>4. (orders'[last].filled + 1)..orders'[last].quantity = 1..quantity
    BY <1>1
  <2>5. Now' = Now \cup New
    BY <1>1, <2>2, <2>3, <2>4 DEF ToFill
  <2>6. IsFiniteSet(New) /\ Cardinality(New) = quantity
    <3>1. IsFiniteSet(1..quantity) /\ Cardinality(1..quantity) = quantity
      BY <1>2, FS_Interval
    <3>2. IsFiniteSet({last}) /\ Cardinality({last}) = 1
      BY FS_Singleton
    <3>3. IsFiniteSet(New) /\ Cardinality(New) = 1 * quantity
      BY <3>1, <3>2, FS_Product
    <3> QED BY <1>2, <3>3
  <2> HIDE DEF Now, New
  <2>7. Cardinality(Now \cup New) = Cardinality(Now) + Cardinality(New) - Cardinality(Now \cap New)
    BY <1>3, <2>6, FS_Union
  <2>8. IsFiniteSet(Now \cap New)
    BY <1>3, FS_Subset
  <2>9. Cardinality(Now \cap New) \in Nat /\ Cardinality(Now) \in Nat
    BY <1>3, <2>8, FS_CardinalityType
  <2>10. OpenShares(o, side)' <= OpenShares(o, side) + quantity
    BY <1>2, <1>3, <1>4, <2>5, <2>6, <2>7, <2>9
  <2>11. OpenShares(o, side)' \in Nat
    BY <1>3, <1>4, <2>5, <2>6, FS_Union, FS_CardinalityType
  <2> QED BY <1>5, <1>quantity, <2>10, <2>11
<1>6. CASE ~(o = OwnerOf(r) /\ side = order[r].side)
  <2>1. OpenOf(o, side)' = OpenOf(o, side)
    BY <1>1, <1>6 DEF OpenOf
  <2>2. OpenOf(o, side) \subseteq OrderIds
    BY DEF OpenOf
  <2>3. Now' = Now
    BY <1>1, <2>1, <2>2 DEF ToFill
  <2> QED BY <1>3, <1>4, <1>6, <2>3, OpenSharesType
<1> QED BY <1>5, <1>6

\* Nothing changes the funds of "By hand" while the account is fresh.
LEMMA FreshFunds ==
    ASSUME LedgerInv, Next, Fresh'
    PROVE  /\ Fresh
           /\ UNCHANGED <<position, cash>>
           /\ \/ UNCHANGED orders
              \/ \E i \in OrderIds : OrderEnds(i)
              \/ \E r \in Requests : SendByHand(r)
<1>0. /\ TypeOK /\ SeenByHand /\ ChildRuns
      /\ position \in [Owners -> Int] /\ cash \in [Owners -> Int]
      /\ stage \in [ForwardTests -> {"absent", "running", "over"}]
  BY DEF LedgerInv, TypeOK
<1>1. Executions = {}
  BY <1>0, OrdersChange, GrowKeeps DEF Fresh
<1>2. ~ \E f \in ForwardTests : StartForwardTest(f) \/ EndForwardTest(f)
  BY <1>0 DEF Fresh, StartForwardTest, EndForwardTest, EndAndTransfer
<1>3. Fresh
  BY <1>1, <1>2, StageChange DEF Fresh
<1>4. UNCHANGED <<position, cash>>
  <2>1. ASSUME NEW w \in Recorders, RecordFills(w) PROVE UNCHANGED <<position, cash>>
    <3>1. {e \in seen[w] \ recorded : e[1] \in manualOrders} = {}
      BY <1>0, <1>1 DEF SeenByHand, ExecutionsOf
    <3>2. Book(ByHand, {})
      BY <2>1, <3>1 DEF RecordFills
    <3>3. Change({}) = 0
      <4>1. {e \in {} : orders[e[1]].side = "BUY"} = {} /\ {e \in {} : orders[e[1]].side = "SELL"} = {}
        OBVIOUS
      <4> QED BY <4>1, FS_EmptySet DEF Change
    <3> QED BY <1>0, <3>2, <3>3, ByHandType DEF Book
  <2>2. ASSUME NEW f \in ForwardTests PROVE ~SaveFill(f)
    BY <1>3 DEF Fresh, SaveFill
  <2> QED BY <1>2, <2>1, <2>2, LedgerChange DEF ledgerVars
<1>5. ASSUME NEW i \in OrderIds PROVE ~OrderFills(i)
  BY <1>0, FillEffect DEF Fresh
<1>6. ASSUME NEW f \in ForwardTests PROVE ~SendForForwardTest(f)
  BY <1>0, <1>3 DEF Fresh, ChildRuns, SendForForwardTest, PlaceOrder
<1> QED BY <1>0, <1>3, <1>4, <1>5, <1>6, OrdersChange

\* While there is no execution and no test, what a check by hand read is still
\* true, after each step.
LEMMA CheckHoldsKept ==
    ASSUME LedgerInv, LockIsHeld, CheckHolds, Next
    PROVE  CheckHolds'
<1> SUFFICES ASSUME Fresh'
             PROVE  /\ \A side \in Sides : OpenShares(ByHand, side)' <= LedgerFunds(ByHand, side)'
                    /\ \A r \in Requests, side \in Sides :
                        order'[r].side = side =>
                            /\ at'[r] \in {"read_orders", "send"} =>
                                    funds'[r] = LedgerFunds(ByHand, side)'
                            /\ at'[r] = "send" => OpenShares(ByHand, side)' <= open'[r]
  BY DEF CheckHolds
<1>0. TypeOK
  BY DEF LedgerInv
<1>1. /\ Fresh /\ UNCHANGED <<position, cash>>
      /\ \/ UNCHANGED orders \/ \E i \in OrderIds : OrderEnds(i)
         \/ \E r \in Requests : SendByHand(r)
  BY FreshFunds
<1>2. /\ \A side : LedgerFunds(ByHand, side)' = LedgerFunds(ByHand, side)
      /\ \A side : LedgerFunds(ByHand, side) \in Int /\ OpenShares(ByHand, side) \in Nat
  BY <1>0, <1>1, ByHandType, OpenSharesType DEF LedgerFunds, TypeOK
<1>3. /\ \A side \in Sides : OpenShares(ByHand, side) <= LedgerFunds(ByHand, side)
      /\ \A r \in Requests, side \in Sides :
          order[r].side = side =>
              /\ at[r] \in {"read_orders", "send"} => funds[r] = LedgerFunds(ByHand, side)
              /\ at[r] = "send" => OpenShares(ByHand, side) <= open[r]
  BY <1>1 DEF CheckHolds
<1>4. ASSUME NEW q \in Requests, at'[q] \in {"read_orders", "send"}
      PROVE  IsKept(q) \/ ReadEntries(q) \/ ReadOpenOrders(q)
  <2>1. /\ q \in Checkers /\ q # Background /\ q \notin ForwardTests
        /\ at \in [Checkers \cup {Background} -> Steps]
    BY <1>0, ConstantsAssumption DEF TypeOK, Checkers
  <2>2. ~WebRestarts
    BY <2>1, <1>4 DEF WebRestarts
  <2>3. ~Refuse(q)
    BY <2>1, <1>4 DEF Refuse, Finish, GoTo
  <2>4. ASSUME RequestStep(q) PROVE FALSE
    <3>1. CASE RequestOrder(q) \/ TakeLock(q) \/ ReadExecutions(q) \/ ExecutionReadFails(q)
      BY <2>1, <1>4, <3>1 DEF RequestOrder, TakeLock, ReadExecutions, ExecutionReadFails, GoTo
    <3>2. CASE RecordFills(q) \/ RecordingFails(q) \/ SendByHand(q)
      BY <2>1, <1>4, <3>2 DEF RecordFills, EndRecording, RecordingFails, SendByHand, Finish, GoTo
    <3>3. CASE ReadAnswer(q) \/ InsertManualOrder(q) \/ RequestFails(q)
      BY <2>1, <1>4, <3>3 DEF ReadAnswer, InsertManualOrder, RequestFails, Finish, GoTo
    <3> QED BY <2>4, <3>1, <3>2, <3>3 DEF RequestStep
  <2> QED BY <1>0, <2>1, <2>2, <2>3, <2>4, StepOf DEF CheckStep
<1>5. /\ order \in [Checkers -> OrderInWork]
      /\ funds \in [Checkers -> Int] /\ open \in [Checkers -> Nat]
      /\ at \in [Checkers \cup {Background} -> Steps]
      /\ \A q \in Requests : q \in Checkers /\ OwnerOf(q) = ByHand
  BY <1>0, ConstantsAssumption DEF TypeOK, Checkers, OwnerOf, OrderInWork
<1>6. CASE UNCHANGED orders \/ \E i \in OrderIds : OrderEnds(i)
  <2>1. \A side : OpenShares(ByHand, side)' \in Nat
                  /\ OpenShares(ByHand, side)' <= OpenShares(ByHand, side)
    BY <1>0, <1>6, OpenSharesShrink
  <2>2. \A side \in Sides : OpenShares(ByHand, side)' <= LedgerFunds(ByHand, side)'
    BY <1>2, <1>3, <2>1
  <2>3. ASSUME NEW q \in Requests, at'[q] \in {"read_orders", "send"}, NEW side \in Sides,
               order'[q].side = side
        PROVE  /\ funds'[q] = LedgerFunds(ByHand, side)'
               /\ at'[q] = "send" => OpenShares(ByHand, side)' <= open'[q]
    <3>1. CASE IsKept(q)
      <4>1. order[q].side = side /\ at'[q] = at[q] /\ funds'[q] = funds[q] /\ open'[q] = open[q]
        BY <2>3, <3>1 DEF IsKept
      <4>2. /\ funds[q] = LedgerFunds(ByHand, side)
            /\ at[q] = "send" => OpenShares(ByHand, side) <= open[q]
        BY <1>3, <2>3, <4>1
      <4>3. open[q] \in Nat
        BY <1>5
      <4> QED BY <1>2, <2>1, <4>1, <4>2, <4>3
    <3>2. CASE ReadEntries(q)
      <4>1. funds'[q] = LedgerFunds(OwnerOf(q), order[q].side) /\ order' = order
            /\ at'[q] = "read_orders"
        BY <1>5, <3>2 DEF ReadEntries, GoTo
      <4>2. funds'[q] = LedgerFunds(ByHand, side)
        BY <1>5, <2>3, <4>1
      <4> QED BY <1>2, <4>1, <4>2
    <3>3. CASE ReadOpenOrders(q)
      <4>1. /\ open'[q] = OpenShares(OwnerOf(q), order[q].side) /\ order' = order /\ funds' = funds
            /\ at[q] = "read_orders"
        BY <1>5, <3>3 DEF ReadOpenOrders
      <4>2. open'[q] = OpenShares(ByHand, side) /\ funds'[q] = LedgerFunds(ByHand, side)
        BY <1>3, <1>5, <2>3, <4>1
      <4> QED BY <1>2, <2>1, <4>2
    <3> QED BY <1>4, <2>3, <3>1, <3>2, <3>3
  <2> QED BY <2>2, <2>3
<1>7. ASSUME NEW r \in Requests, SendByHand(r)
      PROVE  /\ \A side \in Sides : OpenShares(ByHand, side)' <= LedgerFunds(ByHand, side)'
             /\ \A q \in Requests : at'[q] \notin {"read_orders", "send"}
  <2>1. PlaceOrder(r) /\ at[r] = "send" /\ r \in Checkers
    BY <1>5, <1>7 DEF SendByHand, PlaceOrder
  <2>2. ASSUME NEW side \in Sides PROVE OpenShares(ByHand, side)' <= LedgerFunds(ByHand, side)'
    <3>1. CASE side = order[r].side
      <4>1. OpenShares(ByHand, side)' <= OpenShares(ByHand, side) + order[r].quantity
            /\ OpenShares(ByHand, side)' \in Nat
        BY <1>0, <1>5, <2>1, <3>1, OpenSharesSend
      <4>2. order[r].quantity <= funds[r] - open[r]
        BY <2>1 DEF PlaceOrder, PassesRule
      <4>3. funds[r] = LedgerFunds(ByHand, side) /\ OpenShares(ByHand, side) <= open[r]
        BY <1>3, <2>1, <3>1
      <4>4. order[r].quantity \in Nat /\ funds[r] \in Int /\ open[r] \in Nat
        BY <1>5, <2>1 DEF OrderInWork
      <4> QED BY <1>2, <4>1, <4>2, <4>3, <4>4
    <3>2. CASE side # order[r].side
      <4>1. OpenShares(ByHand, side)' = OpenShares(ByHand, side)
        BY <1>0, <2>1, <3>2, OpenSharesSend
      <4> QED BY <1>2, <1>3, <4>1
    <3> QED BY <3>1, <3>2
  <2>3. ASSUME NEW q \in Requests, at'[q] \in {"read_orders", "send"} PROVE FALSE
    <3>1. at'[r] = "answer"
      BY <1>5, <1>7 DEF SendByHand, GoTo
    <3>2. q # r
      BY <2>3, <3>1
    <3>3. at'[q] = at[q]
      BY <1>5, <1>7, <3>2 DEF SendByHand, GoTo
    <3>4. sendLock = q /\ sendLock = r
      BY <2>1, <2>3, <3>3 DEF LockIsHeld, LockedSteps
    <3> QED BY <3>2, <3>4
  <2> QED BY <2>2, <2>3
<1> QED BY <1>1, <1>6, <1>7

\* No check runs and the lock is free at the start.
LEMMA InitCheckHolds == Init => LockIsHeld /\ CheckHolds
<1> SUFFICES ASSUME Init PROVE LockIsHeld /\ CheckHolds
  OBVIOUS
<1>1. \A r \in Requests : at[r] = "idle"
  BY ConstantsAssumption DEF Init, Checkers
<1>2. OrderIds = {}
  BY DEF Init, OrderIds
<1>3. \A side : OpenShares(ByHand, side) = 0
  <2> SUFFICES ASSUME NEW side PROVE OpenShares(ByHand, side) = 0
    OBVIOUS
  <2>1. ToFill(OpenOf(ByHand, side)) = {}
    BY <1>2 DEF ToFill, OpenOf
  <2> QED BY <2>1, OpenSharesIs, FS_EmptySet
<1>4. \A side : LedgerFunds(ByHand, side) \in Nat
  BY ByHandType, ConstantsAssumption DEF Init, LedgerFunds
<1> QED BY <1>1, <1>3, <1>4 DEF LockIsHeld, LockedSteps, CheckHolds

\* The lock from the check to the send is enough: without executions and allocations, the open
\* orders by hand never exceed the cash and the shares of "By hand", for any number of requests at
\* a time and any restarts of the Web process (send_lock of PaperOrderRoutes).
THEOREM LockSerializesChecks == Spec => []OneCheckOneOrder
<1> DEFINE Inv == LedgerInv /\ LockIsHeld /\ CheckHolds
<1>1. Init => Inv
  BY InitLedgerInv, InitCheckHolds
<1>2. Inv /\ [Next]_vars => Inv'
  <2>1. LockIsHeld /\ UNCHANGED vars => LockIsHeld'
    BY DEF LockIsHeld, vars, processVars
  <2>2. CheckHolds /\ UNCHANGED vars => CheckHolds'
    <3> SUFFICES ASSUME CheckHolds, UNCHANGED vars PROVE CheckHolds'
      OBVIOUS
    <3> USE DEF vars, ledgerVars, rowVars, processVars, ibkrVars
    <3>1. OrderIds' = OrderIds /\ Executions' = Executions
      BY SameOrders
    <3>2. Fresh' = Fresh
      BY <3>1 DEF Fresh
    <3>3. \A o, side : OpenShares(o, side)' = OpenShares(o, side)
      BY <3>1 DEF OpenShares
    <3>4. \A o, side : LedgerFunds(o, side)' = LedgerFunds(o, side)
      BY DEF LedgerFunds
    <3> QED BY <3>2, <3>3, <3>4 DEF CheckHolds
  <2>3. LedgerInv /\ LockIsHeld /\ Next => LockIsHeld'
    BY LockIsHeldKept DEF LedgerInv
  <2> QED BY <2>1, <2>2, <2>3, StepLedgerInv, CheckHoldsKept
<1>3. Inv => OneCheckOneOrder
  BY DEF OneCheckOneOrder, CheckHolds, Fresh
<1> QED BY <1>1, <1>2, <1>3, PTL DEF Spec

-----------------------------------------------------------------------------
(* The owner ledger implements Ownership. *)

Bought(o) == {e \in Unrecorded(o) : orders[e[1]].side = "BUY"}
Sold(o) == {e \in Unrecorded(o) : orders[e[1]].side = "SELL"}
Over == {f \in ForwardTests : stage[f] = "over"}

\* What an owner has: its ledger, and the difference of the shares bought and
\* sold that wait for an entry.
LEMMA OwnedIs ==
    \A o : /\ OwnedShares(o) = position[o] + (Cardinality(Bought(o)) - Cardinality(Sold(o)))
           /\ OwnedCash(o) = cash[o] - (Cardinality(Bought(o)) - Cardinality(Sold(o)))
  BY DEF OwnedShares, OwnedCash, Change, Bought, Sold

\* The same, after a step.
LEMMA OwnedIsNext ==
    \A o : /\ OwnedShares(o)' = position'[o] + (Cardinality(Bought(o)') - Cardinality(Sold(o)'))
           /\ OwnedCash(o)' = cash'[o] - (Cardinality(Bought(o)') - Cardinality(Sold(o)'))
  BY DEF OwnedShares, OwnedCash, Change, Bought, Sold

\* The unrecorded executions of an owner are finitely many executions of its
\* own orders.
LEMMA UnrecordedType ==
    ASSUME TypeOK, NEW o
    PROVE  /\ Unrecorded(o) \subseteq Executions
           /\ \A e \in Unrecorded(o) : e[1] \in OrderIds /\ orders[e[1]].owner = o
           /\ IsFiniteSet(Bought(o)) /\ IsFiniteSet(Sold(o))
           /\ Cardinality(Bought(o)) \in Nat /\ Cardinality(Sold(o)) \in Nat
<1>1. /\ Unrecorded(o) \subseteq Executions
      /\ \A e \in Unrecorded(o) : e[1] \in OrderIds /\ orders[e[1]].owner = o
  BY DEF Unrecorded, ExecutionsOf, Executions
<1>2. Bought(o) \in SUBSET Executions /\ Sold(o) \in SUBSET Executions
  BY <1>1 DEF Bought, Sold
<1>3. IsFiniteSet(Bought(o)) /\ IsFiniteSet(Sold(o))
  BY <1>2, ExecutionsAreFinite, FS_Subset
<1> QED BY <1>1, <1>3, FS_CardinalityType

\* What waits for its entry counts the same as long as it is the same.
LEMMA SameUnrecorded ==
    ASSUME TypeOK, OrdersGrow, NEW o, Unrecorded(o)' = Unrecorded(o)
    PROVE  Bought(o)' = Bought(o) /\ Sold(o)' = Sold(o)
<1> DEFINE U == Unrecorded(o)
<1>1. \A e \in U : orders'[e[1]].side = orders[e[1]].side
  BY UnrecordedType DEF OrdersGrow
<1>2. Bought(o) = {e \in U : orders[e[1]].side = "BUY"}
      /\ Sold(o) = {e \in U : orders[e[1]].side = "SELL"}
  BY DEF Bought, Sold
<1>3. Bought(o)' = {e \in U : orders'[e[1]].side = "BUY"}
      /\ Sold(o)' = {e \in U : orders'[e[1]].side = "SELL"}
  BY DEF Bought, Sold
<1> HIDE DEF U
<1> QED BY <1>1, <1>2, <1>3

\* An entry moves executions from the waiting ones to the sums of their owner.
LEMMA BookKeepsOwned ==
    ASSUME TypeOK, NEW o \in Owners, NEW E \in SUBSET Unrecorded(o), Book(o, E), UNCHANGED orders,
           NEW p \in Owners
    PROVE  OwnedShares(p)' = OwnedShares(p) /\ OwnedCash(p)' = OwnedCash(p)
<1>0. /\ position \in [Owners -> Int] /\ cash \in [Owners -> Int]
      /\ OrdersGrow
      /\ recorded' = recorded \cup E
      /\ Unrecorded(p)' = Unrecorded(p) \ E
  <2>1. \A i \in OrderIds : orders[i].filled \in Nat
    BY OrderIdsType DEF OrderType
  <2>2. OrdersGrow
    BY <2>1, SameOrders DEF OrdersGrow
  <2> QED BY <2>2, SameOrders DEF TypeOK, Book, Unrecorded, ExecutionsOf
<1>1. CASE p # o
  <2>1. Unrecorded(p)' = Unrecorded(p)
    BY <1>0, <1>1, UnrecordedType
  <2>2. position'[p] = position[p] /\ cash'[p] = cash[p]
    BY <1>0, <1>1 DEF Book
  <2> QED BY <1>0, <2>1, <2>2, SameUnrecorded, OwnedIs, OwnedIsNext
<1>2. CASE p = o
  <2> DEFINE EB == {e \in E : orders[e[1]].side = "BUY"}
             ES == {e \in E : orders[e[1]].side = "SELL"}
  <2>1. Bought(o)' = Bought(o) \ EB /\ Sold(o)' = Sold(o) \ ES
    BY <1>0, <1>2 DEF Bought, Sold
  <2>2. EB \subseteq Bought(o) /\ ES \subseteq Sold(o)
    BY DEF Bought, Sold
  <2>3. Change(E) = Cardinality(EB) - Cardinality(ES)
    BY DEF Change
  <2> HIDE DEF EB, ES
  <2>4. ASSUME NEW S, IsFiniteSet(S), NEW T \in SUBSET S
        PROVE  /\ Cardinality(S \ T) = Cardinality(S) - Cardinality(T)
               /\ Cardinality(S) \in Nat /\ Cardinality(T) \in Nat /\ Cardinality(S \ T) \in Nat
    <3>1. IsFiniteSet(T) /\ IsFiniteSet(S \ T)
      BY <2>4, FS_Subset
    <3>2. Cardinality(S \ T) = Cardinality(S) - Cardinality(S \cap T)
      BY <2>4, FS_Difference
    <3>3. S \cap T = T
      OBVIOUS
    <3> QED BY <2>4, <3>1, <3>2, <3>3, FS_CardinalityType
  <2>5. /\ Cardinality(Bought(o)') = Cardinality(Bought(o)) - Cardinality(EB)
        /\ Cardinality(Bought(o)) \in Nat /\ Cardinality(EB) \in Nat
    BY <2>1, <2>2, <2>4, UnrecordedType
  <2>6. /\ Cardinality(Sold(o)') = Cardinality(Sold(o)) - Cardinality(ES)
        /\ Cardinality(Sold(o)) \in Nat /\ Cardinality(ES) \in Nat
    BY <2>1, <2>2, <2>4, UnrecordedType
  <2>7. position'[o] = position[o] + Change(E) /\ cash'[o] = cash[o] - Change(E)
        /\ position[o] \in Int /\ cash[o] \in Int
    BY <1>0 DEF Book
  <2>8. OwnedShares(o)' = OwnedShares(o) /\ OwnedCash(o)' = OwnedCash(o)
    BY <2>3, <2>5, <2>6, <2>7, OwnedIs, OwnedIsNext
  <2> QED BY <1>2, <2>8
<1> QED BY <1>1, <1>2

\* An owner with the same ledger and the same executions has the same shares
\* and cash.
LEMMA SameOwned ==
    ASSUME TypeOK, OrdersGrow, UNCHANGED ledgerVars, NEW o, ExecutionsOf(o)' = ExecutionsOf(o)
    PROVE  OwnedShares(o)' = OwnedShares(o) /\ OwnedCash(o)' = OwnedCash(o)
<1>1. Unrecorded(o)' = Unrecorded(o) /\ position' = position /\ cash' = cash
  BY DEF Unrecorded, ledgerVars
<1> QED BY <1>1, SameUnrecorded, OwnedIs, OwnedIsNext

\* Steps that leave the executions alone.
LEMMA SameExecutions ==
    ASSUME TypeOK, OrdersGrow, Executions' = Executions, NEW o
    PROVE  ExecutionsOf(o)' = ExecutionsOf(o)
<1>1. \A e \in Executions : e[1] \in OrderIds
  BY DEF Executions
<1> QED BY <1>1 DEF ExecutionsOf, OrdersGrow

Shares == [o \in Owners |-> OwnedShares(o)]
Dollars == [o \in Owners |-> OwnedCash(o)]

\* A step that changes nothing any owner has is a stutter of the books.
LEMMA BooksStutter ==
    ASSUME UNCHANGED <<account, stage>>,
           \A o \in Owners : OwnedShares(o)' = OwnedShares(o) /\ OwnedCash(o)' = OwnedCash(o)
    PROVE  [Books!Next]_(Books!vars)
<1>1. Shares' = Shares /\ Dollars' = Dollars
  BY DEF Shares, Dollars
<1>2. RunningForwardTests' = RunningForwardTests /\ Over' = Over
  BY DEF RunningForwardTests, Over
<1> QED BY <1>1, <1>2 DEF Books!vars, Shares, Dollars, Over

\* The initial states map to the initial state of the books.
LEMMA BooksInit == Init => Books!Init
<1> SUFFICES ASSUME Init PROVE Books!Init
  OBVIOUS
<1>1. \A o \in Owners : Bought(o) = {} /\ Sold(o) = {}
  BY DEF Init, Bought, Sold, Unrecorded, ExecutionsOf, Executions, OrderIds
<1>2. Cardinality({}) = 0
  BY FS_EmptySet
<1>3. \A o \in Owners : position[o] \in Int /\ cash[o] \in Int
  BY ConstantsAssumption DEF Init
<1>4. \A o \in Owners : OwnedShares(o) = position[o] /\ OwnedCash(o) = cash[o]
  <2> TAKE o \in Owners
  <2>1. Cardinality(Bought(o)) = 0 /\ Cardinality(Sold(o)) = 0
    BY <1>1, <1>2
  <2> QED BY <1>3, <2>1, OwnedIs
<1>5. Shares = position /\ Dollars = cash
  BY <1>4 DEF Shares, Dollars, Init
<1>6. RunningForwardTests = {} /\ Over = {}
  BY DEF Init, RunningForwardTests, Over
<1> QED BY <1>5, <1>6 DEF Books!Init, Shares, Dollars, Over, Init, Owners, Books!Owners

\* To record a fill changes no owner.
LEMMA RecordingStutters ==
    ASSUME TypeOK, SeenByHand, NEW w \in Recorders, RecordFills(w)
    PROVE  [Books!Next]_(Books!vars)
<1> DEFINE E == {e \in seen[w] \ recorded : e[1] \in manualOrders}
<1>1. E \in SUBSET Unrecorded(ByHand)
  BY DEF SeenByHand, Unrecorded
<1>2. Book(ByHand, E) /\ UNCHANGED <<account, stage, orders>>
  BY DEF RecordFills, rowVars, ibkrVars
<1> HIDE DEF E
<1> QED BY <1>1, <1>2, ByHandType, BookKeepsOwned, BooksStutter

\* Saving a fill of a test moves it from unrecorded to the ledger: a stutter of
\* the books.
LEMMA SavingStutters ==
    ASSUME TypeOK, NEW f \in ForwardTests, SaveFill(f)
    PROVE  [Books!Next]_(Books!vars)
<1>1. PICK e \in Unrecorded(f) \ held : Book(f, {e})
  BY DEF SaveFill
<1>2. {e} \in SUBSET Unrecorded(f) /\ f \in Owners /\ UNCHANGED <<account, stage, orders>>
  BY <1>1 DEF SaveFill, rowVars, ibkrVars, Owners
<1> QED BY <1>1, <1>2, BookKeepsOwned, BooksStutter

\* Nothing waits for its entry: what the owner has is in its sums.
LEMMA AllRecorded ==
    ASSUME TypeOK, NEW o \in Owners, Unrecorded(o) = {}
    PROVE  OwnedShares(o) = position[o] /\ OwnedCash(o) = cash[o]
<1>1. Bought(o) = {} /\ Sold(o) = {}
  BY DEF Bought, Sold
<1>2. position[o] \in Int /\ cash[o] \in Int
  BY DEF TypeOK
<1>3. Cardinality(Bought(o)) = 0 /\ Cardinality(Sold(o)) = 0
  BY <1>1, FS_EmptySet
<1> QED BY <1>2, <1>3, OwnedIs

\* A transfer moves the sums of the owners and leaves the waiting executions alone.
LEMMA TransferOwned ==
    ASSUME TypeOK, UNCHANGED <<orders, recorded>>, NEW o \in Owners,
           position'[o] \in Int, cash'[o] \in Int
    PROVE  /\ OwnedShares(o)' = OwnedShares(o) + (position'[o] - position[o])
           /\ OwnedCash(o)' = OwnedCash(o) + (cash'[o] - cash[o])
           /\ OwnedShares(o) \in Int /\ OwnedCash(o) \in Int
<1>1. Bought(o)' = Bought(o) /\ Sold(o)' = Sold(o)
  BY SameOrders DEF Bought, Sold, Unrecorded, ExecutionsOf
<1>2. Cardinality(Bought(o)) \in Nat /\ Cardinality(Sold(o)) \in Nat
  BY UnrecordedType
<1>3. position[o] \in Int /\ cash[o] \in Int
  BY DEF TypeOK
<1> QED BY <1>1, <1>2, <1>3, OwnedIs, OwnedIsNext

\* Starting a test allocates its capital in the books.
LEMMA StartAllocatesBooks ==
    ASSUME TypeOK, OrdersHaveOwners, CapitalIsOwned, NEW f \in ForwardTests, StartForwardTest(f)
    PROVE  \E amount \in Capitals : Books!Allocate(f, amount)
<1>1. PICK amount \in Capitals :
        cash' = [cash EXCEPT ![ByHand] = @ - amount, ![f] = @ + amount]
  BY DEF StartForwardTest
<1>2. /\ stage[f] = "absent" /\ stage' = [stage EXCEPT ![f] = "running"]
      /\ UNCHANGED <<position, recorded, orders, account>>
  BY DEF StartForwardTest, ibkrVars
<1>3. /\ position \in [Owners -> Int] /\ cash \in [Owners -> Int]
      /\ stage \in [ForwardTests -> {"absent", "running", "over"}]
      /\ amount \in Nat /\ f \in Owners /\ ByHand \in Owners /\ f # ByHand
  BY ConstantsAssumption DEF TypeOK, Owners
<1>4. OwnedCash(f) = 0
  <2>1. Unrecorded(f) = {}
    BY <1>2, UnrecordedType DEF OrdersHaveOwners
  <2> QED BY <1>2, <1>3, <2>1, AllRecorded DEF CapitalIsOwned
<1>5. ASSUME NEW o \in Owners
      PROVE  /\ OwnedShares(o)' = OwnedShares(o)
             /\ OwnedCash(o)' = OwnedCash(o) + (cash'[o] - cash[o])
             /\ OwnedCash(o) \in Int
  <2>1. position'[o] = position[o] /\ position[o] \in Int /\ cash[o] \in Int /\ cash'[o] \in Int
    BY <1>1, <1>2, <1>3
  <2> QED BY <1>2, <2>1, TransferOwned
<1>6. /\ OwnedCash(ByHand)' = OwnedCash(ByHand) - amount
      /\ OwnedCash(f)' = amount
      /\ \A o \in Owners \ {f, ByHand} : OwnedCash(o)' = OwnedCash(o)
  <2>1. /\ cash'[ByHand] - cash[ByHand] = -amount /\ cash'[f] - cash[f] = amount
        /\ \A o \in Owners \ {f, ByHand} : cash'[o] - cash[o] = 0
    BY <1>1, <1>3
  <2>2. OwnedCash(ByHand)' = OwnedCash(ByHand) - amount
    BY <1>3, <1>5, <2>1
  <2>3. OwnedCash(f)' = amount
    BY <1>3, <1>4, <1>5, <2>1
  <2>4. ASSUME NEW o \in Owners \ {f, ByHand} PROVE OwnedCash(o)' = OwnedCash(o)
    BY <1>5, <2>1
  <2> QED BY <2>2, <2>3, <2>4
<1>7. Shares' = Shares
  BY <1>5 DEF Shares
<1>8. Dollars' = [Dollars EXCEPT ![ByHand] = @ - amount, ![f] = amount]
  BY <1>3, <1>6 DEF Dollars
<1>9. /\ RunningForwardTests' = RunningForwardTests \cup {f}
      /\ Over' = Over
      /\ f \notin RunningForwardTests \cup Over
  BY <1>2, <1>3 DEF RunningForwardTests, Over
<1> QED BY <1>2, <1>7, <1>8, <1>9 DEF Books!Allocate, Shares, Dollars, Over

\* The stop steps of a child left nothing open and nothing to save: the transfer gives all.
LEMMA EndReleasesBooks ==
    ASSUME TypeOK, NEW f \in ForwardTests, EndForwardTest(f)
    PROVE  Books!Release(f)
<1>1. /\ position' = [position EXCEPT ![ByHand] = @ + position[f], ![f] = 0]
      /\ cash' = [cash EXCEPT ![ByHand] = @ + cash[f], ![f] = 0]
      /\ stage[f] = "running" /\ stage' = [stage EXCEPT ![f] = "over"]
      /\ Unrecorded(f) = {} /\ UNCHANGED <<orders, recorded, account>>
  BY DEF EndForwardTest, EndAndTransfer, ibkrVars
<1>2. /\ position \in [Owners -> Int] /\ cash \in [Owners -> Int]
      /\ stage \in [ForwardTests -> {"absent", "running", "over"}]
      /\ f \in Owners /\ ByHand \in Owners /\ f # ByHand
  BY ConstantsAssumption DEF TypeOK, Owners
<1>3. OwnedShares(f) = position[f] /\ OwnedCash(f) = cash[f]
  BY <1>1, <1>2, AllRecorded
<1>4. ASSUME NEW o \in Owners
      PROVE  /\ OwnedShares(o)' = OwnedShares(o) + (position'[o] - position[o])
             /\ OwnedCash(o)' = OwnedCash(o) + (cash'[o] - cash[o])
             /\ OwnedShares(o) \in Int /\ OwnedCash(o) \in Int
  <2>1. position'[o] \in Int /\ cash'[o] \in Int
    BY <1>1, <1>2
  <2> QED BY <1>1, <2>1, TransferOwned
<1>5. Shares' = [Shares EXCEPT ![ByHand] = @ + Shares[f], ![f] = 0]
  <2>1. OwnedShares(f)' = 0
    BY <1>1, <1>2, <1>3, <1>4
  <2>2. OwnedShares(ByHand)' = OwnedShares(ByHand) + OwnedShares(f)
    <3>1. position'[ByHand] - position[ByHand] = position[f]
      BY <1>1, <1>2
    <3> QED BY <1>2, <1>3, <1>4, <3>1
  <2>3. ASSUME NEW o \in Owners \ {f, ByHand} PROVE OwnedShares(o)' = OwnedShares(o)
    <3>1. position'[o] - position[o] = 0
      BY <1>1, <1>2
    <3> QED BY <1>4, <3>1
  <2> QED BY <1>2, <2>1, <2>2, <2>3 DEF Shares
<1>6. Dollars' = [Dollars EXCEPT ![ByHand] = @ + Dollars[f], ![f] = 0]
  <2>1. OwnedCash(f)' = 0
    BY <1>1, <1>2, <1>3, <1>4
  <2>2. OwnedCash(ByHand)' = OwnedCash(ByHand) + OwnedCash(f)
    <3>1. cash'[ByHand] - cash[ByHand] = cash[f]
      BY <1>1, <1>2
    <3> QED BY <1>2, <1>3, <1>4, <3>1
  <2>3. ASSUME NEW o \in Owners \ {f, ByHand} PROVE OwnedCash(o)' = OwnedCash(o)
    <3>1. cash'[o] - cash[o] = 0
      BY <1>1, <1>2
    <3> QED BY <1>4, <3>1
  <2> QED BY <1>2, <2>1, <2>2, <2>3 DEF Dollars
<1>7. /\ f \in RunningForwardTests
      /\ RunningForwardTests' = RunningForwardTests \ {f}
      /\ Over' = Over \cup {f}
  BY <1>1, <1>2 DEF RunningForwardTests, Over
<1> QED BY <1>1, <1>5, <1>6, <1>7 DEF Books!Release, Shares, Dollars, Over

\* A fill leaves the list of what waits longer by one, for the owner and the side of its order.
LEMMA FillWaits ==
    ASSUME TypeOK, NEW i \in OrderIds, OrderFills(i), NEW k, k = orders[i].owner
    PROVE  LET e == <<i, orders[i].filled + 1>>
           IN  /\ Bought(k)' = IF orders[i].side = "BUY" THEN Bought(k) \cup {e} ELSE Bought(k)
               /\ Sold(k)' = IF orders[i].side = "SELL" THEN Sold(k) \cup {e} ELSE Sold(k)
               /\ e \notin Bought(k) /\ e \notin Sold(k)
<1> DEFINE e == <<i, orders[i].filled + 1>>
<1>1. /\ OrdersGrow /\ OrderIds' = OrderIds
      /\ e \notin Executions /\ Executions' = Executions \cup {e}
  BY FillEffect
<1>2. UNCHANGED recorded /\ e \notin recorded
  BY <1>1 DEF OrderFills, ledgerVars, TypeOK
<1>3. Unrecorded(k)' = Unrecorded(k) \cup {e} /\ e \notin Unrecorded(k)
  <2>1. \A x \in Executions : x[1] \in OrderIds
    BY DEF Executions
  <2>2. ExecutionsOf(k)' = ExecutionsOf(k) \cup {e}
    BY <1>1, <2>1 DEF ExecutionsOf, OrdersGrow
  <2> QED BY <1>1, <1>2, <2>2 DEF Unrecorded, ExecutionsOf
<1>4. /\ orders'[i].side = orders[i].side
      /\ \A x \in Unrecorded(k) : orders'[x[1]].side = orders[x[1]].side
  BY <1>1, UnrecordedType DEF OrdersGrow
<1>5. Bought(k)' = {x \in Unrecorded(k) \cup {e} : orders'[x[1]].side = "BUY"}
      /\ Sold(k)' = {x \in Unrecorded(k) \cup {e} : orders'[x[1]].side = "SELL"}
  BY <1>3 DEF Bought, Sold
<1>6. e[1] = i
  OBVIOUS
<1> HIDE DEF e
<1>7. /\ Bought(k)' = IF orders[i].side = "BUY" THEN Bought(k) \cup {e} ELSE Bought(k)
      /\ Sold(k)' = IF orders[i].side = "SELL" THEN Sold(k) \cup {e} ELSE Sold(k)
      /\ e \notin Bought(k) /\ e \notin Sold(k)
  BY <1>3, <1>4, <1>5, <1>6 DEF Bought, Sold
<1> QED BY <1>7 DEF e

\* An execution is a trade of the owner of its order.
LEMMA FillTradesBooks ==
    ASSUME TypeOK, OrdersHaveOwners, NEW i \in OrderIds, OrderFills(i)
    PROVE  \E o \in Books!Owners, change \in {1, -1} : Books!Trade(o, change)
<1>0. PICK k : k = orders[i].owner
  OBVIOUS
<1> DEFINE e == <<i, orders[i].filled + 1>>
           change == IF orders[i].side = "BUY" THEN 1 ELSE -1
<1>1. /\ OrdersGrow /\ OrderIds' = OrderIds
      /\ e \notin Executions /\ Executions' = Executions \cup {e}
      /\ orders[i].isOpen /\ orders[i] \in OrderType
  BY FillEffect, OrderIdsType
<1>2. /\ account' = [position |-> account.position + change, cash |-> account.cash - change]
      /\ UNCHANGED <<position, cash, recorded, stage>>
  BY DEF OrderFills, ledgerVars, rowVars
<1>3. k \in Owners /\ k \in RunningForwardTests \cup {ByHand} /\ orders[i].side \in Sides
  BY <1>0, <1>1 DEF OrderType, Owners, OrdersHaveOwners, RunningForwardTests
<1>4. ASSUME NEW o \in Owners \ {k}
      PROVE  OwnedShares(o)' = OwnedShares(o) /\ OwnedCash(o)' = OwnedCash(o)
  <2>1. \A x \in Executions : x[1] \in OrderIds
    BY DEF Executions
  <2>2. ExecutionsOf(o)' = ExecutionsOf(o)
    BY <1>0, <1>1, <1>4, <2>1 DEF ExecutionsOf, OrdersGrow
  <2> QED BY <1>1, <1>2, <2>2, SameOwned DEF ledgerVars
<1>5. /\ Bought(k)' = IF orders[i].side = "BUY" THEN Bought(k) \cup {e} ELSE Bought(k)
      /\ Sold(k)' = IF orders[i].side = "SELL" THEN Sold(k) \cup {e} ELSE Sold(k)
      /\ e \notin Bought(k) /\ e \notin Sold(k)
  BY <1>0, FillWaits
<1> HIDE DEF e
<1>6. \A S : IsFiniteSet(S) /\ e \notin S => Cardinality(S \cup {e}) = Cardinality(S) + 1
  BY FS_AddElement
<1>7. Cardinality(Bought(k)') - Cardinality(Sold(k)')
         = (Cardinality(Bought(k)) - Cardinality(Sold(k))) + change
  <2>1. /\ IsFiniteSet(Bought(k)) /\ IsFiniteSet(Sold(k))
        /\ Cardinality(Bought(k)) \in Nat /\ Cardinality(Sold(k)) \in Nat
    BY UnrecordedType
  <2>2. CASE orders[i].side = "BUY"
    <3>1. Cardinality(Bought(k)') = Cardinality(Bought(k)) + 1
          /\ Cardinality(Sold(k)') = Cardinality(Sold(k)) /\ change = 1
      BY <1>5, <1>6, <2>1, <2>2
    <3> QED BY <2>1, <3>1
  <2>3. CASE orders[i].side = "SELL"
    <3>1. Cardinality(Sold(k)') = Cardinality(Sold(k)) + 1
          /\ Cardinality(Bought(k)') = Cardinality(Bought(k)) /\ change = -1
      BY <1>5, <1>6, <2>1, <2>3
    <3> QED BY <2>1, <3>1
  <2> QED BY <1>3, <2>2, <2>3 DEF Sides
<1>8. OwnedShares(k)' = OwnedShares(k) + change /\ OwnedCash(k)' = OwnedCash(k) - change
  <2>1. position'[k] = position[k] /\ cash'[k] = cash[k]
        /\ position[k] \in Int /\ cash[k] \in Int
    BY <1>2, <1>3 DEF TypeOK
  <2>2. Cardinality(Bought(k)) \in Nat /\ Cardinality(Sold(k)) \in Nat
    BY UnrecordedType
  <2>3. OwnedShares(k)' = position[k] + ((Cardinality(Bought(k)) - Cardinality(Sold(k))) + change)
        /\ OwnedCash(k)' = cash[k] - ((Cardinality(Bought(k)) - Cardinality(Sold(k))) + change)
    BY <1>7, <2>1, OwnedIsNext
  <2>4. change \in Int
    OBVIOUS
  <2> HIDE DEF change
  <2> QED BY <2>1, <2>2, <2>3, <2>4, OwnedIs
<1> HIDE DEF change
<1>9. Shares' = [Shares EXCEPT ![k] = @ + change] /\ Dollars' = [Dollars EXCEPT ![k] = @ - change]
  BY <1>3, <1>4, <1>8 DEF Shares, Dollars
<1>10. RunningForwardTests' = RunningForwardTests /\ Over' = Over
  BY <1>2 DEF RunningForwardTests, Over
<1>11. Books!Trade(k, change)
  BY <1>2, <1>3, <1>9, <1>10 DEF Books!Trade, Shares, Dollars, Over
<1> QED BY <1>3, <1>11 DEF change, Books!Owners, Owners

\* The account and the rows of the forward tests change with a fill, a start or an end only.
LEMMA AccountChange ==
    ASSUME Next
    PROVE  \/ UNCHANGED <<account, stage, ledgerVars>>
           \/ \E w \in Recorders : RecordFills(w)
           \/ \E f \in ForwardTests : SaveFill(f) \/ StartForwardTest(f) \/ EndForwardTest(f)
           \/ \E i \in OrderIds : OrderFills(i)
  BY DEF Next, RequestStep, RequestOrder, TakeLock, ReadExecutions, ExecutionReadFails,
     RecordingFails, SendByHand, ReadAnswer, InsertManualOrder, RequestFails, CheckStep, ReadEntries,
     ReadOpenOrders, Refuse, BackgroundStep, WebRestarts, ForwardTestStep, SubmitOrder,
     SendForForwardTest, CheckFails, IbkrStep, OrderEnds, EndHold, Recorders, rowVars, ibkrVars

\* Every step maps to a step of Ownership, or to none.
LEMMA StepBooks ==
    ASSUME LedgerInv, [Next]_vars
    PROVE  [Books!Next]_(Books!vars)
<1> USE DEF LedgerInv
<1>1. CASE UNCHANGED vars
  <2>1. UNCHANGED <<account, stage, position, cash, recorded, orders>>
    BY <1>1 DEF vars, ledgerVars, rowVars, ibkrVars
  <2>2. \A o \in Owners : OwnedShares(o)' = OwnedShares(o) /\ OwnedCash(o)' = OwnedCash(o)
    BY <2>1, SameOrders DEF OwnedShares, OwnedCash, Change, Unrecorded, ExecutionsOf
  <2> QED BY <2>1, <2>2, BooksStutter
<1>2. CASE Next /\ UNCHANGED <<account, stage, ledgerVars>> /\ ~\E i \in OrderIds : OrderFills(i)
  <2>1. OrdersGrow /\ Executions' = Executions
    <3>1. UNCHANGED orders => Executions' = Executions
      BY SameOrders
    <3>2. \A r \in Requests : SendByHand(r) => Executions' = Executions
      BY NewOrder DEF SendByHand, Checkers
    <3>3. \A f \in ForwardTests : SendForForwardTest(f) => Executions' = Executions
      BY NewOrder DEF SendForForwardTest, Checkers
    <3>4. \A i \in OrderIds : OrderEnds(i) => Executions' = Executions
      BY OrderEndsEffect
    <3> QED BY <1>2, <3>1, <3>2, <3>3, <3>4, OrdersChange
  <2>2. \A o \in Owners : OwnedShares(o)' = OwnedShares(o) /\ OwnedCash(o)' = OwnedCash(o)
    BY <1>2, <2>1, SameExecutions, SameOwned
  <2> QED BY <1>2, <2>2, BooksStutter
<1>3. CASE \E w \in Recorders : RecordFills(w)
  BY <1>3, RecordingStutters
<1>4. ASSUME NEW f \in ForwardTests, SaveFill(f) \/ StartForwardTest(f) \/ EndForwardTest(f)
      PROVE  [Books!Next]_(Books!vars)
  BY <1>4, SavingStutters, StartAllocatesBooks, EndReleasesBooks DEF Books!Next
<1>5. CASE \E i \in OrderIds : OrderFills(i)
  BY <1>5, FillTradesBooks DEF Books!Next
<1> QED BY <1>1, <1>2, <1>3, <1>4, <1>5, AccountChange

\* The owner ledger keeps the promised ownership: only an execution of an order of an owner changes
\* what the owner has, a recording changes nothing, and a start and an end transfer exactly the
\* allocated capital and all that is owned (owner_ledger_entry, PaperOrderRoutes and the child
\* process of a forward test).
THEOREM LedgerImplementsOwnership == Spec => ImplementsOwnership
  BY BooksInit, StepBooks, LedgerInvariant, PTL DEF Spec, Books!Spec, ImplementsOwnership

-----------------------------------------------------------------------------
(* The sums of the ledger reconcile with the account.                      *)

\* The executions without an entry.
Waiting == Executions \ recorded

\* What waits for its entry changes by what is booked, and by what is executed.
LEMMA ChangeOfRest ==
    ASSUME TypeOK, NEW W \in SUBSET Executions, NEW E \in SUBSET W
    PROVE  Change(W \ E) = Change(W) - Change(E) /\ Change(W) \in Int /\ Change(E) \in Int
<1> DEFINE Of(S, side) == {e \in S : orders[e[1]].side = side}
<1>1. ASSUME NEW side \in Sides
      PROVE  /\ Cardinality(Of(W \ E, side)) = Cardinality(Of(W, side)) - Cardinality(Of(E, side))
             /\ Cardinality(Of(W, side)) \in Nat /\ Cardinality(Of(E, side)) \in Nat
  <2>1. Of(W, side) \in SUBSET Executions /\ Of(E, side) \in SUBSET Of(W, side)
    OBVIOUS
  <2>2. Of(W \ E, side) = Of(W, side) \ Of(E, side) /\ Of(W, side) \cap Of(E, side) = Of(E, side)
    OBVIOUS
  <2> HIDE DEF Of
  <2>3. IsFiniteSet(Of(W, side)) /\ IsFiniteSet(Of(E, side))
    BY <2>1, ExecutionsAreFinite, FS_Subset
  <2>4. Cardinality(Of(W, side) \ Of(E, side)) = Cardinality(Of(W, side)) - Cardinality(Of(W, side) \cap Of(E, side))
    BY <2>3, FS_Difference
  <2>5. Cardinality(Of(W, side)) \in Nat /\ Cardinality(Of(E, side)) \in Nat
    BY <2>3, FS_CardinalityType
  <2> QED BY <2>2, <2>4, <2>5
<1>2. \A S : Change(S) = Cardinality(Of(S, "BUY")) - Cardinality(Of(S, "SELL"))
  BY DEF Change
<1> HIDE DEF Of
<1> QED BY <1>1, <1>2 DEF Sides

\* Steps that change the orders, and no execution.
LEMMA ExecutionsKept ==
    ASSUME TypeOK, Next, ~\E i \in OrderIds : OrderFills(i)
    PROVE  OrdersGrow /\ Executions' = Executions
<1>1. UNCHANGED orders => Executions' = Executions
  BY SameOrders
<1>2. \A r \in Requests : SendByHand(r) => Executions' = Executions
  BY NewOrder DEF SendByHand, Checkers
<1>3. \A f \in ForwardTests : SendForForwardTest(f) => Executions' = Executions
  BY NewOrder DEF SendForForwardTest, Checkers
<1>4. \A i \in OrderIds : OrderEnds(i) => Executions' = Executions
  BY OrderEndsEffect
<1> QED BY <1>1, <1>2, <1>3, <1>4, OrdersChange

\* Orders that grow keep what their executions changed.
LEMMA WaitingKept ==
    ASSUME TypeOK, OrdersGrow, Waiting' = Waiting
    PROVE  Change(Waiting)' = Change(Waiting)
<1>1. \A e \in Waiting : e[1] \in OrderIds
  BY DEF Waiting, Executions
<1>2. \A e \in Waiting : orders'[e[1]].side = orders[e[1]].side
  BY <1>1 DEF OrdersGrow
<1>3. {e \in Waiting : orders'[e[1]].side = "BUY"} = {e \in Waiting : orders[e[1]].side = "BUY"}
      /\ {e \in Waiting : orders'[e[1]].side = "SELL"} = {e \in Waiting : orders[e[1]].side = "SELL"}
  BY <1>2
<1> QED BY <1>3 DEF Change

\* The total of the sums, and how a booking and a transfer change it.
LEMMA TotalIs == \A amount : TotalOf(amount) = SumFunction(amount)
  BY DEF TotalOf, SumFunction, SumFunctionOnSet, FoldFunction

\* The total of the next sums.
LEMMA TotalPrimed == TotalOf(position)' = TotalOf(position') /\ TotalOf(cash)' = TotalOf(cash')
  BY DEF TotalOf, FoldFunction, FoldFunctionOnSet, MapThenFoldSet

\* One changed sum changes the total by as much.
LEMMA TotalOfOneChange ==
    ASSUME IsFiniteSet(ForwardTests), NEW amount \in [Owners -> Int], NEW o \in Owners, NEW change \in Int
    PROVE  /\ TotalOf([amount EXCEPT ![o] = @ + change]) = TotalOf(amount) + change
           /\ TotalOf(amount) \in Int
<1> DEFINE next == [amount EXCEPT ![o] = @ + change]
<1>1. IsFiniteSet(Owners)
  BY FS_AddElement DEF Owners
<1>2. next \in [Owners -> Int] /\ (\A p \in Owners : p # o => next[p] = amount[p]) /\ next[o] - amount[o] = change
  OBVIOUS
<1> HIDE DEF next
<1>3. SumFunction(next) = SumFunction(amount) + (next[o] - amount[o])
  BY <1>1, <1>2, SumOfChange
<1>4. SumFunction(amount) \in Int
  BY <1>1, SumIsWhole
<1> QED BY <1>2, <1>3, <1>4, TotalIs DEF next

\* What one owner gives and another gets leaves the total as it is.
LEMMA TotalOfTransfer ==
    ASSUME IsFiniteSet(ForwardTests), NEW amount \in [Owners -> Int], NEW f \in ForwardTests, NEW change \in Int
    PROVE  TotalOf([amount EXCEPT ![ByHand] = @ + change, ![f] = @ - change]) = TotalOf(amount)
<1> DEFINE half == [amount EXCEPT ![ByHand] = @ + change]
<1>1. f \in Owners /\ ByHand \in Owners /\ f # ByHand /\ -change \in Int
  BY ConstantsAssumption DEF Owners
<1>2. half \in [Owners -> Int]
  BY <1>1
<1>3. [amount EXCEPT ![ByHand] = @ + change, ![f] = @ - change] = [half EXCEPT ![f] = @ + (-change)]
  BY <1>1
<1>4. TotalOf(half) = TotalOf(amount) + change /\ TotalOf(amount) \in Int
  BY <1>1, TotalOfOneChange
<1> HIDE DEF half
<1>5. TotalOf([half EXCEPT ![f] = @ + (-change)]) = TotalOf(half) + (-change)
  BY <1>1, <1>2, TotalOfOneChange
<1> QED BY <1>3, <1>4, <1>5

\* At the start all is of "By hand", and nothing waits.
LEMMA ReconcileInit == IsFiniteSet(ForwardTests) /\ Init => Reconciles
<1> SUFFICES ASSUME IsFiniteSet(ForwardTests), Init PROVE Reconciles
  OBVIOUS
<1> DEFINE zeros == [o \in Owners |-> 0]
<1>1. ByHand \in Owners /\ StartPosition \in Int /\ StartCash \in Int
  BY ConstantsAssumption DEF Owners
<1>2. zeros \in [Owners -> Int] /\ position = [zeros EXCEPT ![ByHand] = @ + StartPosition]
      /\ cash = [zeros EXCEPT ![ByHand] = @ + StartCash]
  <2>1. zeros \in [Owners -> Int]
    OBVIOUS
  <2>2. ASSUME NEW n \in Int
        PROVE  [zeros EXCEPT ![ByHand] = @ + n] = [o \in Owners |-> IF o = ByHand THEN n ELSE 0]
    <3>1. zeros[ByHand] = 0 /\ 0 + n = n
      BY <1>1
    <3>2. [zeros EXCEPT ![ByHand] = @ + n] = [zeros EXCEPT ![ByHand] = n]
      BY <3>1
    <3> QED BY <3>2
  <2>3. position = [o \in Owners |-> IF o = ByHand THEN StartPosition ELSE 0]
        /\ cash = [o \in Owners |-> IF o = ByHand THEN StartCash ELSE 0]
    BY DEF Init
  <2> HIDE DEF zeros
  <2> QED BY <1>1, <2>1, <2>2, <2>3
<1>3. TotalOf(zeros) = 0
  <2>1. IsFiniteSet(Owners)
    BY FS_AddElement DEF Owners
  <2> QED BY <2>1, SumOfZeros, TotalIs
<1> HIDE DEF zeros
<1>4. TotalOf(position) = StartPosition /\ TotalOf(cash) = StartCash
  <2>1. ASSUME NEW n \in Int
        PROVE  TotalOf([zeros EXCEPT ![ByHand] = @ + n]) = n
    <3>1. TotalOf([zeros EXCEPT ![ByHand] = @ + n]) = TotalOf(zeros) + n
      BY <1>1, <1>2, TotalOfOneChange
    <3> QED BY <1>3, <3>1
  <2> QED BY <1>1, <1>2, <2>1
<1>5. Change(Executions \ recorded) = 0
  <2>1. Executions = {}
    BY DEF Init, Executions, OrderIds
  <2>2. \A side : {e \in Executions \ recorded : orders[e[1]].side = side} = {}
    BY <2>1
  <2>3. Change(Executions \ recorded) = Cardinality({}) - Cardinality({})
    BY <2>2 DEF Change
  <2> QED BY <2>3, FS_EmptySet
<1>6. account.position = StartPosition /\ account.cash = StartCash
  BY DEF Init
<1>7. \A n \in Int : n - n = 0
  OBVIOUS
<1>8. account.position - TotalOf(position) = 0 /\ account.cash - TotalOf(cash) = 0
  BY <1>1, <1>4, <1>6, <1>7
<1>9. account.cash - TotalOf(cash) = -Change(Executions \ recorded)
  <2>1. \A n, m \in Int : n <= 0 /\ n >= 0 /\ m <= 0 /\ m >= 0 => m = -n
    OBVIOUS
  <2>2. Change(Executions \ recorded) <= 0 /\ Change(Executions \ recorded) >= 0
        /\ account.cash - TotalOf(cash) <= 0 /\ account.cash - TotalOf(cash) >= 0
    BY <1>5, <1>8
  <2>3. Change(Executions \ recorded) \in Int /\ account.cash - TotalOf(cash) \in Int
    BY <1>5, <1>8
  <2> QED BY <2>1, <2>2, <2>3
<1> QED BY <1>5, <1>8, <1>9 DEF Reconciles

\* What an owner gets in its sums no longer waits.
LEMMA ReconcileBook ==
    ASSUME IsFiniteSet(ForwardTests), TypeOK, Reconciles, NEW o \in Owners, NEW E \in SUBSET Waiting, Book(o, E),
           UNCHANGED <<orders, account>>
    PROVE  Reconciles'
<1>1. position \in [Owners -> Int] /\ cash \in [Owners -> Int] /\ Waiting \in SUBSET Executions /\ E \in SUBSET Executions
      /\ account.position \in Int /\ account.cash \in Int
  BY DEF TypeOK, Waiting
<1>2. Change(E) \in Int /\ -Change(E) \in Int /\ Change(Waiting) \in Int /\ Change(Waiting \ E) = Change(Waiting) - Change(E)
  <2>1. Change(E) \in Int /\ Change(Waiting) \in Int /\ Change(Waiting \ E) = Change(Waiting) - Change(E)
    BY <1>1, ChangeOfRest
  <2> QED BY <2>1
<1>3. position' = [position EXCEPT ![o] = @ + Change(E)] /\ cash' = [cash EXCEPT ![o] = @ + (-Change(E))]
  BY <1>1, <1>2 DEF Book
<1>4. /\ TotalOf(position') = TotalOf(position) + Change(E) /\ TotalOf(position) \in Int
      /\ TotalOf(cash') = TotalOf(cash) + (-Change(E)) /\ TotalOf(cash) \in Int
  BY <1>1, <1>2, <1>3, TotalOfOneChange
<1>5. Waiting' = Waiting \ E
  BY SameOrders DEF Book, Waiting
<1>6. Change(Waiting)' = Change(Waiting \ E)
  BY <1>5 DEF Change
<1>7. account.position - TotalOf(position) = Change(Waiting) /\ account.cash - TotalOf(cash) = -Change(Waiting)
  BY DEF Reconciles, Waiting
<1>8. account.position - TotalOf(position') = Change(Waiting \ E) /\ account.cash - TotalOf(cash') = -Change(Waiting \ E)
  BY <1>1, <1>2, <1>4, <1>7
<1>9. TotalOf(position)' = TotalOf(position') /\ TotalOf(cash)' = TotalOf(cash')
  BY TotalPrimed
<1> QED BY <1>6, <1>8, <1>9 DEF Reconciles, Waiting

\* A start and an end move amounts between two owners.
LEMMA ReconcileTransfer ==
    ASSUME IsFiniteSet(ForwardTests), TypeOK, Reconciles, NEW f \in ForwardTests, StartForwardTest(f) \/ EndForwardTest(f)
    PROVE  Reconciles'
<1>1. position \in [Owners -> Int] /\ cash \in [Owners -> Int] /\ f \in Owners /\ ByHand \in Owners /\ f # ByHand
  BY ConstantsAssumption DEF TypeOK, Owners
<1>2. UNCHANGED <<orders, account, recorded>>
  BY DEF StartForwardTest, EndForwardTest, EndAndTransfer, ibkrVars
<1>3. TotalOf(position') = TotalOf(position) /\ TotalOf(cash') = TotalOf(cash)
  <2>1. CASE StartForwardTest(f)
    <3>1. PICK amount \in Capitals : cash' = [cash EXCEPT ![ByHand] = @ - amount, ![f] = @ + amount]
      BY <2>1 DEF StartForwardTest
    <3>2. amount \in Int /\ -amount \in Int
      BY ConstantsAssumption
    <3>3. cash' = [cash EXCEPT ![ByHand] = @ + (-amount), ![f] = @ - (-amount)]
      <4>1. cash[ByHand] - amount = cash[ByHand] + (-amount) /\ cash[f] + amount = cash[f] - (-amount)
        BY <1>1, <3>2
      <4> QED BY <1>1, <3>1, <4>1
    <3>4. position' = position
      BY <2>1 DEF StartForwardTest
    <3> QED BY <1>1, <3>2, <3>3, <3>4, TotalOfTransfer
  <2>2. CASE EndForwardTest(f)
    <3>1. /\ position' = [position EXCEPT ![ByHand] = @ + position[f], ![f] = 0]
          /\ cash' = [cash EXCEPT ![ByHand] = @ + cash[f], ![f] = 0]
      BY <2>2 DEF EndForwardTest, EndAndTransfer
    <3>2. position[f] \in Int /\ cash[f] \in Int
      BY <1>1
    <3>3. /\ position' = [position EXCEPT ![ByHand] = @ + position[f], ![f] = @ - position[f]]
          /\ cash' = [cash EXCEPT ![ByHand] = @ + cash[f], ![f] = @ - cash[f]]
      <4>1. position[f] - position[f] = 0 /\ cash[f] - cash[f] = 0
        BY <3>2
      <4> QED BY <1>1, <3>1, <4>1
    <3> QED BY <1>1, <3>2, <3>3, TotalOfTransfer
  <2> QED BY <2>1, <2>2
<1>4. Change(Executions \ recorded)' = Change(Executions \ recorded)
  BY <1>2, SameOrders DEF Change
<1>5. TotalOf(position)' = TotalOf(position') /\ TotalOf(cash)' = TotalOf(cash')
  BY TotalPrimed
<1> QED BY <1>2, <1>3, <1>4, <1>5 DEF Reconciles

\* An execution changes the account, and waits for its entry.
LEMMA ReconcileFill ==
    ASSUME TypeOK, Reconciles, IsFiniteSet(ForwardTests), NEW i \in OrderIds, OrderFills(i)
    PROVE  Reconciles'
<1> DEFINE e == <<i, orders[i].filled + 1>>
           change == IF orders[i].side = "BUY" THEN 1 ELSE -1
           Of(S, side) == {x \in S : orders[x[1]].side = side}
<1>1. /\ OrdersGrow /\ OrderIds' = OrderIds
      /\ e \notin Executions /\ Executions' = Executions \cup {e}
      /\ orders[i] \in OrderType
  BY FillEffect, OrderIdsType
<1>2. /\ account' = [position |-> account.position + change, cash |-> account.cash - change]
      /\ UNCHANGED <<position, cash, recorded>>
  BY DEF OrderFills, ledgerVars
<1>3. Waiting' = Waiting \cup {e} /\ e \notin Waiting /\ e[1] = i
  BY <1>1, <1>2 DEF Waiting, TypeOK
<1>4. \A x \in Waiting' : orders'[x[1]].side = orders[x[1]].side
  <2>1. \A x \in Waiting : x[1] \in OrderIds
    BY DEF Waiting, Executions
  <2> QED BY <1>1, <1>3, <2>1 DEF OrdersGrow
<1> HIDE DEF e
<1>5. \A side : {x \in Waiting' : orders'[x[1]].side = side}
                  = IF orders[i].side = side THEN Of(Waiting, side) \cup {e} ELSE Of(Waiting, side)
  BY <1>3, <1>4
<1>6. ASSUME NEW side
      PROVE  /\ IsFiniteSet(Of(Waiting, side)) /\ e \notin Of(Waiting, side)
             /\ Cardinality(Of(Waiting, side)) \in Nat
  <2>1. Of(Waiting, side) \in SUBSET Executions
    BY DEF Waiting
  <2> QED BY <1>3, <2>1, ExecutionsAreFinite, FS_Subset, FS_CardinalityType
<1>7. Change(Waiting) = Cardinality(Of(Waiting, "BUY")) - Cardinality(Of(Waiting, "SELL"))
  BY DEF Change
<1> HIDE DEF Of
<1>8. Change(Waiting)' = Change(Waiting) + change /\ Change(Waiting) \in Int /\ change \in Int
  <2>1. Change(Waiting)' = Cardinality({x \in Waiting' : orders'[x[1]].side = "BUY"})
                             - Cardinality({x \in Waiting' : orders'[x[1]].side = "SELL"})
    BY DEF Change
  <2>2. \A side : Cardinality(Of(Waiting, side) \cup {e}) = Cardinality(Of(Waiting, side)) + 1
    BY <1>6, FS_AddElement
  <2>3. CASE orders[i].side = "BUY"
    <3>1. Change(Waiting)' = (Cardinality(Of(Waiting, "BUY")) + 1) - Cardinality(Of(Waiting, "SELL"))
      BY <1>5, <2>1, <2>2, <2>3
    <3> QED BY <1>6, <1>7, <2>3, <3>1
  <2>4. CASE orders[i].side = "SELL"
    <3>1. Change(Waiting)' = Cardinality(Of(Waiting, "BUY")) - (Cardinality(Of(Waiting, "SELL")) + 1)
      BY <1>5, <2>1, <2>2, <2>4
    <3> QED BY <1>6, <1>7, <2>4, <3>1
  <2> QED BY <1>1, <2>3, <2>4 DEF OrderType, Sides
<1> HIDE DEF change
<1>9. account.position \in Int /\ account.cash \in Int /\ TotalOf(position) \in Int /\ TotalOf(cash) \in Int
  <2>1. position \in [Owners -> Int] /\ cash \in [Owners -> Int] /\ ByHand \in Owners /\ 0 \in Int
    BY DEF TypeOK, Owners
  <2> QED BY <2>1, TotalOfOneChange DEF TypeOK
<1>10. account.position - TotalOf(position) = Change(Waiting) /\ account.cash - TotalOf(cash) = -Change(Waiting)
  BY DEF Reconciles, Waiting
<1>11. /\ account'.position - TotalOf(position) = Change(Waiting) + change
       /\ account'.cash - TotalOf(cash) = -(Change(Waiting) + change)
  BY <1>2, <1>8, <1>9, <1>10
<1>12. TotalOf(position)' = TotalOf(position) /\ TotalOf(cash)' = TotalOf(cash)
  BY <1>2, TotalPrimed
<1> QED BY <1>8, <1>11, <1>12 DEF Reconciles, Waiting

\* Each step keeps the account and the sums together.
LEMMA ReconcileStep == IsFiniteSet(ForwardTests) /\ LedgerInv /\ Reconciles /\ [Next]_vars => Reconciles'
<1> SUFFICES ASSUME IsFiniteSet(ForwardTests), LedgerInv, Reconciles, [Next]_vars PROVE Reconciles'
  OBVIOUS
<1> USE DEF LedgerInv
<1>1. ASSUME UNCHANGED <<account, ledgerVars>>, OrdersGrow, Executions' = Executions PROVE Reconciles'
  <2>1. UNCHANGED <<account, position, cash, recorded>> /\ Waiting' = Waiting
    BY <1>1 DEF ledgerVars, Waiting
  <2>2. Change(Waiting)' = Change(Waiting)
    BY <1>1, <2>1, WaitingKept
  <2>3. TotalOf(position)' = TotalOf(position) /\ TotalOf(cash)' = TotalOf(cash)
    BY <2>1, TotalPrimed
  <2> QED BY <2>1, <2>2, <2>3 DEF Reconciles, Waiting
<1>2. CASE UNCHANGED vars
  <2>1. UNCHANGED <<account, ledgerVars, orders>>
    BY <1>2 DEF vars, ibkrVars
  <2>2. \A i \in OrderIds : orders[i].filled \in Nat
    BY OrderIdsType DEF OrderType
  <2>3. OrdersGrow
    BY <2>1, <2>2, SameOrders DEF OrdersGrow
  <2> QED BY <1>1, <2>1, <2>3, SameOrders
<1>3. CASE Next /\ UNCHANGED <<account, stage, ledgerVars>> /\ ~\E i \in OrderIds : OrderFills(i)
  BY <1>1, <1>3, ExecutionsKept
<1>4. ASSUME NEW w \in Recorders, RecordFills(w) PROVE Reconciles'
  <2> DEFINE E == {e \in seen[w] \ recorded : e[1] \in manualOrders}
  <2>1. E \in SUBSET Waiting /\ Book(ByHand, E) /\ UNCHANGED <<account, orders>>
    BY <1>4 DEF SeenByHand, ExecutionsOf, Waiting, RecordFills, ibkrVars
  <2> HIDE DEF E
  <2> QED BY <2>1, ByHandType, ReconcileBook
<1>5. ASSUME NEW f \in ForwardTests, SaveFill(f) PROVE Reconciles'
  <2>1. PICK e \in Unrecorded(f) \ held : Book(f, {e})
    BY <1>5 DEF SaveFill
  <2>2. {e} \in SUBSET Waiting /\ f \in Owners /\ UNCHANGED <<account, orders>>
    BY <1>5, <2>1 DEF SaveFill, ibkrVars, Owners, Waiting, Unrecorded, ExecutionsOf
  <2> QED BY <2>1, <2>2, ReconcileBook
<1>6. ASSUME NEW f \in ForwardTests, StartForwardTest(f) \/ EndForwardTest(f) PROVE Reconciles'
  BY <1>6, ReconcileTransfer
<1>7. ASSUME NEW i \in OrderIds, OrderFills(i) PROVE Reconciles'
  BY <1>7, ReconcileFill
<1> QED BY <1>2, <1>3, <1>4, <1>5, <1>6, <1>7, AccountChange

\* Whatever order executions, recordings, retries, restarts and transfers come in, the account differs from the sums of
\* the owners by the executions that wait for their entry and by nothing else (owner_ledger_store: one entry for each
\* execution ID, two transfer entries for each start and end).
THEOREM LedgerReconciles == ASSUME IsFiniteSet(ForwardTests) PROVE Spec => []Reconciles
  BY ReconcileInit, ReconcileStep, LedgerInvariant, PTL DEF Spec

-----------------------------------------------------------------------------
(* The check of a forward test, against fills and entries in its middle.   *)

\* What an owner has for orders of a side, with the executions that wait for their entry; what of it is not in an open
\* order; and what a check must count as used: the executions of the side that wait, and the open orders.
Owned(o, side) == IF side = "SELL" THEN OwnedShares(o) ELSE OwnedCash(o)
WaitingOf(o, side) == IF side = "SELL" THEN Sold(o) ELSE Bought(o)
Room(o, side) == Owned(o, side) - OpenShares(o, side)
Load(o, side) == Cardinality(WaitingOf(o, side)) + OpenShares(o, side)

\* What SendsAreFunded rests on. Until the check reads the entries, the open orders that it read cover what is still
\* open and what came in and waits for its entry; after it, the rule of the check is at most what the owner really has.
ChecksAreFunded ==
    \A f \in ForwardTests :
        /\ at[f] \in {"idle", "read_entries", "send"}
        /\ \A side \in Sides : f \in settled /\ order[f].side = side =>
            /\ at[f] = "read_entries" => Load(f, side) <= open[f]
            /\ at[f] = "send" => funds[f] - open[f] <= Room(f, side)

\* The sums without the executions that wait are at most what the owner has, and what waits.
LEMMA FundsAreCovered ==
    ASSUME TypeOK, NEW o \in Owners, NEW side \in Sides
    PROVE  /\ LedgerFunds(o, side) <= Owned(o, side) + Cardinality(WaitingOf(o, side))
           /\ Cardinality(WaitingOf(o, side)) \in Nat
           /\ LedgerFunds(o, side) \in Int /\ Owned(o, side) \in Int
           /\ OpenShares(o, side) \in Nat /\ Load(o, side) \in Nat /\ Room(o, side) \in Int
<1>1. position[o] \in Int /\ cash[o] \in Int
  BY DEF TypeOK
<1>2. Cardinality(Bought(o)) \in Nat /\ Cardinality(Sold(o)) \in Nat
  BY UnrecordedType
<1>3. /\ OwnedShares(o) = position[o] + (Cardinality(Bought(o)) - Cardinality(Sold(o)))
      /\ OwnedCash(o) = cash[o] - (Cardinality(Bought(o)) - Cardinality(Sold(o)))
  BY OwnedIs
<1>4. OpenShares(o, side) \in Nat
  BY OpenSharesType
<1>5. CASE side = "SELL"
  <2>1. /\ LedgerFunds(o, side) = position[o] /\ Owned(o, side) = OwnedShares(o)
        /\ WaitingOf(o, side) = Sold(o)
    BY <1>5 DEF LedgerFunds, Owned, WaitingOf
  <2> QED BY <1>1, <1>2, <1>3, <1>4, <2>1 DEF Load, Room
<1>6. CASE side = "BUY"
  <2>1. /\ LedgerFunds(o, side) = cash[o] /\ Owned(o, side) = OwnedCash(o)
        /\ WaitingOf(o, side) = Bought(o)
    BY <1>6 DEF LedgerFunds, Owned, WaitingOf
  <2> QED BY <1>1, <1>2, <1>3, <1>4, <2>1 DEF Load, Room
<1> QED BY <1>5, <1>6 DEF Sides

\* Both are numbers, before a step and after it.
LEMMA RoomType == TypeOK => \A o \in Owners, side \in Sides : Load(o, side) \in Nat /\ Room(o, side) \in Int
BY FundsAreCovered

\* The load and the room of an owner are numbers after a step too.
LEMMA NextRoomType == TypeOK' => \A o \in Owners, side \in Sides : Load(o, side)' \in Nat /\ Room(o, side)' \in Int
<1>1. TypeOK' => (\A o \in Owners, side \in Sides : Load(o, side) \in Nat /\ Room(o, side) \in Int)'
  BY RoomType, PTL
<1> QED BY <1>1

\* With nothing that waits, the load is what is open.
LEMMA NothingWaits ==
    ASSUME TypeOK, NEW o, NEW side, Unrecorded(o) = {}
    PROVE  Load(o, side) = OpenShares(o, side)
<1>1. WaitingOf(o, side) = {}
  BY DEF WaitingOf, Bought, Sold
<1> QED BY <1>1, FS_EmptySet, OpenSharesType DEF Load

\* A fill changes the executions of its own owner only.
LEMMA FillOfOther ==
    ASSUME TypeOK, NEW i \in OrderIds, OrderFills(i), NEW o, orders[i].owner # o
    PROVE  ExecutionsOf(o)' = ExecutionsOf(o)
<1>1. /\ OrdersGrow /\ Executions' = Executions \cup {<<i, orders[i].filled + 1>>}
  BY FillEffect
<1>2. \A x \in Executions : x[1] \in OrderIds
  BY DEF Executions
<1>3. \A x : x = <<i, orders[i].filled + 1>> => x[1] = i
  OBVIOUS
<1> QED BY <1>1, <1>2, <1>3 DEF ExecutionsOf, OrdersGrow

\* After a fill one share less is open, for the owner and the side of its order.
LEMMA OpenSharesFill ==
    ASSUME TypeOK, OrdersHaveOwners, NEW i \in OrderIds, OrderFills(i), NEW o, NEW side
    PROVE  /\ OpenShares(o, side)' \in Nat
           /\ OpenShares(o, side)' <= OpenShares(o, side)
           /\ orders[i].owner = o /\ orders[i].side = side => OpenShares(o, side)' <= OpenShares(o, side) - 1
<1> DEFINE Now == ToFill(OpenOf(o, side))
           e == <<i, orders[i].filled + 1>>
<1>1. /\ OrderIds' = OrderIds /\ orders[i].isOpen
      /\ \A j \in OrderIds \ {i} : orders'[j] = orders[j]
      /\ orders[i] \in OrderType
      /\ orders'[i].filled = orders[i].filled + 1
      /\ \A j \in OrderIds : /\ orders'[j].owner = orders[j].owner
                             /\ orders'[j].side = orders[j].side
                             /\ orders'[j].quantity = orders[j].quantity
                             /\ orders'[j].isOpen => orders[j].isOpen
  <2>1. orders[i] \in OrderType
    BY OrderIdsType
  <2> QED BY <2>1, FillEffect DEF OrderType, OrdersGrow
<1>2. orders[i].filled \in Nat /\ orders[i].quantity \in Nat /\ orders[i].filled < orders[i].quantity
  BY <1>1 DEF OrderType, OrdersHaveOwners
<1>3. OpenOf(o, side)' \subseteq OpenOf(o, side) /\ OpenOf(o, side) \subseteq OrderIds
  BY <1>1 DEF OpenOf
<1>4. Now = UNION {{j} \X ((orders[j].filled + 1)..orders[j].quantity) : j \in OpenOf(o, side)}
      /\ Now' = UNION {{j} \X ((orders'[j].filled + 1)..orders'[j].quantity) : j \in OpenOf(o, side)'}
  BY DEF ToFill
<1>5. (orders'[i].filled + 1)..orders'[i].quantity = ((orders[i].filled + 1)..orders[i].quantity) \ {orders[i].filled + 1}
  BY <1>1, <1>2
<1>6. \A j \in OrderIds : {j} \X ((orders'[j].filled + 1)..orders'[j].quantity)
                            = ({j} \X ((orders[j].filled + 1)..orders[j].quantity)) \ {e}
  <2>1. ASSUME NEW j \in OrderIds \ {i}
        PROVE  {j} \X ((orders'[j].filled + 1)..orders'[j].quantity)
                 = ({j} \X ((orders[j].filled + 1)..orders[j].quantity)) \ {e}
    BY <1>1
  <2>2. {i} \X ((orders'[i].filled + 1)..orders'[i].quantity)
          = ({i} \X ((orders[i].filled + 1)..orders[i].quantity)) \ {e}
    BY <1>5
  <2> QED BY <2>1, <2>2
<1>7. orders[i].owner = o /\ orders[i].side = side => e \in Now
  BY <1>1, <1>2, <1>4 DEF OpenOf
<1> HIDE DEF e
<1>8. Now' \subseteq Now \ {e}
  BY <1>3, <1>4, <1>6
<1>9. OpenShares(o, side) = Cardinality(Now) /\ OpenShares(o, side)' = Cardinality(Now') /\ IsFiniteSet(Now)
  <2>1. OpenShares(o, side)' = Cardinality(Now')
    BY DEF OpenShares, ToFill, OpenOf
  <2> QED BY <2>1, OpenSharesIs, OpenSharesFinite
<1> HIDE DEF Now
<1>10. IsFiniteSet(Now \ {e}) /\ Cardinality(Now \ {e}) = IF e \in Now THEN Cardinality(Now) - 1 ELSE Cardinality(Now)
  BY <1>9, FS_RemoveElement
<1>11. IsFiniteSet(Now') /\ Cardinality(Now') <= Cardinality(Now \ {e})
  BY <1>8, <1>10, FS_Subset
<1>12. Cardinality(Now') \in Nat /\ Cardinality(Now) \in Nat /\ Cardinality(Now \ {e}) \in Nat
  BY <1>9, <1>10, <1>11, FS_CardinalityType
<1> QED BY <1>7, <1>9, <1>10, <1>11, <1>12

\* No step but its own send leaves a forward test less room, or more load.
RoomIsKept(f, side) == Load(f, side)' <= Load(f, side) /\ Room(f, side) <= Room(f, side)'

\* A step that leaves what the owner has, with no more that waits and no more that is open.
LEMMA SameRoom ==
    ASSUME TypeOK, TypeOK', NEW f \in ForwardTests, NEW side \in Sides,
           OwnedShares(f)' = OwnedShares(f), OwnedCash(f)' = OwnedCash(f),
           Bought(f)' \subseteq Bought(f), Sold(f)' \subseteq Sold(f),
           OpenShares(f, side)' <= OpenShares(f, side), OpenShares(f, side)' \in Nat
    PROVE  RoomIsKept(f, side)
<1>1. f \in Owners
  BY DEF Owners
<1>2. Owned(f, side)' = Owned(f, side) /\ Owned(f, side) \in Int /\ OpenShares(f, side) \in Nat
  BY <1>1, FundsAreCovered DEF Owned
<1>3. WaitingOf(f, side)' \subseteq WaitingOf(f, side) /\ IsFiniteSet(WaitingOf(f, side))
  BY UnrecordedType DEF WaitingOf
<1>4. Cardinality(WaitingOf(f, side)') <= Cardinality(WaitingOf(f, side))
      /\ Cardinality(WaitingOf(f, side)') \in Nat /\ Cardinality(WaitingOf(f, side)) \in Nat
  BY <1>3, FS_Subset, FS_CardinalityType
<1> QED BY <1>2, <1>4 DEF RoomIsKept, Room, Load

\* A fill takes from what the forward test has as much as from what is open, and a load stays a load.
LEMMA RoomAtFill ==
    ASSUME TypeOK, TypeOK', OrdersHaveOwners, NEW f \in ForwardTests, NEW side \in Sides,
           NEW i \in OrderIds, OrderFills(i)
    PROVE  RoomIsKept(f, side)
<1>1. UNCHANGED ledgerVars /\ UNCHANGED <<position, cash>> /\ OrdersGrow
  BY FillEffect DEF OrderFills, ledgerVars
<1>2. OpenShares(f, side)' \in Nat /\ OpenShares(f, side)' <= OpenShares(f, side)
  BY OpenSharesFill
<1>3. CASE orders[i].owner # f
  <2>1. ExecutionsOf(f)' = ExecutionsOf(f)
    BY <1>3, FillOfOther
  <2>2. Unrecorded(f)' = Unrecorded(f)
    BY <1>1, <2>1 DEF Unrecorded, ledgerVars
  <2> QED BY <1>1, <1>2, <2>1, <2>2, SameOwned, SameUnrecorded, SameRoom
<1>4. CASE orders[i].owner = f
  <2>1. PICK e : /\ Bought(f)' = IF orders[i].side = "BUY" THEN Bought(f) \cup {e} ELSE Bought(f)
                 /\ Sold(f)' = IF orders[i].side = "SELL" THEN Sold(f) \cup {e} ELSE Sold(f)
                 /\ e \notin Bought(f) /\ e \notin Sold(f)
    BY <1>4, FillWaits
  <2>2. orders[i].side \in Sides
    BY OrderIdsType DEF OrderType
  <2>3. /\ IsFiniteSet(Bought(f)) /\ IsFiniteSet(Sold(f))
        /\ Cardinality(Bought(f)) \in Nat /\ Cardinality(Sold(f)) \in Nat
    BY UnrecordedType
  <2>4. \A S : IsFiniteSet(S) /\ e \notin S => Cardinality(S \cup {e}) = Cardinality(S) + 1
    BY FS_AddElement
  <2>5. /\ Cardinality(Bought(f)') = Cardinality(Bought(f)) + IF orders[i].side = "BUY" THEN 1 ELSE 0
        /\ Cardinality(Sold(f)') = Cardinality(Sold(f)) + IF orders[i].side = "SELL" THEN 1 ELSE 0
    BY <2>1, <2>3, <2>4
  <2>6. f \in Owners /\ position[f] \in Int /\ cash[f] \in Int
    BY DEF TypeOK, Owners
  <2>7. /\ OwnedShares(f) = position[f] + (Cardinality(Bought(f)) - Cardinality(Sold(f)))
        /\ OwnedCash(f) = cash[f] - (Cardinality(Bought(f)) - Cardinality(Sold(f)))
        /\ OwnedShares(f)' = position[f] + (Cardinality(Bought(f)') - Cardinality(Sold(f)'))
        /\ OwnedCash(f)' = cash[f] - (Cardinality(Bought(f)') - Cardinality(Sold(f)'))
    BY <1>1, OwnedIs, OwnedIsNext
  <2>8. OpenShares(f, side) \in Nat /\ (orders[i].side = side => OpenShares(f, side)' <= OpenShares(f, side) - 1)
    BY <1>4, OpenSharesFill, OpenSharesType
  <2>9. CASE side = "BUY"
    <3>1. /\ Room(f, side) = OwnedCash(f) - OpenShares(f, side)
          /\ Room(f, side)' = OwnedCash(f)' - OpenShares(f, side)'
          /\ Load(f, side) = Cardinality(Bought(f)) + OpenShares(f, side)
          /\ Load(f, side)' = Cardinality(Bought(f)') + OpenShares(f, side)'
      BY <2>9 DEF Room, Load, Owned, WaitingOf
    <3> QED BY <1>2, <2>2, <2>3, <2>5, <2>6, <2>7, <2>8, <2>9, <3>1 DEF RoomIsKept, Sides
  <2>10. CASE side = "SELL"
    <3>1. /\ Room(f, side) = OwnedShares(f) - OpenShares(f, side)
          /\ Room(f, side)' = OwnedShares(f)' - OpenShares(f, side)'
          /\ Load(f, side) = Cardinality(Sold(f)) + OpenShares(f, side)
          /\ Load(f, side)' = Cardinality(Sold(f)') + OpenShares(f, side)'
      BY <2>10 DEF Room, Load, Owned, WaitingOf
    <3> QED BY <1>2, <2>2, <2>3, <2>5, <2>6, <2>7, <2>8, <2>10, <3>1 DEF RoomIsKept, Sides
  <2> QED BY <2>9, <2>10 DEF Sides
<1> QED BY <1>3, <1>4

\* An entry, of any owner.
LEMMA RoomAtBook ==
    ASSUME TypeOK, TypeOK', NEW f \in ForwardTests, NEW side \in Sides,
           NEW o \in Owners, NEW E \in SUBSET Unrecorded(o), Book(o, E), UNCHANGED orders
    PROVE  RoomIsKept(f, side)
<1>1. f \in Owners
  BY DEF Owners
<1>2. OwnedShares(f)' = OwnedShares(f) /\ OwnedCash(f)' = OwnedCash(f)
  BY <1>1, BookKeepsOwned
<1>3. Unrecorded(f)' \subseteq Unrecorded(f)
  BY SameOrders DEF Book, Unrecorded, ExecutionsOf
<1>4. Bought(f)' \subseteq Bought(f) /\ Sold(f)' \subseteq Sold(f)
  BY <1>3 DEF Bought, Sold
<1> QED BY <1>2, <1>4, OpenSharesShrink, SameRoom

\* Every step but the send of the forward test itself.
LEMMA RoomKept ==
    ASSUME LedgerInv, LedgerInv', Next, NEW f \in ForwardTests, NEW side \in Sides, at[f] # "idle",
           ~SendForForwardTest(f)
    PROVE  RoomIsKept(f, side)
<1>1. TypeOK /\ TypeOK' /\ OrdersHaveOwners /\ SeenByHand /\ stage[f] = "running" /\ f \in Owners
  BY DEF LedgerInv, ChildRuns, Owners
<1>2. ASSUME UNCHANGED ledgerVars, OrdersGrow, Executions' = Executions,
             OpenShares(f, side)' <= OpenShares(f, side), OpenShares(f, side)' \in Nat
      PROVE  RoomIsKept(f, side)
  <2>1. ExecutionsOf(f)' = ExecutionsOf(f)
    BY <1>1, <1>2, SameExecutions
  <2>2. Unrecorded(f)' = Unrecorded(f)
    BY <1>2, <2>1 DEF Unrecorded, ledgerVars
  <2> QED BY <1>1, <1>2, <2>1, <2>2, SameOwned, SameUnrecorded, SameRoom
<1>3. OrdersGrow
  BY <1>1, OrdersChange
<1>4. CASE UNCHANGED <<orders, ledgerVars>>
  <2>1. OpenShares(f, side)' <= OpenShares(f, side) /\ OpenShares(f, side)' \in Nat /\ Executions' = Executions
    BY <1>1, <1>4, OpenSharesShrink, SameOrders
  <2> QED BY <1>2, <1>3, <1>4, <2>1
<1>5. ASSUME NEW i \in OrderIds, OrderEnds(i) PROVE RoomIsKept(f, side)
  <2>1. OpenShares(f, side)' <= OpenShares(f, side) /\ OpenShares(f, side)' \in Nat /\ Executions' = Executions
        /\ UNCHANGED ledgerVars
    BY <1>1, <1>5, OpenSharesShrink, OrderEndsEffect DEF OrderEnds
  <2> QED BY <1>2, <1>3, <2>1
<1>6. ASSUME NEW q \in Checkers, PlaceOrder(q), UNCHANGED ledgerVars, OwnerOf(q) # f PROVE RoomIsKept(f, side)
  <2>1. OpenShares(f, side)' = OpenShares(f, side) /\ OpenShares(f, side)' \in Nat /\ OpenShares(f, side) \in Nat
    BY <1>1, <1>6, OpenSharesSend, OpenSharesType
  <2>2. Executions' = Executions
    BY <1>1, <1>6, NewOrder
  <2> QED BY <1>2, <1>3, <1>6, <2>1, <2>2
<1>7. ASSUME NEW r \in Requests, SendByHand(r) PROVE RoomIsKept(f, side)
  <2>1. r \in Checkers /\ OwnerOf(r) # f /\ PlaceOrder(r) /\ UNCHANGED ledgerVars
    BY <1>7, ConstantsAssumption DEF Checkers, OwnerOf, SendByHand
  <2> QED BY <1>6, <2>1
<1>8. ASSUME NEW g \in ForwardTests, SendForForwardTest(g) PROVE RoomIsKept(f, side)
  <2>1. g \in Checkers /\ g # f /\ OwnerOf(g) = g /\ PlaceOrder(g) /\ UNCHANGED ledgerVars
    BY <1>8, ConstantsAssumption DEF Checkers, OwnerOf, SendForForwardTest
  <2> QED BY <1>6, <2>1
<1>9. ASSUME NEW w \in Recorders, RecordFills(w) PROVE RoomIsKept(f, side)
  <2> DEFINE E == {e \in seen[w] \ recorded : e[1] \in manualOrders}
  <2>1. E \in SUBSET Unrecorded(ByHand) /\ Book(ByHand, E) /\ UNCHANGED orders
    BY <1>1, <1>9 DEF SeenByHand, Unrecorded, RecordFills, ibkrVars
  <2> HIDE DEF E
  <2> QED BY <1>1, <2>1, ByHandType, RoomAtBook
<1>10. ASSUME NEW g \in ForwardTests, SaveFill(g) PROVE RoomIsKept(f, side)
  <2>1. PICK e \in Unrecorded(g) \ held : Book(g, {e})
    BY <1>10 DEF SaveFill
  <2>2. {e} \in SUBSET Unrecorded(g) /\ g \in Owners /\ UNCHANGED orders
    BY <1>10, <2>1 DEF SaveFill, ibkrVars, Owners
  <2> QED BY <1>1, <2>1, <2>2, RoomAtBook
<1>11. ASSUME NEW g \in ForwardTests, StartForwardTest(g) \/ EndForwardTest(g) PROVE RoomIsKept(f, side)
  <2>1. g # f /\ f # ByHand /\ UNCHANGED <<orders, recorded>>
    BY <1>1, <1>11, ConstantsAssumption DEF StartForwardTest, EndForwardTest, EndAndTransfer, ibkrVars
  <2>2. position'[f] = position[f] /\ cash'[f] = cash[f] /\ position[f] \in Int /\ cash[f] \in Int
    <3>1. position \in [Owners -> Int] /\ cash \in [Owners -> Int]
      BY <1>1 DEF TypeOK
    <3> QED BY <1>1, <1>11, <2>1, <3>1 DEF StartForwardTest, EndForwardTest, EndAndTransfer
  <2>3. Bought(f)' = Bought(f) /\ Sold(f)' = Sold(f)
    BY <2>1, SameOrders DEF Bought, Sold, Unrecorded, ExecutionsOf
  <2>4. OwnedShares(f)' = OwnedShares(f) /\ OwnedCash(f)' = OwnedCash(f)
    BY <2>2, <2>3, OwnedIs, OwnedIsNext
  <2> QED BY <1>1, <2>1, <2>3, <2>4, OpenSharesShrink, SameRoom
<1>12. ASSUME NEW i \in OrderIds, OrderFills(i) PROVE RoomIsKept(f, side)
  BY <1>1, <1>12, RoomAtFill
<1>13. UNCHANGED orders \/ UNCHANGED ledgerVars
  <2>1. /\ \A r \in Requests : SendByHand(r) => UNCHANGED ledgerVars
        /\ \A g \in ForwardTests : SendForForwardTest(g) => UNCHANGED ledgerVars
        /\ \A i \in OrderIds : OrderFills(i) \/ OrderEnds(i) => UNCHANGED ledgerVars
    BY DEF SendByHand, SendForForwardTest, OrderFills, OrderEnds
  <2> QED BY <1>1, <2>1, OrdersChange
<1> QED BY <1>1, <1>4, <1>5, <1>7, <1>8, <1>9, <1>10, <1>11, <1>12, <1>13, OrdersChange, LedgerChange

\* The steps of the check of a forward test.
LEMMA CheckOf ==
    ASSUME LedgerInv, ChecksAreFunded, Next, NEW f \in ForwardTests
    PROVE  \/ IsKept(f) /\ ~SendForForwardTest(f)
           \/ at'[f] = "idle"
           \/ SubmitOrder(f)
           \/ ReadEntries(f) /\ at'[f] = "send"
<1>1. /\ f \in Checkers /\ f \notin Requests /\ f # Background /\ at[f] \in {"idle", "read_entries", "send"}
      /\ at \in [Checkers \cup {Background} -> Steps] /\ TypeOK
      /\ DOMAIN order = Checkers /\ DOMAIN funds = Checkers /\ DOMAIN open = Checkers
  BY ConstantsAssumption DEF LedgerInv, TypeOK, Checkers, ChecksAreFunded
<1>2. CASE SendForForwardTest(f) \/ CheckFails(f) \/ Refuse(f)
  BY <1>1, <1>2 DEF SendForForwardTest, CheckFails, Refuse, Finish, GoTo
<1>3. CASE ~SendForForwardTest(f) /\ (StartForwardTest(f) \/ SaveFill(f) \/ EndForwardTest(f))
  BY <1>3 DEF StartForwardTest, SaveFill, EndForwardTest, EndAndTransfer, processVars, IsKept
<1>4. CASE ReadEntries(f)
  BY <1>1, <1>4 DEF ReadEntries, GoTo
<1>5. ~ReadOpenOrders(f)
  BY <1>1 DEF ReadOpenOrders
<1>6. CASE ~SendForForwardTest(f) /\ WebRestarts
  BY <1>1, <1>6 DEF WebRestarts, IsKept
<1> QED BY <1>1, <1>2, <1>3, <1>4, <1>5, <1>6, StepOf DEF CheckStep, ForwardTestStep

\* At the start no check runs.
LEMMA ChecksAreFundedInit == ChecksInit => ChecksAreFunded
BY ConstantsAssumption DEF ChecksInit, Init, ChecksAreFunded, Checkers

\* The check begins with a load that is what it read, and its second read turns it into room.
LEMMA ChecksAreFundedStep == LedgerInv /\ LedgerInv' /\ ChecksAreFunded /\ [ChecksNext]_checksVars => ChecksAreFunded'
<1> SUFFICES ASSUME LedgerInv, LedgerInv', ChecksAreFunded, [ChecksNext]_checksVars PROVE ChecksAreFunded'
  OBVIOUS
<1>1. CASE UNCHANGED checksVars
  <2>1. UNCHANGED <<at, order, funds, open, settled, position, cash, recorded, orders>>
    BY <1>1 DEF checksVars, vars, ledgerVars, processVars, ibkrVars
  <2>2. \A o, side : Load(o, side)' = Load(o, side) /\ Room(o, side)' = Room(o, side)
    BY <2>1, SameOrders DEF Load, Room, Owned, WaitingOf, Bought, Sold, OwnedShares, OwnedCash, Change, Unrecorded,
       ExecutionsOf, OpenShares
  <2> QED BY <2>1, <2>2 DEF ChecksAreFunded
<1>2. CASE ChecksNext
  <2> SUFFICES ASSUME NEW f \in ForwardTests, NEW side \in Sides
               PROVE  /\ at'[f] \in {"idle", "read_entries", "send"}
                      /\ f \in settled' /\ order'[f].side = side =>
                            /\ at'[f] = "read_entries" => Load(f, side)' <= open'[f]
                            /\ at'[f] = "send" => funds'[f] - open'[f] <= Room(f, side)'
    BY DEF ChecksAreFunded, Sides
  <2>1. /\ Next /\ TypeOK /\ TypeOK' /\ f \in Checkers /\ f \in Owners /\ f \notin Requests /\ f # Background
        /\ OwnerOf(f) = f /\ at \in [Checkers \cup {Background} -> Steps]
    BY <1>2, ConstantsAssumption DEF ChecksNext, LedgerInv, TypeOK, Checkers, Owners, OwnerOf
  <2>2. f \in settled' => IF at[f] = "idle" /\ at'[f] # "idle" THEN Unrecorded(f) = {} ELSE f \in settled
    BY <1>2, <2>1 DEF ChecksNext, NoteSettled, Begins
  <2>3. order \in [Checkers -> [side : Sides, quantity : Nat, id : {0} \cup OrderIds]]
        /\ funds \in [Checkers -> Int] /\ open \in [Checkers -> Nat]
    BY <2>1 DEF TypeOK
  <2>4. /\ Load(f, side) \in Nat /\ Room(f, side) \in Int /\ Load(f, side)' \in Nat /\ Room(f, side)' \in Int
        /\ OpenShares(f, side) \in Nat
    BY <2>1, FundsAreCovered, NextRoomType
  <2>5. /\ at[f] \in {"idle", "read_entries", "send"}
        /\ f \in settled /\ order[f].side = side =>
              /\ at[f] = "read_entries" => Load(f, side) <= open[f]
              /\ at[f] = "send" => funds[f] - open[f] <= Room(f, side)
    BY DEF ChecksAreFunded
  <2>6. CASE IsKept(f) /\ ~SendForForwardTest(f) /\ at[f] # "idle"
    <3>1. RoomIsKept(f, side)
      BY <2>1, <2>6, RoomKept
    <3>2. funds[f] \in Int /\ open[f] \in Int
      BY <2>1, <2>3
    <3> QED BY <2>2, <2>4, <2>5, <2>6, <3>1, <3>2 DEF IsKept, RoomIsKept
  <2>7. CASE SubmitOrder(f)
    <3>1. /\ at[f] = "idle" /\ at'[f] = "read_entries" /\ UNCHANGED <<orders, ledgerVars>>
          /\ order'[f].side = side => open'[f] = OpenShares(f, side)
      BY <2>1, <2>3, <2>7 DEF SubmitOrder, GoTo, ibkrVars
    <3>2. f \in settled' => Load(f, side) = OpenShares(f, side)
      BY <2>1, <2>2, <3>1, NothingWaits
    <3>3. Load(f, side)' = Load(f, side)
      BY <3>1, SameOrders DEF Load, WaitingOf, Bought, Sold, Unrecorded, ExecutionsOf, OpenShares, ledgerVars
    <3> QED BY <2>4, <3>1, <3>2, <3>3
  <2>8. CASE ReadEntries(f) /\ at'[f] = "send"
    <3>1. /\ at[f] = "read_entries" /\ UNCHANGED <<orders, ledgerVars, open, order>>
          /\ order'[f].side = side => funds'[f] = LedgerFunds(f, side)
      BY <2>1, <2>3, <2>8 DEF ReadEntries, GoTo, ibkrVars
    <3>2. Room(f, side)' = Room(f, side)
      BY <3>1, SameOrders DEF Room, Owned, OwnedShares, OwnedCash, Change, Unrecorded, ExecutionsOf, OpenShares,
         ledgerVars
    <3>3. /\ LedgerFunds(f, side) <= Owned(f, side) + Cardinality(WaitingOf(f, side))
          /\ Cardinality(WaitingOf(f, side)) \in Nat /\ LedgerFunds(f, side) \in Int /\ Owned(f, side) \in Int
          /\ open[f] \in Int
      BY <2>1, <2>3, FundsAreCovered
    <3>4. f \in settled' /\ order'[f].side = side => Load(f, side) <= open[f]
      BY <2>2, <2>5, <3>1
    <3>5. f \in settled' /\ order'[f].side = side => LedgerFunds(f, side) - open[f] <= Room(f, side)
      BY <2>4, <3>3, <3>4 DEF Load, Room
    <3> QED BY <2>8, <3>1, <3>2, <3>5
  <2> QED BY <2>1, <2>5, <2>6, <2>7, <2>8, CheckOf DEF IsKept
<1> QED BY <1>1, <1>2

\* An order of a forward test is within what it has, with all executions and open orders in the count, at the time of
\* the send.
LEMMA SendsAreFundedStep ==
    LedgerInv /\ ChecksAreFunded /\ [ChecksNext]_checksVars => \A f \in ForwardTests : SendsAreFunded(f)
<1> SUFFICES ASSUME LedgerInv, ChecksAreFunded, [ChecksNext]_checksVars, NEW f \in ForwardTests,
                    Sends(f), f \in settled
             PROVE  order[f].quantity <= FundsOf(f) - OpenShares(OwnerOf(f), order[f].side)
  BY DEF SendsAreFunded
<1>1. /\ TypeOK /\ at[f] = "send" /\ at'[f] # "send" /\ Len(orders') > Len(orders) /\ Len(orders) \in Nat
      /\ orders'[Len(orders')].owner = OwnerOf(f)
      /\ f \in Checkers /\ f \in Owners /\ f \notin Requests /\ f # Background /\ OwnerOf(f) = f /\ f # ByHand
  BY ConstantsAssumption, OrderIdsType DEF Sends, LedgerInv, Checkers, Owners, OwnerOf
<1>2. Next
  BY <1>1 DEF ChecksNext, checksVars, vars, processVars
<1>3. \A q \in Checkers : PlaceOrder(q) => orders'[Len(orders')].owner = OwnerOf(q)
  <2> SUFFICES ASSUME NEW q \in Checkers, PlaceOrder(q) PROVE orders'[Len(orders')].owner = OwnerOf(q)
    OBVIOUS
  <2>1. orders'[Len(orders')] = [owner |-> OwnerOf(q), side |-> order[q].side,
                                 quantity |-> order[q].quantity, filled |-> 0, isOpen |-> TRUE]
    BY <1>1, NewOrder
  <2> QED BY <2>1
<1>4. PassesRule(f)
  <2>1. CASE UNCHANGED orders
    BY <1>1, <2>1
  <2>2. ASSUME NEW r \in Requests PROVE ~SendByHand(r)
    <3>1. SendByHand(r) => OwnerOf(r) = ByHand /\ r \in Checkers /\ PlaceOrder(r)
      BY ConstantsAssumption DEF SendByHand, OwnerOf, Checkers
    <3> QED BY <1>1, <1>3, <3>1
  <2>3. ASSUME NEW g \in ForwardTests, SendForForwardTest(g) PROVE PassesRule(f)
    <3>1. OwnerOf(g) = g /\ g \in Checkers /\ PlaceOrder(g)
      BY <2>3, ConstantsAssumption DEF SendForForwardTest, OwnerOf, Checkers
    <3>2. g = f
      BY <1>1, <1>3, <3>1
    <3> QED BY <3>1, <3>2 DEF PlaceOrder
  <2>4. ASSUME NEW i \in OrderIds PROVE ~OrderFills(i) /\ ~OrderEnds(i)
    <3>1. OrderFills(i) \/ OrderEnds(i) => OrderIds' = OrderIds
      BY <1>1, FillEffect, OrderEndsEffect
    <3>2. OrderIds = 1..Len(orders) /\ OrderIds' = 1..Len(orders') /\ Len(orders') \in Nat
      <4>1. orders' \in Seq(OrderType)
        BY <1>1, <1>2, OrdersChange
      <4> QED BY <4>1, <1>1 DEF OrderIds
    <3>3. Len(orders') \in OrderIds' /\ Len(orders') \notin OrderIds
      BY <1>1, <3>2
    <3> QED BY <3>1, <3>3
  <2> QED BY <1>1, <1>2, <2>1, <2>2, <2>3, <2>4, OrdersChange
<1>5. PICK side \in Sides : side = order[f].side
  BY <1>1 DEF TypeOK
<1>6. funds[f] - open[f] <= Room(f, side)
  BY <1>1, <1>5 DEF ChecksAreFunded
<1>7. Room(f, side) = FundsOf(f) - OpenShares(OwnerOf(f), order[f].side)
  BY <1>1, <1>5 DEF Room, Owned, FundsOf
<1>8. order[f].quantity \in Nat /\ funds[f] \in Int /\ open[f] \in Int /\ Room(f, side) \in Int
  <2>1. Room(f, side) \in Int
    BY <1>1, FundsAreCovered
  <2> QED BY <1>1, <2>1 DEF TypeOK
<1> QED BY <1>4, <1>6, <1>7, <1>8 DEF PassesRule

\* ForwardTestSendsAreFunded for any number of forward tests and orders, whatever fills, ends and entries come in the
\* middle of a check: read_open_orders before read_entries makes an execution count as open or as booked, and an
\* execution that is counted two times only makes the check stricter.
THEOREM ForwardTestSendsFunded == ChecksSpec => ForwardTestSendsAreFunded
<1> DEFINE Inv == LedgerInv /\ ChecksAreFunded
<1>1. ChecksInit => Inv
  BY InitLedgerInv, ChecksAreFundedInit DEF ChecksInit
<1>2. [ChecksNext]_checksVars => [Next]_vars
  BY DEF ChecksNext, checksVars
<1>3. Inv /\ [ChecksNext]_checksVars => Inv'
  BY <1>2, StepLedgerInv, ChecksAreFundedStep
<1>4. Inv /\ [ChecksNext]_checksVars => \A f \in ForwardTests : SendsAreFunded(f)
  BY SendsAreFundedStep
<1> QED BY <1>1, <1>3, <1>4, PTL DEF ChecksSpec, ForwardTestSendsAreFunded
=============================================================================
