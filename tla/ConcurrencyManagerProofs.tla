---------------------- MODULE ConcurrencyManagerProofs ----------------------
(***************************************************************************)
(* What the ConcurrencyManager keeps for any number of operations, also an *)
(* unbounded one, and any capacity of the limiter: its three counts are    *)
(* each the number of the calls between two of their steps, so none leaks, *)
(* and a clean Shutdown has waited for the operations of its WaitGroup.    *)
(***************************************************************************)
EXTENDS ConcurrencyManager, FiniteSetTheorems, TLAPS

At(positions) == {o \in Operations : pc[o] \in positions}

\* The calls that hold a slot, that are counted as active, that are in the
\* WaitGroup.
Holders == At({"count", "add", "select", "release"})
Actives == At({"add", "select", "release", "uncount"})
Waited == At({"select", "release", "uncount", "done"})

\* Each counter counts its calls, of which there are finitely many even if the
\* calls to come are not.
SlotCountInv ==
    /\ IsFiniteSet(Holders) /\ rateLimiter = Cardinality(Holders)
    /\ IsFiniteSet(Actives) /\ activeOperations = Cardinality(Actives)
    /\ IsFiniteSet(Waited) /\ wg = Cardinality(Waited)

\* The operations Shutdown found have been in the WaitGroup, and have left it by
\* the time its goroutine has seen it empty.
DrainInv ==
    /\ \A o \in existing : Counted(o) \/ pc[o] = "returned"
    /\ waiter = "closed" => \A o \in existing : pc[o] = "returned"
    /\ shutdown = "clean" => waiter = "closed"

ManagerInv == ManagerTypeOK /\ SlotCountInv /\ DrainInv

-----------------------------------------------------------------------------
(* One call moves *)

\* A call that goes from one position to another enters the sets of the second
\* and leaves those of the first.
LEMMA CallMoves ==
    ASSUME ManagerTypeOK, NEW o \in Operations, NEW l \in Positions, Goto(o, l),
           NEW positions, IsFiniteSet(At(positions))
    PROVE  /\ IsFiniteSet(At(positions)')
           /\ (pc[o] \in positions <=> l \in positions)
                => Cardinality(At(positions)') = Cardinality(At(positions))
           /\ pc[o] \notin positions /\ l \in positions
                => Cardinality(At(positions)') = Cardinality(At(positions)) + 1
           /\ pc[o] \in positions /\ l \notin positions
                => Cardinality(At(positions)') = Cardinality(At(positions)) - 1
<1>1. pc' = [pc EXCEPT ![o] = l] /\ pc \in [Operations -> Positions]
    BY DEF Goto, ManagerTypeOK
<1>2. CASE pc[o] \in positions <=> l \in positions
    <2>1. At(positions)' = At(positions)
        BY <1>1, <1>2 DEF At
    <2> QED
        BY <1>2, <2>1
<1>3. CASE pc[o] \notin positions /\ l \in positions
    <2>1. At(positions)' = At(positions) \cup {o} /\ o \notin At(positions)
        BY <1>1, <1>3 DEF At
    <2> QED
        BY <1>3, <2>1, FS_AddElement
<1>4. CASE pc[o] \in positions /\ l \notin positions
    <2>1. At(positions)' = At(positions) \ {o} /\ o \in At(positions)
        BY <1>1, <1>4 DEF At
    <2> QED
        BY <1>4, <2>1, FS_RemoveElement
<1> QED
    BY <1>2, <1>3, <1>4

\* Steps that leave a call where it is leave the sets alone.
LEMMA Stays ==
    ASSUME SlotCountInv, UNCHANGED <<pc, limiterVars>>
    PROVE  SlotCountInv'
BY DEF SlotCountInv, Holders, Actives, Waited, At, limiterVars

\* The counters follow the sets.
LEMMA Counts ==
    ASSUME ManagerTypeOK, SlotCountInv, NEW o \in Operations, NEW l \in Positions, Goto(o, l),
           rateLimiter' = rateLimiter
             + (IF l \in {"count", "add", "select", "release"} THEN 1 ELSE 0)
             - (IF pc[o] \in {"count", "add", "select", "release"} THEN 1 ELSE 0),
           activeOperations' = activeOperations
             + (IF l \in {"add", "select", "release", "uncount"} THEN 1 ELSE 0)
             - (IF pc[o] \in {"add", "select", "release", "uncount"} THEN 1 ELSE 0),
           wg' = wg
             + (IF l \in {"select", "release", "uncount", "done"} THEN 1 ELSE 0)
             - (IF pc[o] \in {"select", "release", "uncount", "done"} THEN 1 ELSE 0)
    PROVE  SlotCountInv'
<1>1. rateLimiter \in Nat /\ activeOperations \in Nat /\ wg \in Nat
    BY ConcurrencyManagerAssumption DEF ManagerTypeOK
<1>2. IsFiniteSet(Holders') /\ rateLimiter' = Cardinality(Holders')
    BY <1>1, CallMoves DEF SlotCountInv, Holders
<1>3. IsFiniteSet(Actives') /\ activeOperations' = Cardinality(Actives')
    BY <1>1, CallMoves DEF SlotCountInv, Actives
<1>4. IsFiniteSet(Waited') /\ wg' = Cardinality(Waited')
    BY <1>1, CallMoves DEF SlotCountInv, Waited
<1> QED
    BY <1>2, <1>3, <1>4 DEF SlotCountInv

\* A call in a set is counted.
LEMMA CountedOnce ==
    ASSUME SlotCountInv, NEW o \in Operations
    PROVE  /\ o \in Holders => rateLimiter > 0
           /\ o \in Actives => activeOperations > 0
           /\ o \in Waited => wg > 0
<1>1. ASSUME NEW S, IsFiniteSet(S), o \in S PROVE Cardinality(S) > 0
    <2>1. Cardinality(S) \in Nat /\ Cardinality(S) # 0
        BY <1>1, FS_CardinalityType, FS_EmptySet
    <2> QED
        BY <2>1
<1> QED
    BY <1>1 DEF SlotCountInv

-----------------------------------------------------------------------------
(* The invariant *)

LEMMA InitManagerInv == ManagerInit => ManagerInv
<1> SUFFICES ASSUME ManagerInit PROVE ManagerInv
    OBVIOUS
<1>1. ManagerTypeOK
    BY ConcurrencyManagerAssumption DEF ManagerInit, ManagerTypeOK, Positions
<1>2. Holders = {} /\ Actives = {} /\ Waited = {}
    BY DEF ManagerInit, Holders, Actives, Waited, At
<1>3. SlotCountInv
    BY <1>2, FS_EmptySet DEF ManagerInit, SlotCountInv
<1>4. DrainInv
    BY DEF ManagerInit, DrainInv
<1> QED
    BY <1>1, <1>3, <1>4 DEF ManagerInv

LEMMA NextTypeOK == ManagerTypeOK /\ SlotCountInv /\ [ManagerNext]_managerVars => ManagerTypeOK'
<1> SUFFICES ASSUME ManagerTypeOK, SlotCountInv, [ManagerNext]_managerVars PROVE ManagerTypeOK'
    OBVIOUS
<1> USE DEF ManagerTypeOK, Positions, limiterVars, shutdownVars, Goto
<1>1. ASSUME NEW o \in Operations, EnterCall(o) \/ Expire(o) \/ FnEnds(o) PROVE ManagerTypeOK'
    BY <1>1 DEF EnterCall, Expire, FnEnds
<1>2. ASSUME NEW o \in Operations, AcquireOperation(o) PROVE ManagerTypeOK'
    <2>1. CASE TakeSlot(o)
        BY <2>1, ConcurrencyManagerAssumption DEF TakeSlot
    <2>2. CASE AcquireFails(o) \/ CountActive(o)
        BY <2>2 DEF AcquireFails, CountActive
    <2>3. CASE AddAndStart(o)
        BY <2>3 DEF AddAndStart
    <2> QED
        BY <1>2, <2>1, <2>2, <2>3 DEF AcquireOperation
<1>3. ASSUME NEW o \in Operations, SelectResult(o) \/ SelectTimeout(o) PROVE ManagerTypeOK'
    BY <1>3 DEF SelectResult, SelectTimeout
<1>4. ASSUME NEW o \in Operations, ReleaseOperation(o) PROVE ManagerTypeOK'
    <2>1. CASE FreeSlot(o)
        <3>1. rateLimiter > 0
            BY <2>1, CountedOnce DEF FreeSlot, Holders, At
        <3> QED
            BY <2>1, <3>1, ConcurrencyManagerAssumption DEF FreeSlot
    <2>2. CASE UncountActive(o)
        <3>1. activeOperations > 0
            BY <2>2, CountedOnce DEF UncountActive, Actives, At
        <3> QED
            BY <2>2, <3>1 DEF UncountActive
    <2>3. CASE Return(o)
        <3>1. wg > 0
            BY <2>3, CountedOnce DEF Return, Waited, At
        <3> QED
            BY <2>3, <3>1 DEF Return
    <2> QED
        BY <1>4, <2>1, <2>2, <2>3 DEF ReleaseOperation
<1>5. CASE ShutdownBegins \/ Shutdown
    BY <1>5 DEF ShutdownBegins, Shutdown, WaiterCloses, ShutdownReturns, ShutdownTimesOut
<1>6. CASE UNCHANGED managerVars
    BY <1>6 DEF managerVars
<1> QED
    BY <1>1, <1>2, <1>3, <1>4, <1>5, <1>6 DEF ManagerNext, ManagerEnds, ExecuteWithTimeout

LEMMA NextCountInv == ManagerTypeOK /\ SlotCountInv /\ [ManagerNext]_managerVars => SlotCountInv'
<1> SUFFICES ASSUME ManagerTypeOK, SlotCountInv, [ManagerNext]_managerVars PROVE SlotCountInv'
    OBVIOUS
<1>1. rateLimiter \in Nat /\ activeOperations \in Nat /\ wg \in Nat
    BY ConcurrencyManagerAssumption DEF ManagerTypeOK
<1>2. ASSUME NEW o \in Operations, EnterCall(o) PROVE SlotCountInv'
    BY <1>1, <1>2, Counts DEF EnterCall, limiterVars, Positions
<1>3. ASSUME NEW o \in Operations, Expire(o) \/ FnEnds(o) PROVE SlotCountInv'
    BY <1>3, Stays DEF Expire, FnEnds
<1>4. ASSUME NEW o \in Operations, AcquireOperation(o) PROVE SlotCountInv'
    <2>1. CASE TakeSlot(o)
        BY <1>1, <2>1, Counts DEF TakeSlot, Positions
    <2>2. CASE AcquireFails(o)
        BY <1>1, <2>2, Counts DEF AcquireFails, limiterVars, Positions
    <2>3. CASE CountActive(o)
        BY <1>1, <2>3, Counts DEF CountActive, Positions
    <2>4. CASE AddAndStart(o)
        BY <1>1, <2>4, Counts DEF AddAndStart, Positions
    <2> QED
        BY <1>4, <2>1, <2>2, <2>3, <2>4 DEF AcquireOperation
<1>5. ASSUME NEW o \in Operations, SelectResult(o) \/ SelectTimeout(o) PROVE SlotCountInv'
    BY <1>1, <1>5, Counts DEF SelectResult, SelectTimeout, limiterVars, Positions
<1>6. ASSUME NEW o \in Operations, ReleaseOperation(o) PROVE SlotCountInv'
    <2>1. CASE FreeSlot(o)
        BY <1>1, <2>1, Counts DEF FreeSlot, Positions
    <2>2. CASE UncountActive(o)
        BY <1>1, <2>2, Counts DEF UncountActive, Positions
    <2>3. CASE Return(o)
        BY <1>1, <2>3, Counts DEF Return, Positions
    <2> QED
        BY <1>6, <2>1, <2>2, <2>3 DEF ReleaseOperation
<1>7. CASE ShutdownBegins \/ Shutdown
    BY <1>7, Stays
    DEF ShutdownBegins, Shutdown, WaiterCloses, ShutdownReturns, ShutdownTimesOut
<1>8. CASE UNCHANGED managerVars
    BY <1>8, Stays DEF managerVars, limiterVars
<1> QED
    BY <1>2, <1>3, <1>4, <1>5, <1>6, <1>7, <1>8 DEF ManagerNext, ManagerEnds, ExecuteWithTimeout

\* A call in the WaitGroup stays there until it returns, and one that has
\* returned stays returned.
LEMMA CallsLeaveOnce ==
    ASSUME ManagerTypeOK, NEW p \in Operations, NEW o \in Operations,
           EnterCall(o) \/ Expire(o) \/ FnEnds(o) \/ ExecuteWithTimeout(o)
    PROVE  /\ Counted(p) \/ pc[p] = "returned" => Counted(p)' \/ pc'[p] = "returned"
           /\ pc[p] = "returned" => pc'[p] = "returned"
<1> USE DEF Counted, Goto, ManagerTypeOK
<1>1. CASE EnterCall(o) \/ Expire(o) \/ FnEnds(o)
    BY <1>1 DEF EnterCall, Expire, FnEnds
<1>2. CASE AcquireOperation(o)
    BY <1>2 DEF AcquireOperation, TakeSlot, AcquireFails, CountActive, AddAndStart
<1>3. CASE SelectResult(o) \/ SelectTimeout(o)
    BY <1>3 DEF SelectResult, SelectTimeout
<1>4. CASE ReleaseOperation(o)
    BY <1>4 DEF ReleaseOperation, FreeSlot, UncountActive, Return
<1> QED
    BY <1>1, <1>2, <1>3, <1>4 DEF ExecuteWithTimeout

LEMMA NextDrainInv == ManagerTypeOK /\ SlotCountInv /\ DrainInv /\ [ManagerNext]_managerVars => DrainInv'
<1> SUFFICES ASSUME ManagerTypeOK, SlotCountInv, DrainInv, [ManagerNext]_managerVars PROVE DrainInv'
    OBVIOUS
<1> USE DEF DrainInv
<1>1. ASSUME NEW o \in Operations, EnterCall(o) \/ Expire(o) \/ FnEnds(o) \/ ExecuteWithTimeout(o)
      PROVE  DrainInv'
    <2>1. UNCHANGED shutdownVars
        BY <1>1
        DEF EnterCall, Expire, FnEnds, ExecuteWithTimeout, AcquireOperation, TakeSlot, AcquireFails,
            CountActive, AddAndStart, SelectResult, SelectTimeout, ReleaseOperation, FreeSlot,
            UncountActive, Return
    <2>2. existing \subseteq Operations
        BY DEF ManagerTypeOK
    <2> QED
        BY <1>1, <2>1, <2>2, CallsLeaveOnce DEF shutdownVars
<1>2. CASE ShutdownBegins
    BY <1>2 DEF ShutdownBegins, Counted
<1>3. CASE WaiterCloses
    \* Nobody is in an empty WaitGroup.
    <2>1. Waited = {}
        BY <1>3, FS_EmptySet DEF WaiterCloses, SlotCountInv
    <2>2. \A o \in existing : pc[o] = "returned"
        BY <2>1 DEF ManagerTypeOK, Waited, At, Counted
    <2> QED
        BY <1>3, <2>2 DEF WaiterCloses, Counted
<1>4. CASE ShutdownReturns \/ ShutdownTimesOut
    BY <1>4 DEF ShutdownReturns, ShutdownTimesOut, Counted
<1>5. CASE UNCHANGED managerVars
    BY <1>5 DEF managerVars, Counted
<1> QED
    BY <1>1, <1>2, <1>3, <1>4, <1>5 DEF ManagerNext, ManagerEnds, Shutdown

-----------------------------------------------------------------------------
(* Theorems *)

\* The inductive invariant of the manager holds of every behaviour.
THEOREM Invariance == ManagerSpec => []ManagerInv
<1>1. ManagerInv /\ [ManagerNext]_managerVars => ManagerInv'
    BY NextTypeOK, NextCountInv, NextDrainInv DEF ManagerInv
<1> QED
    BY <1>1, InitManagerInv, PTL DEF ManagerSpec

\* Every variable keeps its type, and the limiter its capacity, whatever times
\* out when (concurrency.go:48-68).
THEOREM ManagerTypes == ManagerSpec => []ManagerTypeOK
<1>1. ManagerInv => ManagerTypeOK
    BY DEF ManagerInv
<1> QED
    BY <1>1, Invariance, PTL

\* When no call is under way, no slot is taken and nothing is counted: however
\* the calls timed out or were refused (concurrency.go:48-68, 155-175).
THEOREM LeakFree == ManagerSpec => []NothingLeaks
<1>1. ManagerInv => NothingLeaks
    <2> SUFFICES ASSUME ManagerInv, \A o \in Operations : pc[o] \in {"idle", "acquire", "returned"}
                 PROVE  rateLimiter = 0 /\ activeOperations = 0 /\ wg = 0
        BY DEF NothingLeaks
    <2>1. Holders = {} /\ Actives = {} /\ Waited = {}
        BY DEF Holders, Actives, Waited, At
    <2> QED
        BY <2>1, FS_EmptySet DEF ManagerInv, SlotCountInv
<1> QED
    BY <1>1, Invariance, PTL

\* activeOperations runs ahead of the slots by no more than the calls between
\* the two halves of ReleaseOperation (concurrency.go:64-68).
THEOREM ActiveBounded == ManagerSpec => []ActiveWithinLimit
<1>1. ManagerInv => ActiveWithinLimit
    <2> SUFFICES ASSUME ManagerInv PROVE ActiveWithinLimit
        OBVIOUS
    <2> DEFINE freed == {o \in Operations : pc[o] = "uncount"}
    <2>1. Actives \subseteq Holders \cup freed /\ freed \subseteq Actives
        BY DEF Holders, Actives, At
    <2>2. IsFiniteSet(Holders) /\ IsFiniteSet(Actives)
        BY DEF ManagerInv, SlotCountInv
    <2>3. IsFiniteSet(freed) /\ Cardinality(freed) \in Nat /\ Cardinality(Holders) \in Nat
        BY <2>1, <2>2, FS_Subset, FS_CardinalityType
    <2>4. Cardinality(Holders \cup freed) <= Cardinality(Holders) + Cardinality(freed)
          /\ IsFiniteSet(Holders \cup freed)
        <3> HIDE DEF freed
        <3>1. /\ IsFiniteSet(Holders \cup freed)
              /\ Cardinality(Holders \cup freed)
                   = Cardinality(Holders) + Cardinality(freed) - Cardinality(Holders \cap freed)
            BY <2>2, <2>3, FS_Union
        <3>2. Cardinality(Holders \cap freed) \in Nat
            BY <2>2, FS_Intersection, FS_CardinalityType
        <3> QED
            BY <2>3, <3>1, <3>2
    <2>5. Cardinality(Actives) <= Cardinality(Holders \cup freed)
        BY <2>1, <2>4, FS_Subset
    <2>6. Cardinality(Actives) \in Nat /\ Cardinality(Holders \cup freed) \in Nat
        BY <2>2, <2>4, FS_CardinalityType
    <2>7. Cardinality(Holders) <= MaxConcurrent /\ activeOperations = Cardinality(Actives)
        BY ConcurrencyManagerAssumption DEF ManagerInv, ManagerTypeOK, SlotCountInv
    <2> HIDE DEF freed
    <2>8. activeOperations <= MaxConcurrent + Cardinality(freed)
        BY <2>3, <2>4, <2>5, <2>6, <2>7, ConcurrencyManagerAssumption
    <2> QED
        BY <2>8 DEF ActiveWithinLimit, freed
<1> QED
    BY <1>1, Invariance, PTL

\* A Shutdown that reports success has waited for every operation that was in
\* the WaitGroup when it cancelled the context (concurrency.go:204-222).
THEOREM CleanShutdown == ManagerSpec => []CleanMeansDrained
<1>1. ManagerInv => CleanMeansDrained
    BY DEF ManagerInv, DrainInv, CleanMeansDrained
<1> QED
    BY <1>1, Invariance, PTL
-----------------------------------------------------------------------------
(* Refinement *)

\* Where a call is says whether its function has started, and its outcome is
\* decided, from what the function did, before it frees its slot.
CallInv ==
    \A o \in Operations :
        /\ pc[o] \in {"idle", "acquire", "count", "add"} => fn[o] = "off"
        /\ pc[o] \in {"select", "release"} => fn[o] # "off"
        /\ pc[o] = "release" => \/ outcome[o] = "timeout"
                                \/ outcome[o] = "answered" /\ fn[o] = "ended"

LEMMA NextCallInv == ManagerTypeOK /\ CallInv /\ [ManagerNext]_managerVars => CallInv'
<1> SUFFICES ASSUME ManagerTypeOK, CallInv, [ManagerNext]_managerVars PROVE CallInv'
    OBVIOUS
<1>1. ASSUME NEW o \in Operations, EnterCall(o) \/ AcquireOperation(o)
      PROVE  CallInv'
    BY <1>1 DEF EnterCall, AcquireOperation, TakeSlot, AcquireFails, CountActive, AddAndStart, Goto,
       ManagerTypeOK, CallInv
<1>2. ASSUME NEW o \in Operations, Expire(o) \/ FnEnds(o) \/ SelectResult(o) \/ SelectTimeout(o)
      PROVE  CallInv'
    BY <1>2 DEF Expire, FnEnds, SelectResult, SelectTimeout, Goto, ManagerTypeOK, CallInv
<1>3. ASSUME NEW o \in Operations, ReleaseOperation(o)
      PROVE  CallInv'
    BY <1>3 DEF ReleaseOperation, FreeSlot, UncountActive, Return, Goto, ManagerTypeOK, CallInv
<1>4. CASE ShutdownBegins \/ Shutdown \/ UNCHANGED managerVars
    BY <1>4 DEF ShutdownBegins, Shutdown, WaiterCloses, ShutdownReturns, ShutdownTimesOut, managerVars, CallInv
<1> QED
    BY <1>1, <1>2, <1>3, <1>4 DEF ManagerNext, ManagerEnds, ExecuteWithTimeout

LEMMA ContractInit == ManagerInit => Contract!Init
<1> SUFFICES ASSUME ManagerInit PROVE Contract!Init
    OBVIOUS
<1>1. CallStates = [o \in Operations |-> "waiting"] /\ Owed = {}
    BY DEF ManagerInit, CallStates, CallOf, Owed
<1>2. MaxConcurrent - rateLimiter = MaxConcurrent
    BY ConcurrencyManagerAssumption DEF ManagerInit
<1> QED
    BY <1>1, <1>2 DEF ManagerInit, Contract!Init

\* The call of one operation moves on, others and what is owed to them stay.
LEMMA OneCall ==
    ASSUME ManagerTypeOK, NEW o \in Operations,
           \A p \in Operations \ {o} : pc'[p] = pc[p] /\ outcome'[p] = outcome[p]
    PROVE  /\ \A c : CallOf(o)' = c => CallStates' = [CallStates EXCEPT ![o] = c]
           /\ CallOf(o)' = CallOf(o) => CallStates' = CallStates
           /\ existing' = existing =>
                 /\ (o \in existing /\ CallOf(o)' = "running" => CallOf(o) = "running")
                       => Owed' \subseteq Owed /\ Owed \ {o} \subseteq Owed'
                 /\ CallOf(o)' # "running" => o \notin Owed'
<1>1. \A p \in Operations \ {o} : CallOf(p)' = CallOf(p)
    BY DEF CallOf
<1>2. existing \subseteq Operations
    BY DEF ManagerTypeOK
<1> QED
    BY <1>1, <1>2 DEF CallStates, Owed

LEMMA ContractCall ==
    ASSUME ManagerInv, CallInv, NEW o \in Operations,
           EnterCall(o) \/ Expire(o) \/ FnEnds(o) \/ ExecuteWithTimeout(o)
    PROVE  [Contract!Next]_(Contract!vars)
<1>t. ManagerTypeOK /\ SlotCountInv /\ DrainInv
    BY DEF ManagerInv
<1>s. UNCHANGED <<shutdown, existing>>
    BY DEF EnterCall, Expire, FnEnds, ExecuteWithTimeout, AcquireOperation, TakeSlot, AcquireFails,
       CountActive, AddAndStart, SelectResult, SelectTimeout, ReleaseOperation, FreeSlot,
       UncountActive, Return, shutdownVars
<1>p. \A p \in Operations \ {o} : pc'[p] = pc[p] /\ outcome'[p] = outcome[p]
    BY <1>t DEF ManagerTypeOK, EnterCall, Expire, FnEnds, ExecuteWithTimeout, AcquireOperation, TakeSlot,
       AcquireFails, CountActive, AddAndStart, SelectResult, SelectTimeout, ReleaseOperation,
       FreeSlot, UncountActive, Return, Goto
<1>1. CASE \/ EnterCall(o) \/ Expire(o) \/ CountActive(o) \/ AddAndStart(o) \/ FnEnds(o)
           \/ SelectResult(o) \/ SelectTimeout(o) \/ UncountActive(o) \/ Return(o)
    <2>1. CallOf(o)' = CallOf(o)
        BY <1>1, <1>t DEF ManagerTypeOK, CallOf, EnterCall, Expire, CountActive, AddAndStart, FnEnds,
           SelectResult, SelectTimeout, UncountActive, Return, Goto
    <2>2. CallStates' = CallStates /\ rateLimiter' = rateLimiter
        BY <1>1, <1>t, <1>p, <2>1, OneCall DEF EnterCall, Expire, CountActive, AddAndStart, FnEnds,
           SelectResult, SelectTimeout, UncountActive, Return, limiterVars
    <2>3. Owed' = Owed
        <3>1. \A p \in Operations : CallOf(p)' = CallOf(p)
            BY <1>p, <2>1 DEF CallOf
        <3> QED
            BY <1>s, <1>t, <3>1 DEF Owed, ManagerTypeOK
    <2>4. CASE AddAndStart(o)
        <3>1. /\ CallStates[o] = "running" /\ fn[o] = "off"
              /\ fn' = [fn EXCEPT ![o] = "running"]
            BY <2>4 DEF AddAndStart, CallStates, CallOf, CallInv
        <3> QED
            BY <1>s, <2>2, <2>3, <3>1 DEF Contract!Next, Contract!Start
    <2>5. CASE FnEnds(o)
        BY <1>s, <2>2, <2>3, <2>5 DEF FnEnds, Contract!Next, Contract!End
    <2>6. CASE fn' = fn
        BY <1>s, <2>2, <2>3, <2>6 DEF Contract!vars
    <2> QED
        BY <1>1, <2>4, <2>5, <2>6 DEF EnterCall, Expire, CountActive, SelectResult, SelectTimeout,
           UncountActive, Return
<1>2. CASE TakeSlot(o)
    <2>1. CallOf(o) = "waiting" /\ CallOf(o)' = "running" /\ fn' = fn
        BY <1>2, <1>t DEF TakeSlot, CallOf, Goto, ManagerTypeOK
    <2>2. CallStates[o] = "waiting" /\ CallStates' = [CallStates EXCEPT ![o] = "running"]
        BY <1>t, <1>p, <2>1, OneCall DEF CallStates
    <2>3. o \notin existing
        BY <1>2, <1>t DEF TakeSlot, DrainInv, Counted
    <2>4. Owed' = Owed
        BY <1>t, <1>s, <1>p, <2>3, OneCall DEF Owed
    <2>5. /\ MaxConcurrent - rateLimiter > 0
          /\ MaxConcurrent - rateLimiter' = MaxConcurrent - rateLimiter - 1
        BY <1>2, <1>t, ConcurrencyManagerAssumption DEF TakeSlot, ManagerTypeOK
    <2> QED
        BY <1>s, <2>1, <2>2, <2>4, <2>5 DEF Contract!Next, Contract!Admit
<1>3. CASE AcquireFails(o)
    <2>1. CallOf(o) = "waiting" /\ CallOf(o)' = "refused" /\ fn' = fn
        BY <1>3, <1>t DEF AcquireFails, CallOf, Goto, ManagerTypeOK
    <2>2. CallStates[o] = "waiting" /\ CallStates' = [CallStates EXCEPT ![o] = "refused"]
        BY <1>t, <1>p, <2>1, OneCall DEF CallStates
    <2>3. Owed' = Owed /\ rateLimiter' = rateLimiter
        BY <1>3, <1>t, <1>s, <1>p, <2>1, OneCall DEF Owed, AcquireFails, limiterVars
    <2> QED
        BY <1>s, <2>1, <2>2, <2>3 DEF Contract!Next, Contract!Refuse
<1>4. CASE FreeSlot(o)
    <2>1. CallOf(o) = "running" /\ CallOf(o)' = outcome[o] /\ fn' = fn
        BY <1>4, <1>t DEF FreeSlot, CallOf, Goto, ManagerTypeOK
    <2>2. CallStates[o] = "running" /\ CallStates' = [CallStates EXCEPT ![o] = outcome[o]]
        BY <1>t, <1>p, <2>1, OneCall DEF CallStates
    <2>3. /\ fn[o] # "off"
          /\ \/ outcome[o] = "timeout"
             \/ outcome[o] = "answered" /\ fn[o] = "ended"
        BY <1>4 DEF FreeSlot, CallInv
    <2>4. Owed' = Owed \ {o}
        BY <1>t, <1>s, <1>p, <2>1, <2>3, OneCall
    <2>5. MaxConcurrent - rateLimiter' = MaxConcurrent - rateLimiter + 1
        BY <1>4, <1>t, ConcurrencyManagerAssumption DEF FreeSlot, ManagerTypeOK
    <2> QED
        BY <1>s, <2>1, <2>2, <2>3, <2>4, <2>5 DEF Contract!Next, Contract!Finish
<1> QED
    BY <1>1, <1>2, <1>3, <1>4 DEF ExecuteWithTimeout, AcquireOperation, ReleaseOperation

\* A step admits, refuses, starts, ends, finishes or drains, or leaves the
\* contract's view alone.
LEMMA ContractStep == ManagerInv /\ CallInv /\ [ManagerNext]_managerVars => [Contract!Next]_(Contract!vars)
<1> SUFFICES ASSUME ManagerInv, CallInv, [ManagerNext]_managerVars PROVE [Contract!Next]_(Contract!vars)
    OBVIOUS
<1>t. ManagerTypeOK /\ DrainInv
    BY DEF ManagerInv
<1>1. ASSUME NEW o \in Operations, EnterCall(o) \/ Expire(o) \/ FnEnds(o) \/ ExecuteWithTimeout(o)
      PROVE  [Contract!Next]_(Contract!vars)
    BY <1>1, ContractCall
<1>2. ASSUME UNCHANGED <<pc, fn, outcome>>
      PROVE  CallStates' = CallStates /\ \A o : CallOf(o)' = CallOf(o)
    BY <1>2 DEF CallStates, CallOf
<1>3. CASE ShutdownBegins
    <2>1. UNCHANGED <<pc, fn, outcome>> /\ shutdown = "no" /\ shutdown' = "waiting"
          /\ existing' = {o \in Operations : Counted(o)} /\ rateLimiter' = rateLimiter
        BY <1>3 DEF ShutdownBegins, limiterVars
    <2>2. Owed' = {o \in Operations : CallStates[o] = "running" /\ fn[o] # "off"}
        <3>1. Owed' = {o \in existing' : CallOf(o) = "running"}
            BY <1>2, <2>1 DEF Owed
        <3>2. \A o \in Operations :
                Counted(o) /\ CallOf(o) = "running" <=> CallStates[o] = "running" /\ fn[o] # "off"
            BY <1>t DEF Counted, CallOf, CallStates, CallInv, ManagerTypeOK, Positions
        <3> QED
            BY <2>1, <3>1, <3>2
    <2> QED
        BY <1>2, <2>1, <2>2 DEF Contract!Next, Contract!BeginShutdown
<1>4. CASE Shutdown \/ UNCHANGED managerVars
    <2>1. UNCHANGED <<pc, fn, outcome, existing, rateLimiter>>
        BY <1>4 DEF Shutdown, WaiterCloses, ShutdownReturns, ShutdownTimesOut, managerVars, limiterVars
    <2>2. CallStates' = CallStates /\ Owed' = Owed
        BY <1>2, <2>1 DEF Owed
    <2>3. shutdown' = shutdown \/ (shutdown = "waiting" /\ shutdown' \in {"clean", "timeout"})
        BY <1>4 DEF Shutdown, WaiterCloses, ShutdownReturns, ShutdownTimesOut, managerVars
    <2>4. shutdown = "waiting" /\ shutdown' = "clean" => Owed = {}
        <3> SUFFICES ASSUME shutdown = "waiting", shutdown' = "clean" PROVE Owed = {}
            OBVIOUS
        <3>1. waiter = "closed"
            BY <1>4 DEF Shutdown, WaiterCloses, ShutdownReturns, ShutdownTimesOut, managerVars
        <3>2. \A o \in existing : pc[o] = "returned" /\ outcome[o] # "running"
            BY <1>t, <3>1 DEF DrainInv, ManagerTypeOK
        <3> QED
            BY <3>2 DEF Owed, CallOf
    <2> QED
        BY <2>1, <2>2, <2>3, <2>4 DEF Contract!Next, Contract!EndShutdown, Contract!vars
<1> QED
    BY <1>1, <1>3, <1>4 DEF ManagerNext, ManagerEnds

\* The manager implements SlotContract, for any operations and limit: no more
\* calls run at a time than there are slots, none answers before its function
\* has ended, and when a shutdown succeeds the calls whose functions had started
\* before it began are gone (concurrency.go:155-222).
THEOREM Refinement == ManagerSpec => ImplementsContract
<1>1. ManagerInit => CallInv
    BY DEF ManagerInit, CallInv
<1>2. ManagerSpec => Contract!Init /\ [][Contract!Next]_(Contract!vars)
    <2>1. ManagerInv => ManagerTypeOK
        BY DEF ManagerInv
    <2> QED
        BY <1>1, <2>1, NextCallInv, ContractInit, ContractStep, Invariance, PTL DEF ManagerSpec
<1> QED
    BY <1>2 DEF ImplementsContract, Contract!Spec

=============================================================================
