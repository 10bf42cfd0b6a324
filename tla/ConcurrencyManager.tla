------------------------- MODULE ConcurrencyManager -------------------------
(***************************************************************************)
(* The ConcurrencyManager of tracing/utils/concurrency.go: operations that *)
(* each run one function through ExecuteWithTimeout, which takes a slot of *)
(* the rate limiter, runs the function in a goroutine of its own, and      *)
(* leaves when it has answered or the context is done; and one Shutdown,   *)
(* which cancels the manager's context and waits for the operations.       *)
(* AcquireOperation and ReleaseOperation are several steps each: the slot, *)
(* the counter and the WaitGroup change one after the other.               *)
(***************************************************************************)
EXTENDS Naturals, FiniteSets

CONSTANTS
    Operations,     \* identities of the calls of ExecuteWithTimeout
    MaxConcurrent   \* capacity of rateLimiter

ASSUME ConcurrencyManagerAssumption == MaxConcurrent \in Nat \ {0}

VARIABLES
    pc,                \* [Operations -> where the call is]
    fn,                \* [Operations -> the goroutine of the function]
    expired,           \* the operations whose own timeout has passed
    outcome,           \* [Operations -> what ExecuteWithTimeout returns]
    rateLimiter,       \* slots taken
    activeOperations,  \* the atomic counter
    wg,                \* the WaitGroup's counter
    shutdown,          \* Shutdown: "no", "waiting", "clean", "timeout"
    waiter,            \* its goroutine: "off", "waiting", "closed" (close(done))
    existing           \* history: the operations counted in wg when ctx was cancelled

limiterVars == <<rateLimiter, activeOperations, wg>>
shutdownVars == <<shutdown, waiter, existing>>
managerVars == <<pc, fn, expired, outcome, rateLimiter, activeOperations, wg,
          shutdown, waiter, existing>>

Positions == {"idle", "acquire", "count", "add", "select",
              "release", "uncount", "done", "returned"}

\* cm.ctx is done; ctx is derived from it with the timeout.
Canceled == shutdown # "no"
ContextDone(o) == Canceled \/ o \in expired

Goto(o, l) == pc' = [pc EXCEPT ![o] = l]

-----------------------------------------------------------------------------
(* ExecuteWithTimeout *)

EnterCall(o) ==
    /\ pc[o] = "idle"
    /\ Goto(o, "acquire")
    /\ UNCHANGED <<fn, expired, outcome, limiterVars, shutdownVars>>

Expire(o) ==
    /\ pc[o] \notin {"idle", "returned"}
    /\ o \notin expired
    /\ expired' = expired \cup {o}
    /\ UNCHANGED <<pc, fn, outcome, limiterVars, shutdownVars>>

\* Bug form: the limiter does not block.
TakeSlotUnbounded(o) ==
    /\ pc[o] = "acquire"
    /\ rateLimiter' = rateLimiter + 1
    /\ Goto(o, "count")
    /\ UNCHANGED <<fn, expired, outcome, activeOperations, wg, shutdownVars>>

\* AcquireOperation: the select takes a free slot, also when the context is
\* done, ...
TakeSlot(o) ==
    /\ pc[o] = "acquire"
    /\ rateLimiter < MaxConcurrent
    /\ rateLimiter' = rateLimiter + 1
    /\ Goto(o, "count")
    /\ UNCHANGED <<fn, expired, outcome, activeOperations, wg, shutdownVars>>

\* ...or returns the context's error, also when a slot is free.
AcquireFails(o) ==
    /\ pc[o] = "acquire"
    /\ ContextDone(o)
    /\ outcome' = [outcome EXCEPT ![o] = "refused"]
    /\ Goto(o, "returned")
    /\ UNCHANGED <<fn, expired, limiterVars, shutdownVars>>

CountActive(o) ==
    /\ pc[o] = "count"
    /\ activeOperations' = activeOperations + 1
    /\ Goto(o, "add")
    /\ UNCHANGED <<fn, expired, outcome, rateLimiter, wg, shutdownVars>>

\* wg.Add(1), and the function starts.
AddAndStart(o) ==
    /\ pc[o] = "add"
    /\ wg' = wg + 1
    /\ fn' = [fn EXCEPT ![o] = "running"]
    /\ Goto(o, "select")
    /\ UNCHANGED <<expired, outcome, rateLimiter, activeOperations, shutdownVars>>

\* The function returns or panics; its answer goes to errChan, which has room.
FnEnds(o) ==
    /\ fn[o] = "running"
    /\ fn' = [fn EXCEPT ![o] = "ended"]
    /\ UNCHANGED <<pc, expired, outcome, limiterVars, shutdownVars>>

SelectResult(o) ==
    /\ pc[o] = "select"
    /\ fn[o] = "ended"
    /\ outcome' = [outcome EXCEPT ![o] = "answered"]
    /\ Goto(o, "release")
    /\ UNCHANGED <<fn, expired, limiterVars, shutdownVars>>

\* Bug form: the select watches the manager's context, not the one with the timeout.
SelectCanceledOnly(o) ==
    /\ pc[o] = "select"
    /\ Canceled
    /\ outcome' = [outcome EXCEPT ![o] = "timeout"]
    /\ Goto(o, "release")
    /\ UNCHANGED <<fn, expired, limiterVars, shutdownVars>>

\* Nobody tells the function: it goes on without its slot.
SelectTimeout(o) ==
    /\ pc[o] = "select"
    /\ ContextDone(o)
    /\ outcome' = [outcome EXCEPT ![o] = "timeout"]
    /\ Goto(o, "release")
    /\ UNCHANGED <<fn, expired, limiterVars, shutdownVars>>

\* Bug form: the slot of a call that timed out is not given back.
FreeSlotUnlessTimeout(o) ==
    /\ pc[o] = "release"
    /\ rateLimiter' = IF outcome[o] = "timeout" THEN rateLimiter ELSE rateLimiter - 1
    /\ Goto(o, "uncount")
    /\ UNCHANGED <<fn, expired, outcome, activeOperations, wg, shutdownVars>>

\* The deferred ReleaseOperation.
FreeSlot(o) ==
    /\ pc[o] = "release"
    /\ rateLimiter' = rateLimiter - 1
    /\ Goto(o, "uncount")
    /\ UNCHANGED <<fn, expired, outcome, activeOperations, wg, shutdownVars>>

UncountActive(o) ==
    /\ pc[o] = "uncount"
    /\ activeOperations' = activeOperations - 1
    /\ Goto(o, "done")
    /\ UNCHANGED <<fn, expired, outcome, rateLimiter, wg, shutdownVars>>

Return(o) ==
    /\ pc[o] = "done"
    /\ wg' = wg - 1
    /\ Goto(o, "returned")
    /\ UNCHANGED <<fn, expired, outcome, rateLimiter, activeOperations, shutdownVars>>

-----------------------------------------------------------------------------
(* Shutdown *)

Counted(o) == pc[o] \in {"select", "release", "uncount", "done"}

\* cm.cancel(), and the goroutine that waits.
ShutdownBegins ==
    /\ shutdown = "no"
    /\ shutdown' = "waiting"
    /\ waiter' = "waiting"
    /\ existing' = {o \in Operations : Counted(o)}
    /\ UNCHANGED <<pc, fn, expired, outcome, limiterVars>>

\* Bug form: the operations are counted in the limiter instead of the WaitGroup.
WaiterClosesOnFreeLimiter ==
    /\ waiter = "waiting"
    /\ rateLimiter = 0
    /\ waiter' = "closed"
    /\ UNCHANGED <<pc, fn, expired, outcome, limiterVars, shutdown, existing>>

\* cm.wg.Wait(); close(done).
WaiterCloses ==
    /\ waiter = "waiting"
    /\ wg = 0
    /\ waiter' = "closed"
    /\ UNCHANGED <<pc, fn, expired, outcome, limiterVars, shutdown, existing>>

ShutdownReturns ==
    /\ shutdown = "waiting"
    /\ waiter = "closed"
    /\ shutdown' = "clean"
    /\ UNCHANGED <<pc, fn, expired, outcome, limiterVars, waiter, existing>>

ShutdownTimesOut ==
    /\ shutdown = "waiting"
    /\ shutdown' = "timeout"
    /\ UNCHANGED <<pc, fn, expired, outcome, limiterVars, waiter, existing>>

-----------------------------------------------------------------------------

ManagerInit ==
    /\ pc = [o \in Operations |-> "idle"]
    /\ fn = [o \in Operations |-> "off"]
    /\ expired = {}
    /\ outcome = [o \in Operations |-> "none"]
    /\ rateLimiter = 0 /\ activeOperations = 0 /\ wg = 0
    /\ shutdown = "no" /\ waiter = "off" /\ existing = {}

AcquireOperation(o) == TakeSlot(o) \/ AcquireFails(o) \/ CountActive(o) \/ AddAndStart(o)
ReleaseOperation(o) == FreeSlot(o) \/ UncountActive(o) \/ Return(o)
ExecuteWithTimeout(o) ==
    AcquireOperation(o) \/ SelectResult(o) \/ SelectTimeout(o) \/ ReleaseOperation(o)
Shutdown == WaiterCloses \/ ShutdownReturns \/ ShutdownTimesOut

\* Every call has returned, and the Shutdown.
ManagerEnds ==
    /\ \A o \in Operations : pc[o] = "returned"
    /\ shutdown \in {"clean", "timeout"} /\ waiter = "closed"
    /\ UNCHANGED managerVars

ManagerNext ==
    \/ \E o \in Operations : EnterCall(o) \/ Expire(o) \/ FnEnds(o) \/ ExecuteWithTimeout(o)
    \/ ShutdownBegins \/ Shutdown \/ ManagerEnds

ManagerSpec == ManagerInit /\ [][ManagerNext]_managerVars

\* A call that can go on does, and timeouts fire; a function may run for ever.
ManagerFairness ==
    /\ \A o \in Operations : WF_managerVars(ExecuteWithTimeout(o)) /\ WF_managerVars(Expire(o))
    /\ WF_managerVars(Shutdown)

-----------------------------------------------------------------------------
(* Properties *)

\* The type invariant; the limiter keeps within its capacity.
ManagerTypeOK ==
    /\ pc \in [Operations -> Positions]
    /\ fn \in [Operations -> {"off", "running", "ended"}]
    /\ expired \subseteq Operations
    /\ outcome \in [Operations -> {"none", "refused", "answered", "timeout"}]
    /\ rateLimiter \in 0..MaxConcurrent
    /\ activeOperations \in Nat /\ wg \in Nat
    /\ shutdown \in {"no", "waiting", "clean", "timeout"}
    /\ waiter \in {"off", "waiting", "closed"}
    /\ existing \subseteq Operations

\* The three counts of the operations under way, kept apart and changed one
\* after the other, are all back at zero when no call is (concurrency.go:48-68):
\* no path through the timeout leaks a slot.
NothingLeaks ==
    (\A o \in Operations : pc[o] \in {"idle", "acquire", "returned"})
        => rateLimiter = 0 /\ activeOperations = 0 /\ wg = 0

\* activeOperations overstates the slots taken by no more than the calls that
\* have freed theirs and not yet counted down (concurrency.go:64-68).
ActiveWithinLimit ==
    activeOperations <= MaxConcurrent + Cardinality({o \in Operations : pc[o] = "uncount"})

\* A Shutdown that reports success waited for every operation that had joined the
\* WaitGroup when it cancelled the context (concurrency.go:54, 206-217).  One that
\* holds its slot and has not joined is not waited for: it says nothing of it.
CleanMeansDrained ==
    shutdown = "clean" => \A o \in existing : pc[o] = "returned"

\* Every call returns, however long its function runs (concurrency.go:166-174).
CallReturns ==
    \A o \in Operations : pc[o] = "acquire" ~> pc[o] = "returned"

\* What concurrency.go:205 says of the cancelled context: it stops new
\* operations, so none takes a slot afterwards.
NoNewOperations ==
    [][\A o \in Operations : Canceled /\ pc[o] = "acquire" => pc'[o] # "count"]_managerVars

-----------------------------------------------------------------------------
(* What a caller may rely on *)

\* A call runs from the slot it takes to the slot it gives back; its outcome is
\* decided before, and stands after.
CallOf(o) ==
    IF pc[o] \in {"idle", "acquire"} THEN "waiting"
    ELSE IF pc[o] \in {"count", "add", "select", "release"} THEN "running"
    ELSE outcome[o]
CallStates == [o \in Operations |-> CallOf(o)]
Owed == {o \in existing : CallOf(o) = "running"}

\* The refinement mapping.
Contract == INSTANCE SlotContract WITH
    Slots <- MaxConcurrent, free <- MaxConcurrent - rateLimiter,
    call <- CallStates, function <- fn, drain <- shutdown, owed <- Owed

\* The manager implements SlotContract: three counts that are changed one after
\* the other, a select between a slot and a context and one between an outcome and
\* a timeout, and a waiter on the WaitGroup come to a semaphore with a drain
\* (concurrency.go:48-68, 155-222).
ImplementsContract == Contract!Spec

=============================================================================
