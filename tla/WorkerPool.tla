------------------------------ MODULE WorkerPool ------------------------------
(***************************************************************************)
(* The worker pool of tracing/utils/concurrency.go: a bounded queue of     *)
(* tasks, workers that run them, a bounded channel of results, and a Stop  *)
(* that cancels the workers, waits for them and closes both channels.      *)
(* Every task is submitted by a goroutine of its own; one receiver reads   *)
(* the results until it loses patience, as the callers of                  *)
(* concurrency_test.go do; one goroutine starts and stops the pool.        *)
(***************************************************************************)
EXTENDS Naturals, Sequences, FiniteSets

CONSTANTS
    Workers,     \* the goroutines Start launches
    Tasks,       \* bound: tasks submitted
    BufferSize   \* of both channels

VARIABLES
    taskQueue,   \* tasks in the channel
    resultChan,  \* results in the channel
    submitter,   \* where the goroutine of each task is
    worker,      \* where each worker is
    task,        \* the task a worker runs
    started,     \* the flag of Start
    canceled,    \* ctx is done
    stop,        \* where Stop is
    receiving,   \* the receiver has not left
    received,    \* tasks whose result was received
    panicked     \* the use of a closed channel took the process down

vars == <<taskQueue, resultChan, submitter, worker, task, started, canceled, stop,
          receiving, received, panicked>>

NoTask == "none"
Closed == stop = "returned"
Lives == ~panicked

Init ==
    /\ taskQueue = <<>> /\ resultChan = <<>>
    /\ submitter = [t \in Tasks |-> "ready"]
    /\ worker = [w \in Workers |-> "none"]
    /\ task = [w \in Workers |-> NoTask]
    /\ started = FALSE /\ canceled = FALSE /\ stop = "none"
    /\ receiving = TRUE /\ received = {} /\ panicked = FALSE

\* Only the first call starts workers.
Start ==
    /\ Lives /\ stop # "waiting" /\ ~started
    /\ started' = TRUE
    /\ worker' = [w \in Workers |-> "select"]
    /\ UNCHANGED <<taskQueue, resultChan, submitter, task, canceled, stop, receiving,
                   received, panicked>>

\* A send into a full channel waits, and one into a closed channel panics, even
\* when it was waiting before the channel was closed.
Submit(t) ==
    /\ Lives /\ submitter[t] = "ready" /\ ~Closed
    /\ Len(taskQueue) < BufferSize
    /\ taskQueue' = Append(taskQueue, t)
    /\ submitter' = [submitter EXCEPT ![t] = "done"]
    /\ UNCHANGED <<resultChan, worker, task, started, canceled, stop, receiving, received, panicked>>

SubmitPanics(t) ==
    /\ Lives /\ submitter[t] = "ready" /\ Closed
    /\ panicked' = TRUE
    /\ UNCHANGED <<taskQueue, resultChan, submitter, worker, task, started, canceled, stop,
                   receiving, received>>

\* The select of the worker: with a task and a cancelled context it may do either.
TakeTask(w) ==
    /\ Lives /\ worker[w] = "select" /\ taskQueue # <<>>
    /\ worker' = [worker EXCEPT ![w] = "running"]
    /\ task' = [task EXCEPT ![w] = Head(taskQueue)]
    /\ taskQueue' = Tail(taskQueue)
    /\ UNCHANGED <<resultChan, submitter, started, canceled, stop, receiving, received, panicked>>

WorkerLeaves(w) ==
    /\ Lives /\ worker[w] = "select" /\ canceled
    /\ worker' = [worker EXCEPT ![w] = "done"]
    /\ UNCHANGED <<taskQueue, resultChan, submitter, task, started, canceled, stop, receiving,
                   received, panicked>>

\* The send of the result watches no context.
SendResult(w) ==
    /\ Lives /\ worker[w] = "running" /\ ~Closed
    /\ Len(resultChan) < BufferSize
    /\ resultChan' = Append(resultChan, task[w])
    /\ worker' = [worker EXCEPT ![w] = "select"]
    /\ task' = [task EXCEPT ![w] = NoTask]
    /\ UNCHANGED <<taskQueue, submitter, started, canceled, stop, receiving, received, panicked>>

\* After Stop: a pool started only then takes a nil task from the closed queue,
\* and the result of one that was left in it goes to a closed channel.
WorkerPanics(w) ==
    /\ Lives /\ Closed
    /\ \/ worker[w] = "running"
       \/ worker[w] = "select" /\ taskQueue = <<>>
    /\ panicked' = TRUE
    /\ UNCHANGED <<taskQueue, resultChan, submitter, worker, task, started, canceled, stop,
                   receiving, received>>

Receive ==
    /\ Lives /\ receiving /\ resultChan # <<>>
    /\ received' = received \cup {Head(resultChan)}
    /\ resultChan' = Tail(resultChan)
    /\ UNCHANGED <<taskQueue, submitter, worker, task, started, canceled, stop, receiving, panicked>>

\* A timeout of the receiver, or its return.
ReceiverLeaves ==
    /\ Lives /\ receiving
    /\ receiving' = FALSE
    /\ UNCHANGED <<taskQueue, resultChan, submitter, worker, task, started, canceled, stop,
                   received, panicked>>

StopBegins ==
    /\ Lives /\ stop = "none"
    /\ canceled' = TRUE /\ stop' = "waiting"
    /\ UNCHANGED <<taskQueue, resultChan, submitter, worker, task, started, receiving,
                   received, panicked>>

StopEnds ==
    /\ Lives /\ stop = "waiting"
    /\ \A w \in Workers : worker[w] \in {"none", "done"}
    /\ stop' = "returned"
    /\ UNCHANGED <<taskQueue, resultChan, submitter, worker, task, started, canceled, receiving,
                   received, panicked>>

\* A second Stop closes the channels again.
StopAgain ==
    /\ Lives /\ Closed
    /\ panicked' = TRUE
    /\ UNCHANGED <<taskQueue, resultChan, submitter, worker, task, started, canceled, stop,
                   receiving, received>>

Worker(w) == TakeTask(w) \/ WorkerLeaves(w) \/ SendResult(w) \/ WorkerPanics(w)

Next ==
    \/ Start \/ StopBegins \/ StopEnds \/ StopAgain \/ Receive \/ ReceiverLeaves
    \/ \E t \in Tasks : Submit(t) \/ SubmitPanics(t)
    \/ \E w \in Workers : Worker(w)

Spec == Init /\ [][Next]_vars

\* Goroutines run, tasks end, and a select does not pass a ready case over for
\* ever; nobody is obliged to stay for the results.
FairSpec ==
    /\ Spec /\ WF_vars(StopEnds)
    /\ \A w \in Workers : WF_vars(Worker(w)) /\ SF_vars(WorkerLeaves(w))

-----------------------------------------------------------------------------
(* Properties *)

\* What concurrency.go:406 says of Stop: it stops the pool, so a call of it
\* returns, unless the process goes down first.
StopReturns == stop = "waiting" ~> stop = "returned" \/ panicked
=============================================================================
