------------------------- MODULE MutationCollection -------------------------
(***************************************************************************)
(* ReplayAndCollectMutations and ReplayAndSendMutations of the attack      *)
(* replayer (tracing/replay/txReplayer.go) on the execution engine         *)
(* (tracing/core/execution_engine.go): the attack transaction is executed  *)
(* once as it was, then batch after batch of candidates is executed, every *)
(* candidate of a batch in a goroutine of its own, all of them recording   *)
(* through the one JumpTracer.                                             *)
(*                                                                         *)
(* The EVM is external: an attack comes with the frames it enters and the  *)
(* jump each of them takes, which depends on the input the frame gets.     *)
(* The jump tracer is not locked; a hook is one step here, and a jump      *)
(* appended while another execution appends may be lost.                   *)
(***************************************************************************)
EXTENDS StepMutation, JumpTracer

CONSTANTS
    Protected,        \* the protected contract
    Router,           \* a contract of the attacker
    Attacks,          \* the attack transactions: [to, input, calls, storage]
    TotalCandidates,  \* totalCandidates: 50 in the code
    BatchSize,        \* batchSize: 10 in the code
    Threshold         \* similarityThreshold, in percent

ASSUME CollectionAssumption ==
    /\ Protected # Router /\ NoContract \notin {Protected, Router}
    /\ TotalCandidates \in Nat \ {0} /\ BatchSize \in Nat \ {0}
    /\ Threshold \in 0..100
    /\ \A a \in Attacks : /\ a.to \in {Protected, Router}
                            /\ a.calls \in Seq({a.calls[k] : k \in 1..Len(a.calls)})
                            /\ IsFiniteSet(DOMAIN a.storage)

VARIABLES
    attack,      \* the transaction, the calls it makes and the protected storage
    stage,       \* where ReplayAndSendMutations is
    tracer,      \* the JumpTracer
    paths,       \* the ExecutionPath objects
    candidates,  \* the candidates of the batch
    runs,        \* the executions: 0 the original, i the goroutine of candidate i
    mutations,   \* mutationCollection.Mutations
    successful,  \* mutationCollection.SuccessfulMutations, by index in Mutations
    mixed        \* history: the executions that overlapped another one

collectVars == <<attack, stage, tracer, paths, candidates, runs, mutations, successful, mixed>>

Original == 0
Executions == 0..BatchSize
Idle == [at |-> "idle", hook |-> 0, path |-> 0,
         similarity |-> [num |-> 0, den |-> 1], success |-> FALSE]
Inside(r) == runs[r].at \in {"targeted", "started", "running", "returned"}
Least(a, b) == IF a < b THEN a ELSE b

\* extractProtectedContractCalls: the first call to the protected contract in
\* the trace, depth first, that has input.
ExtractedCall ==
    LET frames == <<[to |-> attack.to, input |-> attack.input]>> \o attack.calls
        found == {k \in DOMAIN frames : frames[k].to = Protected /\ frames[k].input # <<>>}
    IN  IF found = {} THEN NoInput ELSE frames[Min(found)].input

\* The EVM: the hooks an execution calls, given the input of the top call.
Branch(input) == IF Len(input) <= SelectorBytes THEN 0 ELSE FromBytes(Params(input)) % 4
Enter(to, depth) == [hook |-> "enter", to |-> to, depth |-> depth]
Jump(contract, input, depth) ==
    [hook |-> "jump", jump |-> <<contract, Branch(input)>>, depth |-> depth]
Leave(depth) == [hook |-> "exit", depth |-> depth]
Hooks(a, input) ==
    LET nested(c) == <<Enter(c.to, 1), Jump(c.to, c.input, 2), Leave(1)>>
    IN  <<Enter(a.to, 0)>> \o FlattenSeq([k \in 1..Len(a.calls) |-> nested(a.calls[k])])
          \o <<Jump(a.to, input, 1), Leave(0)>>

\* The targetCalls of an execution: an input (nil for none) per target contract.
TargetCalls(r) ==
    IF r = Original THEN [c \in {Protected} |-> NoInput]
    ELSE IF candidates[r].input = NoInput THEN <<>>
    ELSE LET target == IF ExtractedCall # NoInput THEN Protected ELSE attack.to
         IN  [c \in {target} |-> candidates[r].input]

\* InterceptingEVM.Call: only the top call goes through it, the interpreter
\* makes the nested ones on the EVM inside.
Intercepted(r) == attack.to \in DOMAIN TargetCalls(r)
EffectiveInput(r) ==
    IF Intercepted(r) /\ TargetCalls(r)[attack.to] # NoInput
    THEN TargetCalls(r)[attack.to] ELSE attack.input

CollectInit ==
    /\ attack \in Attacks
    /\ stage = "fetch"
    /\ tracer = NewJumpTracer
    /\ paths = [p \in 0..(TotalCandidates + 1) |-> <<>>]
    /\ candidates = <<>> /\ mutations = <<>> /\ successful = {} /\ mixed = {}
    /\ runs = [r \in Executions |-> Idle]

\* Transaction, call trace, prestate, receipt, block and chain id are there.
Fetch ==
    /\ stage = "fetch"
    /\ stage' = "original"
    /\ runs' = [runs EXCEPT ![Original].at = "forked"]
    /\ UNCHANGED <<attack, tracer, paths, candidates, mutations, successful, mixed>>

\* One of them is not, and the call returns its error.
FetchFails ==
    /\ stage = "fetch"
    /\ stage' = "failed"
    /\ UNCHANGED <<attack, tracer, paths, candidates, runs, mutations, successful, mixed>>
-----------------------------------------------------------------------------
(* ExecuteWithInterceptedCalls.                                            *)

Step(r, from, to) == runs[r].at = from /\ runs' = [runs EXCEPT ![r].at = to]
KeepCollection == UNCHANGED <<attack, stage, candidates, mutations, successful>>

\* The state is created and the tracer gets its target, if there is a target call.
SetTarget(r) ==
    /\ Step(r, "forked", "targeted")
    /\ tracer' = IF TargetCalls(r) = <<>> THEN tracer
                 ELSE SetTargetContract(tracer, CHOOSE c \in DOMAIN TargetCalls(r) : TRUE)
    /\ LET others == {q \in Executions \ {r} : Inside(q)}
       IN  mixed' = IF others = {} THEN mixed ELSE mixed \cup others \cup {r}
    /\ KeepCollection /\ UNCHANGED paths

\* Creating the state or the EVM fails.
ExecutionFails(r) ==
    /\ runs[r].at = "forked"
    /\ IF r = Original
       THEN stage' = "failed" /\ runs' = [runs EXCEPT ![r].at = "idle"]
       ELSE stage' = stage /\ runs' = [runs EXCEPT ![r].at = "measured"]
    /\ UNCHANGED <<attack, tracer, paths, candidates, mutations, successful, mixed>>

Trace(r) ==
    /\ Step(r, "targeted", "started")
    /\ tracer' = StartTrace(tracer, IF r = Original THEN 1 ELSE Len(mutations) + r + 1)
    /\ KeepCollection /\ UNCHANGED <<paths, mixed>>

\* The top call; hook number 1 of the EVM is next.
Call(r) ==
    /\ runs[r].at = "started"
    /\ runs' = [runs EXCEPT ![r].at = "running", ![r].hook = 1]
    /\ tracer' = IF Intercepted(r) THEN OnTargetContractCalled(tracer, attack.to) ELSE tracer
    /\ KeepCollection /\ UNCHANGED <<paths, mixed>>

\* The outcomes of an append to the tracer's path.
Appended(r, jump) ==
    {[paths EXCEPT ![tracer.path] = Append(@, jump)]}
      \cup IF \E q \in Executions \ {r} : Inside(q) THEN {paths} ELSE {}

EVMStep(r) ==
    LET hooks == Hooks(attack, EffectiveInput(r))
    IN  /\ runs[r].at = "running"
        /\ runs' = [runs EXCEPT ![r].at = IF runs[r].hook = Len(hooks) THEN "returned" ELSE @,
                                ![r].hook = @ + 1]
        /\ LET h == hooks[runs[r].hook]
           IN  CASE h.hook = "enter" -> tracer' = OnEnter(tracer, h.to, h.depth) /\ UNCHANGED paths
                 [] h.hook = "exit" -> tracer' = OnExit(tracer, h.depth) /\ UNCHANGED paths
                 [] h.hook = "jump" ->
                      /\ UNCHANGED tracer
                      /\ IF RecordsJump(tracer, h.depth)
                         THEN paths' \in Appended(r, h.jump) ELSE UNCHANGED paths
        /\ KeepCollection /\ UNCHANGED mixed

\* An error of the EVM is printed only: the path is returned all the same.
ReturnPath(r) ==
    /\ runs[r].at = "returned"
    /\ runs' = [runs EXCEPT ![r].at = "stopped", ![r].path = tracer.path]
    /\ tracer' = StopTrace(tracer)
    /\ KeepCollection /\ UNCHANGED <<paths, mixed>>
-----------------------------------------------------------------------------
(* ReplayAndCollectMutations.                                              *)

OriginalDone ==
    /\ Step(Original, "stopped", "idle")
    /\ stage' = "generate"
    /\ UNCHANGED <<attack, tracer, paths, candidates, mutations, successful, mixed>>

Orders(storage) == SetToSeqs(DOMAIN storage)

\* Bug form: the candidates are numbered through all batches.
BatchCandidatesNumbered(order, first, size) ==
    [i \in 1..size |->
        IF ExtractedCall # NoInput
        THEN CandidateFromCall(ExtractedCall, attack.storage, order, first + i - 1)
        ELSE CandidateFromTransaction(attack.input, attack.storage, order, first + i - 1)]

\* The batch's candidates: their number restarts with every batch.
BatchCandidates(order, first, size) ==
    [i \in 1..size |->
        IF ExtractedCall # NoInput THEN CandidateFromCall(ExtractedCall, attack.storage, order, i - 1)
        ELSE CandidateFromTransaction(attack.input, attack.storage, order, i - 1)]

GenerateBatch ==
    LET size == Least(BatchSize, TotalCandidates - Len(mutations))
    IN  /\ stage = "generate" /\ size > 0
        /\ \E order \in Orders(attack.storage) :
               candidates' = BatchCandidates(order, Len(mutations), size)
        /\ runs' = [r \in Executions |-> IF r \in 1..size THEN [Idle EXCEPT !.at = "forked"] ELSE Idle]
        /\ stage' = "batch"
        /\ mixed' = {}
        /\ UNCHANGED <<attack, tracer, paths, mutations, successful>>

\* simulateModificationWithContext: compares with the original path and writes
\* the candidate's own element of results.
Measure(r) ==
    /\ runs[r].at = "stopped" /\ r # Original
    /\ runs' = [runs EXCEPT ![r].at = "measured", ![r].success = TRUE,
                            ![r].similarity = PathSimilarity(paths[1], paths[runs[r].path])]
    /\ UNCHANGED <<attack, stage, tracer, paths, candidates, mutations, successful, mixed>>

Succeeds(m) == m.success /\ AtLeast(m.similarity, Threshold)

\* Bug form: the results are appended as the goroutines end.
CollectBatchAsEnded ==
    LET result(r) == [input |-> candidates[r].input, storage |-> candidates[r].storage,
                      success |-> runs[r].success, similarity |-> runs[r].similarity,
                      path |-> runs[r].path, mixed |-> r \in mixed]
    IN  /\ stage = "batch"
        /\ \A r \in 1..Len(candidates) : runs[r].at = "measured"
        /\ \E ended \in Orders(candidates) :
              LET batch == [k \in 1..Len(candidates) |-> result(ended[k])]
              IN  /\ mutations' = mutations \o batch
                  /\ successful' = successful \cup
                        {Len(mutations) + k : k \in {q \in 1..Len(candidates) : Succeeds(batch[q])}}
        /\ candidates' = <<>> /\ runs' = [r \in Executions |-> Idle] /\ mixed' = {}
        /\ stage' = "generate"
        /\ UNCHANGED <<attack, tracer, paths>>

\* wg.Wait returns and the results are collected in order.
CollectBatch ==
    LET result(r) == [input |-> candidates[r].input, storage |-> candidates[r].storage,
                      success |-> runs[r].success, similarity |-> runs[r].similarity,
                      path |-> runs[r].path, mixed |-> r \in mixed]
        batch == [r \in 1..Len(candidates) |-> result(r)]
    IN  /\ stage = "batch"
        /\ \A r \in 1..Len(candidates) : runs[r].at = "measured"
        /\ mutations' = mutations \o batch
        /\ successful' = successful \cup
               {Len(mutations) + r : r \in {q \in 1..Len(candidates) : Succeeds(batch[q])}}
        /\ candidates' = <<>> /\ runs' = [r \in Executions |-> Idle] /\ mixed' = {}
        /\ stage' = "generate"
        /\ UNCHANGED <<attack, tracer, paths>>

\* The statistics of the collection: total, successes, failures.
Statistics ==
    [total |-> Len(mutations), success |-> Cardinality(successful),
     failure |-> Len(mutations) - Cardinality(successful)]

\* ReplayAndSendMutations: SendMutationTransactions runs if there is a success.
CollectionDone ==
    /\ stage = "generate" /\ Len(mutations) = TotalCandidates
    /\ stage' = IF successful = {} THEN "done" ELSE "sent"
    /\ UNCHANGED <<attack, tracer, paths, candidates, runs, mutations, successful, mixed>>

Execution(r) ==
    SetTarget(r) \/ ExecutionFails(r) \/ Trace(r) \/ Call(r) \/ EVMStep(r) \/ ReturnPath(r)

CollectEnds ==
    /\ stage \in {"done", "sent", "failed"}
    /\ UNCHANGED collectVars

CollectNext ==
    \/ Fetch \/ FetchFails \/ OriginalDone \/ GenerateBatch \/ CollectBatch \/ CollectionDone
    \/ \E r \in Executions : Execution(r)
    \/ \E r \in 1..BatchSize : Measure(r)
    \/ CollectEnds

-----------------------------------------------------------------------------
(* Properties.                                                             *)

\* The state is what the code's types allow.
CollectTypeOK ==
    /\ attack \in Attacks
    /\ stage \in {"fetch", "original", "generate", "batch", "done", "sent", "failed"}
    /\ tracer.target \in {NoContract, Protected, Router}
    /\ tracer.path \in DOMAIN paths /\ tracer.targetDepth \in -1..1
    /\ DOMAIN runs = Executions /\ mixed \subseteq Executions
    /\ Len(mutations) + Len(candidates) <= TotalCandidates
    /\ successful \subseteq 1..Len(mutations)

\* The contract whose input a candidate mutates.
MutatedContract == IF ExtractedCall # NoInput THEN Protected ELSE attack.to

\* The executions that overlapped no other: the contract they were told to
\* record, the input their top call ran on and the path they were measured by.
OriginalExecution == [target |-> Protected, input |-> attack.input, path |-> paths[1]]
LoneCandidates ==
    LET lone == {m \in {mutations[i] : i \in 1..Len(mutations)} : m.success /\ ~m.mixed}
    IN  {[target |-> IF m.input = NoInput THEN NoContract ELSE MutatedContract,
          input |-> IF m.input # NoInput /\ MutatedContract = attack.to THEN m.input ELSE attack.input,
          path |-> paths[m.path]] : m \in lone}
Agree(e, f) == e.target = f.target /\ e.input = f.input => e.path = f.path

\* Executions that overlapped no other, ran on the same input and recorded the
\* same contract measured the same path, the original among them, wherever they
\* fall in the collection: what the executions between them leave in the shared
\* tracer, and whether those overlapped, does not reach the later one
\* (execution_engine.go:201-208, types.go:66-70).
LoneExecutionsAgree ==
    mutations # <<>> =>
        \A e, f \in LoneCandidates \cup {OriginalExecution} : Agree(e, f)

\* The collection is in the order of the candidates, whatever order the
\* goroutines end in: a mutation whose execution overlapped no other has the path
\* of its own trace, which no other mutation has, and is counted as successful
\* exactly if that path, as it stands, reaches the threshold
\* (txReplayer.go:1012-1027, 1818-1865).
OwnResultsCollected ==
    \A i \in 1..Len(mutations) :
        mutations[i].success /\ ~mutations[i].mixed =>
            /\ \A j \in 1..Len(mutations) : mutations[j].path = i + 1 <=> j = i
            /\ i \in successful <=> AtLeast(PathSimilarity(paths[1], paths[i + 1]), Threshold)

\* Every batch mutates the input as the first one did: the candidates of all
\* batches together try BatchSize inputs at most (txReplayer.go:1814).
BatchesRepeat ==
    \A i \in 1..Len(mutations) :
        mutations[i].input = mutations[((i - 1) % BatchSize) + 1].input

\* The path every candidate is compared with is the one the original
\* execution recorded: no later execution adds to it or clears it
\* (types.go:47-50).
OriginalPathKept ==
    [][(stage \in {"generate", "batch"}) => paths'[1] = paths[1]]_collectVars

\* What execution_engine.go:231-232 and types.go:1045 say of the
\* target calls: the input of the target contract is replaced, so that its path is
\* the one of the mutated input.
MutatedInputRuns ==
    \A i \in 1..Len(mutations) :
        LET m == mutations[i]
        IN  m.success /\ ~m.mixed /\ m.input # NoInput =>
                \E k \in DOMAIN paths[m.path] :
                    paths[m.path][k] = <<MutatedContract, Branch(m.input)>>

CollectSpec == CollectInit /\ [][CollectNext]_collectVars
=============================================================================
