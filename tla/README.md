# Formal models of autopatch

autopatch watches a protected contract, records the transactions and the storage
that reach it, replays attack transactions with mutated inputs and storage, and
sends protecting transactions to the chain. The modules here model the parts of
it that run concurrently or across failures: what TLC checks on small instances
is listed under *Runs*, what TLAPS proves for every instance under *Theorems*.
`PROJECT.json` lists, per definition, the source lines it stands for.

## Inventory

| Part | Source | State it keeps | Operations | Model |
|---|---|---|---|---|
| transaction manager | `txmgr/txmgr.go` | context, WaitGroup, receipt channel | `Send`, `sendTxAsync`, `waitMined` | `TxManager` |
| send state | `txmgr/send_state.go` | `minedTxs`, `nonceTooLowCount` | `ProcessSendError`, `TxMined`, `TxNotMined`, `ShouldAbortImmediately`, `IsWaitingForConfirmation` | `SendState` |
| batch sender | `txmgr/ethereum/transaction.go` | two bounded channels, started/stopped flags | `Start`, `SubmitRequest`, `Stop`, `worker`, `SendTransactionFromPackage` | `BatchSender` |
| replayer's transaction loop | `tracing/replay/txReplayer.go:379-500` | none across passes | `SendMutationTransactions`, `sendTransactionToContract` | not modelled: the node refuses what it sends |
| synchronizer | `synchronizer/synchronizer.go` | batch awaiting storage, latest header | ticker loop, `processBatch`, `parseTx`, `parseStorage` | `Synchronizer` |
| header traversal | `synchronizer/node/header_traversal.go`, `common/bigint` | `lastTraversedHeader` | `NextHeaders`, `Clamp` | `Synchronizer` |
| node client | `synchronizer/node/node.go` | none | one RPC each; `BlockHeadersByRange` is a batch | in `Synchronizer`, as answers and what is decoded of them |
| concurrency manager | `tracing/utils/concurrency.go:13-226` | limiter, counter, WaitGroup, context | `AcquireOperation`, `ReleaseOperation`, `ExecuteWithTimeout`, `Shutdown` | `ConcurrencyManager`, in `AttackReplayer` |
| worker pool | `tracing/utils/concurrency.go:328-412` | task and result channels | `Start`, `Submit`, `Results`, `Stop` | `WorkerPool` |
| attack replayer | `tracing/replay/txReplayer.go` | the tracer and the smart strategy it owns | `ReplayAndCollectMutations`, `ExecuteSmartMutationCampaign`, candidates, protection rules | `MutationCollection`, `SmartCampaign`, `ProtectionRules`, composed in `AttackReplayer` |
| execution engine, tracer | `tracing/core/execution_engine.go`, `tracing/utils/types.go` | `JumpTracer`'s path, target, depth, flags | `StartTrace`, `StopTrace`, `SetTargetContract`, the hooks; the traced and the simplified execution | `JumpTracer`, `MutationCollection`, `SmartCampaign` |
| mutation strategies | `tracing/mutation` | per-strategy success records, batch size | the mutators and modifiers; `RecordMutationResult`, `GetOptimalMutationPlan`, `ResetStrategies` | `StepMutation`, `TypeAwareMutator`, `InputModifier`, `StepVariation`, `MutationStrategy` |
| storage analyzer | `tracing/analysis/storage_analyzer.go` | none | `AnalyzeContractStorage`, `MutateStorage` | `StorageAnalyzer` |
| ABI manager | `tracing/abi/abi_manager.go` | cache | `GetContractABI` | its answers and its cache, in `SmartCampaign` |
| attack transaction table | `database/worker/attack_tx.go` | rows with a status | inserts, updates and deletes by GUID and by hash, cleanup | `AttackTx`, in `AttackReplayer` |
| storage parser | `storage/storage.go` | a cursor over `block_headers` | `Start`, `ProcessStorage`, `Close` | `StorageParser` |
| daemon | `autopatch.go`, `common/cliapp`, `common/tasks` | two loops | set-up, `Start`, `Stop` | `AutoPatch` |
| database layer | `database` | tables | insert and query | the tables above, as sets of rows |
| safe cache, error recovery, metrics | `tracing/utils/concurrency.go:229-326`, `errors.go`, `metrics.go` | an expiring map; counters | each under one lock | not modelled |
| slot decoding | `storage/utils` | none | decode Solidity layouts | not modelled: pure functions of bytes |
| state managers | `tracing/state` | in-memory StateDB | sequential | not modelled: no protocol across calls |
| configuration, CLI, bindings | `config`, `flags`, `cmd`, `tracing/config`, `bindings` | none after start | read once; generated | not modelled |

**Interactions.** The synchronizer drives the header traversal from one ticker
goroutine and starts two parser goroutines per batch; it is meant to hand
headers to the storage parser through the table `block_headers`. The replayer
owns a `BatchTransactionSender` that nothing starts; whoever uses a sender shares
its account's nonce, at the node, with everyone else who holds the key. `Send` shares
one `SendState` with the goroutines it launches and talks to them through a
context, a channel of one receipt and a WaitGroup. The attack replayer runs the
simulations of a batch concurrently over one `JumpTracer`; its campaign plans with
the storage analyzer, mutates with the modifiers, measures with the execution
engine and feeds the results back to the smart strategy, under a lock of the
concurrency manager that the strategy owns, where the strategy's own methods take
another. The daemon starts the loops of the synchronizer and of the storage parser and
stops them.

**What is hard here.** Reads of the chain that are several RPCs apart (receipt
and tip, the words of one row of storage, nonce and publication) while blocks and
reorgs happen between them; transactions whose publication fails after the node took
them; channels that drop or block when full; shutdown while workers are busy; a
batch that fails half way; restarts; a tracer that concurrent simulations share;
arithmetic on words, bytes and their types that must agree between the code that
mutates a value and the code that guards it. The list of hazards in `PROJECT.json` gives
each at its line, with the property that watches it or the reason why none does.

**What makes each part correct.** *Send*: it returns a confirmed receipt of a
transaction it published, or an error; it aborts over the nonce only after enough
refusals; it leaves no goroutine behind and always returns when cancelled. *Batch
sender*: no request vanishes or is answered twice; no gap in the account's
nonces; `Success` is true; `Stop` returns and nobody sends on a closed channel.
*Synchronizer*: one block per height and one branch per run, rows whose words
belong to the block they are labelled with and to one branch, nothing given up
before it is stored, catching up. *Concurrency manager*: no slot leaks, the limit
holds, a clean shutdown waited, every call returns. *Attack replayer*: a result is
the measurement of its own candidate and stands at its place, what a campaign
counts adds up, and a rule holds of the variation it guards against. *Table of
attacks*: a call reaches the rows it names and no others. *Daemon*: the parser
gets from header to header. Where the code does less than that, the property
states what it does, or the run shows the violation, and the hazard says what is
missing.

## Modules

### SendState and TxManager

`SendState` is the struct of that name: one operator per method, over
`minedTxs` and `nonceTooLowCount`. Every method runs under the struct's mutex,
so each is one step. `TxManager` extends it with one call of `Send`:

- the `Send` goroutine is `send`: its select loop (`Resubmit`, `ReturnError`,
  `ReturnReceipt`), then the deferred calls in the order they run, `cancel`
  (`DeferredCancel`) and `wg.Wait` (`DeferredWait`);
- each `sendTxAsync` goroutine is an attempt; `pc[a]` stands between two calls of
  the closure or of `waitMined`: price, publish, process the error, check the
  abort, cancel, query the receipt, mark the hash, query the tip, select, push;
- `ctxc` is `cause`, what cancelled it first; `receiptChan` is a set of at most
  one receipt; the WaitGroup is the set of goroutines added and not done;
- the chain is external: what consumed the nonce, in which block, the tip. All
  attempts share a nonce, so at most one of them, or a foreign transaction, is
  included at a time, until a reorg. `SendTx` may answer an error although the
  transaction was delivered. `epoch` and `tooLow` are history variables.

`SendContract` is what a caller may rely on: publish while open, settle once on
a published transaction or a failure, then close. `Contract` in `TxManager` is
the refinement mapping: the pool is `published`, the outcome the answer's
transaction, and the call is open until `send` is `"returned"`.

`CalcGasFeeCap` is arithmetic on fees that nothing here distinguishes.

### BatchSender

Two bounded queues (`requestChan`, `responseChan`), the workers with their
position and locals, `Start`, `SubmitRequest`, `Stop` in its two steps (close
`stopChan`; wait and close the channels), and `SendTransactionFromPackage` cut
at each RPC: read the nonce, then one publication per update. Beside it somebody
else may sign for the account (`ForeignSends`, external), also between a worker's
reading of the nonce and its publication. The node accepts a nonce once: all
transactions carry the same price, so none replaces another. `lost` is history.
`Stop` holds the mutex from its first statement to its last, which is why
`SubmitRequest` and `Start` have the guard `MutexFree`. Packing call data,
signing and parsing keys are a success or a failure.

`RequestContract` is what a caller may rely on: a submitted request is pending until
it is lost or answered once, its updates go out in order under nonces of their own,
and nothing happens after `Stop`. `Contract` reads a request's status off the losses
and the responses queued and read, and takes the account's accepted transactions for
what is published.

### Synchronizer

A block is the sequence of branch marks from block 1 to itself; its parent is its
`Front`, its number its length, and equality of blocks is equality of hashes.
`NextHeaders` is cut where it talks to the node: one tick reads the head
(`NextHeadersFetches`, `NextHeadersAtHead`), then the headers of the range arrive
one by one (`FetchHeader`, `FetchElementFails`) while the chain may change, then
the first parent is compared (`HeadersMismatch`, `HeadersAdvance`).
`processBatch` starts two parsers. The one of storage reads one word after the other
(`ReadWord`), each at what is the latest block by then, and stores them as one row
(`ParseStorage`); blocks, reorgs and the other parser come between the reads.
`BatchEnds` is `g.Wait()`: it stands
inside the loop over the headers, so only the first is parsed and
`StoreBlockHeaders` is not reached; no action of the model writes
`blockHeaders`. `NewSynchronizer` starts a run from the latest stored header,
else from `StartingHeight`; `Crash` and the two panics end one.

`rows` is the table `protected_storage`, as a set: the values stored for one header
are one row, and what is stored again on a retry is not told apart. A word that
cannot be read is `ZeroHeader`. `TxBlocks` are the blocks with a transaction to the
protected address; `TransactionsToAtBlock` finds none in any of them, because the
block is decoded from JSON into a `*types.Block`, which has only unexported fields
and no `UnmarshalJSON`. So `protectedTxs` stays empty and `parseTx` fails only when
the call does. `StorageScan.json` is taken to be readable.
`BlockConfirmationDepth` is 0 because `NewSynchronizer` passes 0 to the traversal.

`StoreContract` is what a reader of the rows may rely on: a run takes blocks of
growing height in hand, labels its rows with the block in hand, and lets it go only
stored or for a higher one. `Contract` takes the first header of the batch for the
block in hand.

### StorageParser and AutoPatch

`StorageParser` is the ticker loop: `FindHeader` is the query of
`latestHeaderScope` (the highest of the next `BlockSize` headers), then one
`Query` per table; `QueryFails` is any of their errors and ends the loop. The
cursor `latestBlockHeader` is read and never assigned. Nothing in the repository
ends up writing `block_headers`, so an external action appends to it.
`AutoPatch` is `lifecycleCmd` around it: set up, start the synchronizer's loop and
then the parser's, wait for the context, `Stop`. The synchronizer counts here only
as running. `main` passes `context.Background()`, which never ends: `Stop` is
reached only under another host (`HostCancels`), and a signal kills the process
(`Killed`).

### ConcurrencyManager

`ExecuteWithTimeout` with the steps of `AcquireOperation` and
`ReleaseOperation` apart, since the slot, the atomic counter and the WaitGroup
change one after the other; the function's goroutine, which may never end; the
operation's timeout; and one `Shutdown` with its waiting goroutine. The smart
strategy of the replayer owns a manager, of which the campaign uses one lock;
`AttackReplayer` runs the manager's operations as those of a caller of its own.

`SlotContract` is a counting semaphore with a drain. `Contract` takes the slots the
limiter has left for `free`, lets a call run from the slot it takes to the slot it
gives back, and takes for `owed` the operations that had joined the WaitGroup when
`Shutdown` cancelled and still run.

### WorkerPool

Both channels are bounded sequences; the `select` of a worker is `TakeTask` and
`WorkerLeaves`; running a task and sending its result are two steps, since the
send may wait; `Stop` is `StopBegins` (cancel) and `StopEnds` (wait, close). Uses
of a closed channel are the `...Panics` actions and a second `Stop`. One receiver
reads results and may leave, as the readers of `concurrency_test.go` do.

### The attack replayer

A word has `WordBytes` bytes and an address `AddressBytes`; an input is a
four-byte selector and words. The pure layers are operators:

- `StepMutation`: the mutation manager's steps on inputs and slots, with the
  overflow rules of `applyStepMutationToBytes`, and the candidates of the replayer;
- `TypeAwareMutator`: mutation by ABI type, with fixed-width and big integers;
- `InputModifier`: one parameter mutated by type when the ABI has the method, by
  rules on raw words when not;
- `StepVariation`: the modifier's variations of unpacked parameters and slots, each
  with its list of changes, and their fallbacks;
- `StorageAnalyzer`: the type a slot looks like, its importance, which slots are
  mutated. The numeric limits of the heuristics are constants that keep the order
  they have in the code;
- `MutationStrategy`: the smart strategy as a record. Its scores are floating-point
  mixes with the time in them, so a ranking is any permutation.

Three modules have state. `MutationCollection` is `ReplayAndCollectMutations`: fetch,
the original execution, then batches of goroutines over the shared `JumpTracer`,
each cut at the calls of the EVM's hooks. `StartTrace` makes a new path object, so
`paths` keeps every object and the tracer refers to one; an `append` in one
goroutine may land in the path of another. `SmartCampaign` is
`ExecuteSmartMutationCampaign`; the record of a result is two steps, because
`ResetStrategies` holds another lock and may come between. `ProtectionRules` takes a
variation through the rule's creation and validation. No code in the repository
calls the variation, the rule and the validation one after the other; the model's
caller may take or leave each.

How a contract jumps depends on its input (`Branch`, external); a collected mutation
keeps the path its execution was given, so that a result at another's place shows.
`InterceptingEVM` intercepts the outermost call only: `EffectiveInput` is the
mutated one exactly when the transaction's receiver is a target.

`AttackTx` is the table `attack_tx` with its constraints; each call is one SQL
statement and one step. `Hex` is the string that the serializer stores and
`Bytes` what most calls by hash compare with. `table.call` is the last call, history.
Only the replayer's tests call it.

`AttackReplayer` composes these with the concurrency manager: its caller runs one of
the five operations.

### MC modules

`MCTxManager` adds the symmetry of attempts and hashes, `MCBatchSender` the
number of updates of each request, `MCAttackReplayer` the attacks, transactions,
ABIs and calls, `MCSynchronizer` the blocks with a transaction. Operators commented
*Bug form* stand before the definition they mutate and are used by no specification.

## Runs

| Run | Instance | Shows |
|---|---|---|
| `txm_safety` | 3 attempts, 2 hashes, 2 confirmations, threshold 2, 3 blocks, 1 reorg | `ReturnedReceiptConfirmed`, `NothingOutlivesSend`, `MinedIsWatched`, `AbortJustified`, and that Send implements `SendContract` |
| `txm_live` | 2 attempts, 1 hash, 1 confirmation, 1 reorg | a cancelled Send returns; so does one whose transaction is confirmed |
| `txm_abort` | 3 attempts, 1 confirmation, no reorg | violation of `NoAbortAfterMining`, see *Findings* |
| `batch` | 2 workers, requests of 2 and 1 updates, queues of 1, 2 transactions of another signer | `NoWorkerAfterStop`, `RequestConserved`, `NoNonceGap`, `SuccessIsPublished`, and under fairness `StopReturns`, `RequestAnswered` |
| `sync` | chain of 4, ranges of 2, 1 reorg, 1 fault, 2 runs of the process, 2 reads per row | `OneBlockPerHeight`, `OneBranch`, `RowsMatchLabel`, `LetGoWhenStored`, and under fairness `CatchesUp` |
| `sync_batch` | the same with 1 run, one block with a transaction on each branch | violation of `BatchStored` |
| `operations_shutdown` | 1 operation | violation of `NoNewOperations` |
| `replay` | words of 3 bytes, addresses of 2; 3 candidates in batches of 2; 4 transactions, 3 strategies, 1 reset; 7 calls, 12 variants; 2 table rows; 2 operations, a limiter of 1 | the collection: `LoneExecutionsAgree`, `OwnResultsCollected`, `BatchesRepeat`, `OriginalPathKept`; the campaign: `StatisticsAgree`, `EveryMutationScoresOne`, `OneSlotMutated`; the rules: `RuleCoversVariation`, `RuleIsValid`; the table: `CallsReachTheirRows`; the manager: `NothingLeaks`, `ActiveWithinLimit`, `CleanMeansDrained`, and under fairness `CallReturns` |
| `mutated_input` | the same, one attack through a router | violation of `MutatedInputRuns` |
| `by_hash` | the same | violation of `HashDeletesRows` |
| `daemon` | headers up to 5, `BlockSize` 2 | `CursorStands` |
| `pool_stop` | 2 workers, 3 tasks, channels of 1 | violation of `StopReturns` of the pool |

Each passing run but `txm_live` and `daemon` also checks its module's `TypeOK`; the
states of `txm_live` are covered by `txm_safety`.

**Bounds, and why they are enough.** Three attempts are the first one, one that
replaces it and one that finds the nonce taken; two hashes let two attempts have
the same transaction or different ones; a threshold of two separates "one
refusal" from "enough", and three attempts can reach it with one to spare. Three
blocks hold an inclusion, its second confirmation and a re-inclusion after a
reorg; one reorg frees the nonce once, which is all the code tells apart. Queues
of one make every queue full as soon as two things wait. Two updates are the
least with a middle to fail in. Four blocks in ranges of two give a full range, a
short one and the single-header call, and one reorg can fall before, between and
inside them; two reads of storage are the least between which something can happen.
Two runs are a restart. One fault can hit any single call or kill the process; the
runs say nothing of two faults, nor of a fault and a crash. Two transactions of
another signer can take the nonce of either update of a package. A limiter of one makes the second operation
wait. Three candidates in batches of two are a full batch with two concurrent
simulations and a second, short batch. Words of three bytes keep every sum of a
step within TLC's integers while a byte, a chunk and a word can still overflow;
the calls of `MCAttackReplayer` sit at the limits of their types. A batch size that
may grow from 10 to 12 and a warm-up of 2 let the strategy adapt in a short
campaign. Five headers above a `BlockSize` of 2 let the parser's window fill and
overflow. `CHECK_DEADLOCK FALSE` is set in most runs because the programs do stop: a
call of Send returns, a stopped sender has nothing left to do, and the bounded
chain ends. `replay` checks for deadlock: each of its operations says where it ends.

**Fairness, and why the code justifies it.**

- Weak fairness of each goroutine: the Go scheduler runs what can run.
- `TxManager`: strong fairness of `SelectDone`, because a `select` picks
  uniformly among the ready cases, so `ctx.Done()` is not passed over for ever;
  and of `ReceiptFound` and `TipConfirms`, because a backend that is asked again
  and again does not answer with an error for ever. Nothing obliges the ticker
  to fire or the caller to cancel, and the chain need not grow.
- `BatchSender`: the workers and the end of `Stop`. Nobody has to call `Start` or
  `Stop`, and the responses need not be read.
- `Synchronizer`: the ticker and the parsers. Faults are bounded by `MaxFaults`,
  so the node and the database answer in the end. Restarting is not fair:
  `CatchesUp` gives up when the process goes down.
- `ConcurrencyManager`, also in `replay`: calls and timers (`ManagerFairness`). The
  function passed in may run for ever. Nothing else of `replay` is fair.
- `WorkerPool`: workers and the end of `Stop`, and strong fairness of
  `WorkerLeaves`, because a `select` does not pass a ready case over for ever. The
  receiver may leave.

## Theorems

Proved by TLAPS for every value of the constants that the modules' assumptions
allow.

`TxManagerProofs`, under `TxManagerAssumption` and `SafeAbortAssumption`:
`TypeCorrect` (`TypeOK`), `Joined` (`NothingOutlivesSend`), `Confirmation`
(`ReturnedReceiptConfirmed`), `Watched` (`MinedIsWatched`), `AbortThreshold`
(`AbortJustified`) and `Refinement` (`ImplementsContract`). None of these is
inductive alone. `Invariance` proves `IInv`:

- `WaitGroupInv`: the WaitGroup holds exactly the running goroutines, so waiting
  for it to empty is waiting for them, which gives `Joined`;
- `ReceiptInv`: a receipt is sound (published, and still on the chain unless the
  epoch moved) wherever it is held: in a goroutine, in the channel, in the
  answer; and confirmed from the tip query on. `Confirmation` and the
  refinement's outcome follow;
- `HashInv`: a goroutine past pricing has a transaction, which the types need;
- `CountInv`: the counter never runs ahead of the refusals, and a goroutine about
  to cancel has seen enough of them;
- `AnswerInv`: Send has an answer exactly when it left its loop, so the contract
  settles once.

Each conjunct has its preservation lemma with one step per action; the
refinement maps each action to `Publish`, `Settle`, `Return` or a stutter.

`BatchSenderProofs`, under `BatchSenderAssumption`: `TypeCorrect` (`TypeOK`, with
both queues within their capacity), `Joined` (`NoWorkerAfterStop`), `GapFree`
(`NoNonceGap`) and `SuccessTrue` (`SuccessIsPublished`). The invariant adds
`NonceInv` (every nonce below the one a worker is about to sign with is taken), which is what closes the gaps when
a publication fails in the middle; `SentInv` (what a worker has sent lies under
the nonces just below its own) and `SuccessInv`, which follows a success from the
worker through the queue to its reader. `TakenStays` is the fact they share: a
taken nonce stays taken. `Conserved` (`RequestConserved`) rests on `PlacesInv`: the
numbers of a request's positions in the request queue, of workers that hold it, of
its responses queued and read, and of its losses add up to one for a submitted
request and to none for another; it adds to the property that these sets are finite
and that no worker holds anything before `Start`. `WhereAppend` and `WhereTail` count
in a queue, and each move of a request has a lemma: submitted, taken, answered, read.
`Refinement` (`ImplementsContract` of the module) adds `PackageInv`: a request that no
worker holds and nobody answered has nothing published, and one that a worker holds
has exactly the updates before the worker's position. `HeldAlone` reads off
`PlacesInv` that a request in a worker's hands is nowhere else, so the outcome the
contract sees is set once and stands.

`ConcurrencyManagerProofs`, under `ConcurrencyManagerAssumption`, for any set of
operations, an infinite one too: `ManagerTypes` (`ManagerTypeOK`), `LeakFree`
(`NothingLeaks`), `ActiveBounded` (`ActiveWithinLimit`) and `CleanShutdown`
(`CleanMeansDrained`). `SlotCountInv` says that the limiter, the counter and the
WaitGroup are each the number of the calls between two of their steps; these three
sets differ, because the code changes the three one after the other, and the bound on
active operations is the difference of the first two. `DrainInv` follows the
operations that had joined the WaitGroup when `Shutdown` cancelled: its goroutine
sees zero only when all of them have returned. `Refinement` adds `CallInv`, how far a call's
function is at each of its steps: the result is decided before the slot is given
back, so that giving it back is the contract's `Finish`.

`SynchronizerProofs`, under `SynchronizerAssumption`, for any chain, range and number
of reorgs, faults and restarts: `TypeCorrect` (`TypeOK`), `BlockPerHeight`
(`OneBlockPerHeight`), `Branch` (`OneBranch`), `StorageOfDescendant`
(`RowsMatchLabel`) and the action property `LetsGoWhenStored` (`LetGoWhenStored`).

- `FetchInv`: the headers of a range have the heights that were asked for;
- `BatchInv`: a batch starts with a block, no higher than `lastTraversed`;
- `RowsInv`: what this run stored is of the batch's first block or lies below it, so
  a height is not stored under a second label;
- `BranchInv`: while no fetched range was mixed, what this run stored and what it
  stores next are prefixes of `lastTraversed`, and a range that is a branch is one
  from its first header on;
- `SeenInv`: a block the node once answered is a prefix of the chain or in
  `abandoned`, hence a word that is read later belongs to a descendant;
- `WordsInv`: the words read so far fit the batch in hand (`Fit`): each is of a
  descendant of its first block and of every earlier word, or of what a reorg took;
- `ParseInv`: a parser of storage that is done stored its row.

Blocks are sequences of marks; `PrefixMarks`, `Cut` and `PrefixOrder` are what the
proofs need of prefixes. `Frame` states once what each action may change.
`Refinement` needs no more than this invariant: `AdvanceTakes`, `ParseStoragePuts` and
`BatchEndsLetsGo` map the three steps that are none of the contract's other ones.

`AutoPatchProofs`, under `StorageParserAssumption`: `TypeCorrect` (`TypeOK`) and
`CursorNeverMoves` (`CursorStands`). `CursorStands` counts headers below those inspected, so it needs `CursorInv`: the
cursor is `None`, and whatever was inspected has a row, below which no later header
can be stored.

`AttackTxProofs`, under `MessagesAssumption` and `MaxClockAssumption`: `TableTypes`
(`TableTypeOK`) and `OthersKept` (`CallsReachTheirRows`), of `TableSpec`, the table with
any caller. `AttackReplayer` takes the same `TableNext` for its fourth operation. The
invariant says which rows there are (`Row`): every one has the hex form of a hash, so
`HashReachesNone`, and the updates and deletes by hash leave all rows alone.

`CollectionProofs`, under `CollectionAssumption` and `StepMutationAssumption`, of
`CollectSpec`, one collection: `CollectTypes` (`CollectTypeOK`), `Collected`
(`OwnResultsCollected`), `BatchesAlike` (`BatchesRepeat`) and `OriginalKept` (the
action property `OriginalPathKept`). The parts of `CollectInv`: a batch is no larger
than what is missing (`CountInv`); the original runs alone and only candidates of the
batch run beside each other (`StageInv`); a goroutine has a path exactly when it
succeeded (`ResultInv`), and so has a collected mutation (`MutationsInv`); and while a
candidate is traced, the shared tracer is on the path of some candidate
(`TracerInv`), which is what keeps the original's path untouched although the
candidates' own paths are not safe from each other. `RepeatInv` adds that a batch
starts at a multiple of `BatchSize` and that its inputs are those of the first batch:
`OrderIrrelevant` shows that the order of Go's map of storage, which every batch may
see differently, does not reach the inputs.

`LoneAgree` (the candidates of `LoneExecutionsAgree`) is the one with the longest
argument: two candidates that met no other execution, told to record the same contract
and run on the same input, measured the same path, although tracer, target and depth
are shared and earlier executions leave them as they please. The proof shows more: a
lone execution measured what `LonePath` computes from its candidate alone. That is an
operator of the proof, no claim about what a candidate should measure; for an attack
through a router it is the path of the original input (see *Findings*). The invariant
`MeasureInv` follows the recorded path hook by hook:

- `OverlapInv`: two executions inside the tracer at once are known to be mixed;
- `RestInv`: between executions the tracer records nothing at depth 0; and a target
  depth still unset, though the transaction calls the target, means that an execution
  has its target's frame before it (`Ahead`): a stale depth is what would let a later
  execution record other frames;
- `PathInv`: the path of a candidate not yet started is empty and nobody is on it, and
  the tracer is on no collected path while an execution of the batch runs;
- `LoneInv`: what a lone execution has recorded before its next hook, one case each
  for a call that only changes storage, for a transaction that goes to the target
  itself, and for one that reaches it from within;
- `DoneInv`: a finished path is what was recorded and is never touched again, in the
  batch and among the collected mutations.

`Collected` rests on it and on `OwnInv`: a path that is held belongs to the trace of
one candidate, which is the holder's unless that candidate was mixed or failed; so a
lone candidate's path is held by nobody else and is collected at its own place,
whatever order the goroutines end in.

`AttackReplayerProofs` adds the campaign and the rules, under the assumptions of the
modules it composes. `Components` takes the composed specification apart (a step of
one operation is a stutter of the others), so that every theorem about a part holds of
`AttackReplayer`; `TypeCorrect` (`TypeOK`) and `PartsKept` are its uses, the latter for
the collection, the table and the concurrency manager.

- *Rules*: `ValidExactly` (`RuleIsValid`). `RulesInv` says that the rule is the one
  the two modifications make and `valid` the verdict on that rule. `ValidRule` then
  compares the created rules with the validation: the input guards exist exactly if
  the input was modified, because a modification comes with changes
  (`InputVaried`); the storage guards that address a contract are those of slots other
  than 0.
- *Variations*: `VariationCovers` (`RuleCoversVariation`), for every width of words and
  addresses. `RoundTrip` shows that a number written to bytes is read back modulo the
  word, `WordPacked` that the word of a parameter is found where it was packed, and
  `NumberKept` when a number that wrapped meets its own rule: its distance to where it
  wrapped to is a whole word, and a fifth of it is less. `HeldBy` says what values a
  parameter of a type may be given; `ArgumentHeld` shows it of what `Unpack` reads,
  `MutatedHeld`, `SteppedHeld` and `ForcedHeld` of what the modifier makes of it.
  `ParameterCovered` compares a rule with the packed value, type by type, and
  `VariationCovered` does so for every change of a variation, several of which never
  disagree about a parameter (`ModifiedAt`). `CoverInv` adds to `RulesInv` that the
  variation at hand is covered by its changes and that no rule exists before it is
  created.
- *Statistics*: `StatisticsTold` (`StatisticsAgree`). A record and a reset are two
  halves each. `ResetInv` says where the sums stand in between: the strategies are one
  ahead during a record, and zero during a reset that met none. `SumOne` adds to a
  fold over a function.
- *Results*: `EveryMutationSimilar` (`EveryMutationScoresOne`). The path of a
  simplified execution depends on the target, on whether it has storage, and on the
  input's selector; a mutated input still has a selector (`InputMutationKept`: by
  word, by type with an ABI, by any strategy and variant), a mutated storage still has
  its contract (`StorageStays`), so an unchanged selector means an unchanged path
  (`SamePath`), and a path scores one with itself. `OneSlotOnly` (`OneSlotMutated`)
  follows from the parity that a taken slot flips (`OneSlotChosen`).

The assumptions on data are what the code guarantees: inputs are bytes, slots hold
naturals, a contract's storage is a finite map, an ABI lists finitely many types. The
calls of the rules have parameters of `OneWordTypes`, the types that `Unpack` and `Pack`
model; a tuple, an array or a string is packed by go-ethereum over several words.

**How recursion is reasoned about.** Operators such as `FlattenSeq`, folds and recursive
functions are defined by `CHOOSE`; what they yield is not available before a function
that satisfies the equation is shown to exist. Where a proof needs an induction on a
number it takes the least counterexample (`LeastNumber`, from the well-foundedness of
the naturals) and refutes it; `Flattened`, `PartialSums` and, for the powers of 256 and
the value of a sequence of bytes, `Powers` and `BytesAdded` are done that way.
`SelectSeq` and `SortSeq` stay opaque to the provers. The models that are proved
about therefore select with `Sublist`, whose properties `SublistOf` proves.

**Refinements.** `SendContract` is also a property of `txm_safety`. The other three
contracts are proved and part of no run; adding `ImplementsContract` to the run's
properties lets TLC check them on its instance.

**Only model-checked.**

- Liveness (`CancelReturns`, `ConfirmedTxReturns`, `StopReturns`, `RequestAnswered`,
  `CatchesUp`, `CallReturns`): the prover has no liveness under fairness.
- What `WorkerPool` does is only a finding; it has no passing property to prove.

## Findings

- `txm_abort`: the abort check reads `minedTxs`, which is filled only after a
  receipt poll (`txmgr.go:86`, `161-166`). A resubmission refused because Send's
  own transaction was mined since the last poll counts towards the abort. The
  test `TestTxMgrDoesntAbortNonceTooLowAfterMiningTx` (`txmgr_test.go:327`)
  claims otherwise; its timing never meets the case.
- `sync_batch`: a batch the synchronizer is done with has nothing of what the code
  says it stores. `return g.Wait()` stands inside the loop over the headers
  (`synchronizer.go:172`): the headers that the comment of lines 175-176 announces
  are never stored, later headers of a range are never parsed, a restart starts
  over, and the storage parser has nothing to read. And the block with "full
  transaction objects" (`node.go:91`) is decoded into a `*types.Block` (line 84), which
  JSON cannot fill, so the filter of line 99 goes through no transactions.
- `mutated_input`: "the InterceptingEVM will replace input data for target contracts"
  (`execution_engine.go:231-232`; also line 181, `types.go:1045`,
  `IMPLEMENTATION_SUMMARY.md:254`), but the calls inside the EVM do not come through
  it (`types.go:1046`): an attack through a router runs its original calls, and its
  candidates measure the original path.
- `by_hash`: "delete by transaction hash" (`attack_tx.go:392`) compares raw bytes with
  the hex strings the serializer stored and deletes nothing; the updates by hash
  (lines 377, 409, 448-470) reach nothing either.
- `operations_shutdown`: after `Shutdown` cancels the context "to stop new
  operations" (`concurrency.go:205`) a call may still take a free slot, since the
  select has two ready cases.
- `pool_stop`: a worker sends its result to the bounded `resultChan` without looking
  at the context (`concurrency.go:392`). With the channel full and its reader gone,
  the worker never comes back to its `select`, and `Stop` ("stops the worker pool",
  line 406) waits for it for ever.

Some passing properties state what the code does where its words or a reader might
expect more:

- `CleanMeansDrained` speaks of the operations that had joined the WaitGroup. An
  operation that holds its slot and has not joined yet (`concurrency.go:50-54`) is not
  waited for, although line 208 says "Wait for existing operations".
- `StatisticsAgree` says nothing once a reset has overlapped a record: then the sums
  do disagree.
- `RequestAnswered` is about a sender that was started. The replayer's never is, and
  leaves its requests in the queue.
- `EveryMutationScoresOne` excepts inputs whose selector changed. A step that overflows
  a word does write into it (`modifier.go:1398-1402`), where
  `IMPLEMENTATION_SUMMARY.md:25` and `236` say that the first four bytes are not
  mutated.
- `OneSlotMutated`: `storage_analyzer.go:382` speaks of up to three slots and line 395
  of the first few; the parity in the loop admits one.
- `RuleCoversVariation` excepts a range around a negative number, which
  `types.go:949-952` cuts at zero, "for uint types", whatever the type.
- `BatchesRepeat`, `RuleIsValid` and `CursorStands` state behaviour that no comment
  speaks of.

Other disagreements are seen in the code and not by a run. The filters of the balance,
mapping and array strategies match no slot that `inferSlotTypeFromValue` marks, although
`storage_analyzer_test.go:24`, `examples/smart_mutation_demo.go:81`,
`smart_mutation_strategy_test.go:340-344` and `storage_analyzer.go:255-258` take one
Ether for a balance. `OfflineSignTx` wraps the typed transaction of
`txReplayer.go:398` in an RLP string (`transaction.go:71`), so
`eth_sendRawTransaction` refuses whatever the replayer's loop sends. `AutoPatch.Stop`
returns only after a query of the storage parser has failed (`storage.go:42-54`).

## Plan

1. *Done*: `SendState`, `TxManager`, `SendContract`; `BatchSender`; `Synchronizer`;
   `ConcurrencyManager`; `WorkerPool`; the attack replayer with its layers;
   `AttackTx`; `StorageParser`, `AutoPatch`. All of them but `WorkerPool` have proofs of
   every safety property that the runs check.
2. *Done*: the abstract specifications `SendContract`, `RequestContract`, `SlotContract`
   and `StoreContract`, each implemented by its component.
3. Left: a contract of `WorkerPool` once it has a property that holds.

## Not modelled

- `SafeCache`, the `With...Lock` wrappers, error recovery and metrics: a map, a
  function or a counter under one lock; every call is one step and nothing modelled
  depends on them.
- Slot decoding (`storage/utils`) and the state managers: sequential functions from
  bytes to values. The synchronizer's rows tell apart only whose storage they hold,
  and the simulations see a prestate as a function from slots to values.
- The replayer's transaction loop (`txReplayer.go:379-500`): its transactions are
  refused, so a pass ends in a printed error and changes nothing.
- The EVM, the ABI codec, PostgreSQL and the node: external, modelled by what the
  code relies on.
- The copies of the simulation and of the execution that are kept for compatibility
  and that nothing calls, the importance scores of ABI parameters, report printing,
  configuration, flags and the generated bindings.
