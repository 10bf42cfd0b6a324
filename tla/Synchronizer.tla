---------------------------- MODULE Synchronizer ----------------------------
(***************************************************************************)
(* The synchronizer (synchronizer/synchronizer.go) and the header          *)
(* traversal it drives (synchronizer/node/header_traversal.go): on every   *)
(* tick it asks the node for the latest header, fetches the next range,    *)
(* and parses the first header of the range with two goroutines, one for   *)
(* the storage of the protected contract and one for its transactions.     *)
(*                                                                         *)
(* A block is the sequence of the branch marks from block 1 to itself: its *)
(* hash commits to its ancestors, so Front is the parent and Len the       *)
(* number, and two blocks are equal exactly when their hashes are.  The    *)
(* node and its chain are external; so is the table of protected           *)
(* addresses.                                                              *)
(***************************************************************************)
EXTENDS Naturals, Sequences, SequencesExt

CONSTANTS
    StartingHeight,  \* chainCfg.StartingHeight
    BlockStep,       \* chainCfg.BlockStep
    MaxHeight,       \* bound: the chain stops growing here
    MaxForks,        \* bound: the number of reorgs
    MaxRuns,         \* bound: how often the process is started
    MaxFaults,       \* bound: failed answers of node and database, and crashes
    TxBlocks,        \* the blocks with a transaction to the protected address
    StorageReads,    \* calls of eth_getStorageAt for the variables of the contract
    NoHeader,        \* the nil *types.Header
    ZeroHeader       \* types.Header{}: Number is nil

ASSUME SynchronizerAssumption ==
    /\ StartingHeight \in Nat
    /\ {BlockStep, StorageReads} \subseteq Nat \ {0}
    /\ {MaxHeight, MaxForks, MaxRuns, MaxFaults} \subseteq Nat
    /\ TxBlocks \subseteq Seq(Nat)
    /\ {NoHeader, ZeroHeader} \cap Seq(Nat) = {} /\ NoHeader # ZeroHeader

VARIABLES
    chain,          \* node: the latest block
    forks,          \* node: reorgs so far, the mark of new blocks
    abandoned,      \* node, history: blocks that a reorg took off the chain
    protected,      \* table protected_created has an address
    blockHeaders,   \* table block_headers
    protectedTxs,   \* table protected_txs: the blocks whose transactions are there
    rows,           \* table protected_storage, see Rows
    run,            \* how often the process was started
    faults,         \* failed answers and crashes so far
    syncer,         \* where the ticker goroutine is
    lastTraversed,  \* headerTraversal.lastTraversedHeader
    endHeight,      \* the height NextHeaders fetches to
    fetched,        \* the headers of the range answered so far
    headers,        \* syncer.headers
    addressList,    \* processBatch: its address list is not empty
    parse,          \* processBatch: what became of its two goroutines
    words,          \* fetchOnChainValue: what it read of the storage so far
    mixed           \* history: this run traversed a range that is no branch

chainVars == <<chain, forks, abandoned>>
tableVars == <<protected, blockHeaders, protectedTxs, rows>>
batchVars == <<headers, addressList, parse, words>>
traversalVars == <<lastTraversed, endHeight, fetched, mixed>>
vars == <<chain, forks, abandoned, protected, blockHeaders, protectedTxs, rows, run, faults,
          syncer, lastTraversed, endHeight, fetched, headers, addressList, parse, words, mixed>>

Blocks == Seq(Nat)
Parsers == {"tx", "storage"}

\* A word of storage: the block that was the latest when it was read, or
\* ZeroHeader for a read that failed, which counts as empty.
Words == Blocks \cup {ZeroHeader}

\* What parseStorage stored for a batch's first header, the values of all
\* variables as one row: "block" is the header it is labelled with, "words" are
\* the reads it was put together from, in their order.  The rows stored again
\* when a batch is retried are not told apart.
Rows == [block : Blocks, words : Seq(Words), run : Nat]

-----------------------------------------------------------------------------
(* The node, external *)

Block(n) == SubSeq(chain, 1, n)
OnChain(b) == IsPrefix(b, chain)

Mine ==
    /\ Len(chain) < MaxHeight
    /\ chain' = Append(chain, forks)
    /\ UNCHANGED <<forks, abandoned, tableVars, run, faults, syncer, traversalVars, batchVars>>

\* The branch is cut back to some height; what is mined next is another block.
Reorg ==
    /\ forks < MaxForks
    /\ \E n \in 1..(Len(chain) - 1) :
          /\ chain' = Block(n)
          /\ abandoned' = abandoned \cup {Block(m) : m \in (n + 1)..Len(chain)}
    /\ forks' = forks + 1
    /\ UNCHANGED <<tableVars, run, faults, syncer, traversalVars, batchVars>>

ProtectAddress ==
    /\ ~protected
    /\ protected' = TRUE
    /\ UNCHANGED <<chainVars, blockHeaders, protectedTxs, rows, run, faults, syncer, traversalVars,
                   batchVars>>

Fault == faults < MaxFaults /\ faults' = faults + 1

-----------------------------------------------------------------------------
(* NewSynchronizer, and the ways the process ends *)

\* LatestBlockHeader, else the header at StartingHeight, else none.
FromHeader ==
    IF blockHeaders # {} THEN CHOOSE b \in blockHeaders : \A c \in blockHeaders : Len(c) <= Len(b)
    ELSE IF StartingHeight > 0 THEN Block(StartingHeight)
    ELSE NoHeader

\* Without an answer for StartingHeight there is no synchronizer.
NewSynchronizer ==
    /\ syncer = "down"
    /\ run < MaxRuns
    /\ StartingHeight <= Len(chain)
    /\ run' = run + 1
    /\ lastTraversed' = FromHeader
    /\ mixed' = FALSE
    /\ syncer' = "idle"
    /\ UNCHANGED <<chainVars, tableVars, faults, endHeight, fetched, batchVars>>

\* What the process held in memory is gone.
GoDown ==
    /\ syncer' = "down"
    /\ lastTraversed' = NoHeader
    /\ endHeight' = 0
    /\ fetched' = <<>>
    /\ headers' = <<>>
    /\ addressList' = FALSE
    /\ parse' = [p \in Parsers |-> "done"]
    /\ words' = <<>>

\* The process is killed, at any point.
Crash ==
    /\ syncer # "down"
    /\ run < MaxRuns
    /\ Fault
    /\ GoDown
    /\ UNCHANGED <<chainVars, tableVars, run, mixed>>

\* NextHeaders reads lastTraversedHeader.Number, for its log line and for Cmp:
\* a nil header, or one whose Number is nil, panics.
NextHeadersPanics ==
    /\ syncer = "idle"
    /\ lastTraversed \in {NoHeader, ZeroHeader}
    /\ GoDown
    /\ UNCHANGED <<chainVars, tableVars, run, faults, mixed>>

-----------------------------------------------------------------------------
(* NextHeaders *)

\* NewSynchronizer passes this to NewHeaderTraversal, whatever is configured.
BlockConfirmationDepth == 0

\* Bug form: one header more than size.
ClampOffByOne(start, end, size) == IF end - start <= size THEN end ELSE start + size

\* bigint.Clamp: the end of a range of at most size headers.
Clamp(start, end, size) == IF (end - start) + 1 <= size THEN end ELSE start + (size - 1)

NextHeight == Len(lastTraversed) + 1

HasLastTraversed == lastTraversed \notin {NoHeader, ZeroHeader}

\* The tick goes on to processBatch, which returns at once without headers.
ToProcessBatch(hs) == syncer' = IF hs = <<>> THEN "idle" ELSE "process"

\* Bug form: a tick without new headers ends there, as one with an error does.
NextHeadersAtHeadContinues ==
    /\ syncer = "idle" /\ HasLastTraversed
    /\ Len(lastTraversed) = Len(chain) - BlockConfirmationDepth
    /\ UNCHANGED vars

\* Nothing new: the tick tries again what failed before, if anything did.
NextHeadersAtHead ==
    /\ syncer = "idle" /\ HasLastTraversed
    /\ Len(lastTraversed) = Len(chain) - BlockConfirmationDepth
    /\ ToProcessBatch(headers)
    /\ UNCHANGED <<chainVars, tableVars, run, faults, traversalVars, batchVars>>

\* The latest header is ahead: fetch a range.  When it is behind the traversal
\* (ErrHeaderTraversalAheadOfProvider), or the node does not answer, the tick
\* ends with nothing changed.
NextHeadersFetches ==
    /\ syncer = "idle" /\ HasLastTraversed
    /\ Len(lastTraversed) < Len(chain) - BlockConfirmationDepth
    /\ endHeight' = Clamp(NextHeight, Len(chain) - BlockConfirmationDepth, BlockStep)
    /\ fetched' = <<>>
    /\ syncer' = "fetch"
    /\ UNCHANGED <<chainVars, tableVars, run, faults, lastTraversed, mixed, batchVars>>

\* The range and its bound are local to the call.
LeaveNextHeaders(l) == syncer' = l /\ fetched' = <<>> /\ endHeight' = 0

FetchHeight == NextHeight + Len(fetched)
IsSingle == NextHeight = endHeight
AnswerHeader(h) == fetched' = Append(fetched, h)

\* BlockHeadersByRange: the node answers the elements of the batch one by one,
\* and its chain may change meanwhile.
FetchHeader ==
    /\ syncer = "fetch" /\ FetchHeight <= endHeight
    /\ FetchHeight <= Len(chain)
    /\ AnswerHeader(Block(FetchHeight))
    /\ UNCHANGED <<chainVars, tableVars, run, faults, syncer, lastTraversed, endHeight, mixed,
                   batchVars>>

\* An element answered with null or an error: BatchElem.Error is not looked at,
\* and the header stays as it was allocated.
FetchElementFails ==
    /\ syncer = "fetch" /\ FetchHeight <= endHeight /\ ~IsSingle
    /\ IF FetchHeight <= Len(chain) THEN Fault ELSE UNCHANGED faults
    /\ AnswerHeader(ZeroHeader)
    /\ UNCHANGED <<chainVars, tableVars, run, syncer, lastTraversed, endHeight, mixed, batchVars>>

\* The whole call fails, or the single header is not there (NotFound).
FetchFails ==
    /\ syncer = "fetch" /\ FetchHeight <= endHeight
    /\ IF IsSingle /\ FetchHeight > Len(chain) THEN UNCHANGED faults ELSE Fault
    /\ LeaveNextHeaders("idle")
    /\ UNCHANGED <<chainVars, tableVars, run, lastTraversed, mixed, batchVars>>

FetchedAll == syncer = "fetch" /\ FetchHeight > endHeight
Extends(h) == h # ZeroHeader /\ Front(h) = lastTraversed
IsBranch(hs) == \A i \in 2..Len(hs) : hs[i] # ZeroHeader /\ Front(hs[i]) = hs[i - 1]

\* Bug form: a mismatch takes the traversal one header back.
HeadersMismatchRewinds ==
    /\ FetchedAll
    /\ ~Extends(fetched[1])
    /\ lastTraversed' = Front(lastTraversed)
    /\ LeaveNextHeaders("idle")
    /\ UNCHANGED <<chainVars, tableVars, run, faults, mixed, batchVars>>

\* ErrHeaderTraversalAndProviderMismatchedState.
HeadersMismatch ==
    /\ FetchedAll
    /\ ~Extends(fetched[1])
    /\ LeaveNextHeaders("idle")
    /\ UNCHANGED <<chainVars, tableVars, run, faults, lastTraversed, mixed, batchVars>>

Advance(b) ==
    /\ headers' = fetched
    /\ lastTraversed' = b
    /\ mixed' = (mixed \/ ~IsBranch(fetched))
    /\ LeaveNextHeaders("process")
    /\ UNCHANGED <<chainVars, tableVars, run, faults, addressList, parse, words>>

\* Bug form: the parent of the first header is not compared.
HeadersAdvanceUnchecked == FetchedAll /\ fetched[1] # ZeroHeader /\ Advance(Last(fetched))

\* Only the first header of the range is compared with the last one traversed.
\* The range replaces syncer.headers, also when that is a batch that failed.
HeadersAdvance == FetchedAll /\ Extends(fetched[1]) /\ Advance(Last(fetched))

-----------------------------------------------------------------------------
(* processBatch *)

QueryAddressListFails ==
    /\ syncer = "process"
    /\ Fault
    /\ syncer' = "idle"
    /\ UNCHANGED <<chainVars, tableVars, run, traversalVars, batchVars>>

\* The loop starts the two parsers of its first header and returns what
\* g.Wait() returns.  The traversal never leaves a header without a Number in
\* front, so nothing gets past the first iteration.
StartParsers ==
    /\ syncer = "process"
    /\ addressList' = protected
    /\ parse' = [p \in Parsers |-> "running"]
    /\ syncer' = "parse"
    /\ UNCHANGED <<chainVars, tableVars, run, faults, traversalVars, headers, words>>

Parsing(p) == syncer = "parse" /\ parse[p] = "running"
Finish(p, result) == parse' = [parse EXCEPT ![p] = result]

\* TransactionsToAtBlock: the answer is decoded into a *types.Block, all of whose
\* fields are unexported and which has no UnmarshalJSON.  Whatever transactions
\* the block has, the decoded one has none.
TransactionsToAtBlock(b) == {}

\* The block is asked for by its number, and the transactions found in it are
\* stored under the header; an insert of none does nothing.
ParseTx ==
    /\ Parsing("tx") /\ addressList
    /\ Len(Head(headers)) <= Len(chain)
    /\ protectedTxs' = protectedTxs \cup
           {Head(headers) : t \in TransactionsToAtBlock(Block(Len(Head(headers))))}
    /\ Finish("tx", "done")
    /\ UNCHANGED <<chainVars, protected, blockHeaders, rows, run, faults, syncer, traversalVars,
                   headers, addressList, words>>

\* No such block, or no answer.
ParseTxFails ==
    /\ Parsing("tx") /\ addressList
    /\ IF Len(Head(headers)) <= Len(chain) THEN Fault ELSE UNCHANGED faults
    /\ Finish("tx", "failed")
    /\ UNCHANGED <<chainVars, tableVars, run, syncer, traversalVars, headers, addressList, words>>

\* addressList[0] of an empty list.
ParseTxPanics ==
    /\ Parsing("tx") /\ ~addressList
    /\ GoDown
    /\ UNCHANGED <<chainVars, tableVars, run, faults, mixed>>

Reading == Parsing("storage") /\ Len(words) < StorageReads

\* Bug form: a word is that of the block before the latest one.
ReadWordLate ==
    /\ Reading
    /\ words' = Append(words, Front(chain)) /\ UNCHANGED faults
    /\ UNCHANGED <<chainVars, tableVars, run, syncer, traversalVars, headers, addressList, parse>>

\* One eth_getStorageAt.  Every word is read at what is the latest block by then,
\* whatever the header, and blocks and reorgs come between two of them; a word
\* that cannot be read counts as empty.
ReadWord ==
    /\ Reading
    /\ \/ words' = Append(words, chain) /\ UNCHANGED faults
       \/ words' = Append(words, ZeroHeader) /\ Fault
    /\ UNCHANGED <<chainVars, tableVars, run, syncer, traversalVars, headers, addressList, parse>>

\* All values are there, and are stored in one transaction.
ReadAll == Parsing("storage") /\ Len(words) = StorageReads

ParseStorage ==
    /\ ReadAll
    /\ rows' = rows \cup {[block |-> Head(headers), words |-> words, run |-> run]}
    /\ words' = <<>>
    /\ Finish("storage", "done")
    /\ UNCHANGED <<chainVars, protected, blockHeaders, protectedTxs, run, faults, syncer,
                   traversalVars, headers, addressList>>

ParseStorageFails ==
    /\ ReadAll
    /\ Fault
    /\ words' = <<>>
    /\ Finish("storage", "failed")
    /\ UNCHANGED <<chainVars, tableVars, run, syncer, traversalVars, headers, addressList>>

\* So are the address list and the two results.
LeaveProcessBatch ==
    /\ syncer' = "idle"
    /\ addressList' = FALSE
    /\ parse' = [p \in Parsers |-> "done"]
    /\ UNCHANGED words

\* Bug form: the error of the storage parser is lost.
BatchEndsOnTxResult ==
    /\ syncer = "parse"
    /\ \A p \in Parsers : parse[p] # "running"
    /\ headers' = IF parse["tx"] = "failed" THEN headers ELSE <<>>
    /\ LeaveProcessBatch
    /\ UNCHANGED <<chainVars, tableVars, run, faults, traversalVars>>

\* g.Wait(): the batch is kept for another try when either failed.
BatchEnds ==
    /\ syncer = "parse"
    /\ \A p \in Parsers : parse[p] # "running"
    /\ headers' = IF \E p \in Parsers : parse[p] = "failed" THEN headers ELSE <<>>
    /\ LeaveProcessBatch
    /\ UNCHANGED <<chainVars, tableVars, run, faults, traversalVars>>

-----------------------------------------------------------------------------

Init ==
    /\ chain = [n \in 1..StartingHeight |-> 0]
    /\ forks = 0
    /\ abandoned = {}
    /\ protected \in BOOLEAN
    /\ blockHeaders = {}
    /\ protectedTxs = {}
    /\ rows = {}
    /\ run = 0
    /\ faults = 0
    /\ syncer = "down"
    /\ lastTraversed = NoHeader
    /\ endHeight = 0
    /\ fetched = <<>>
    /\ headers = <<>>
    /\ addressList = FALSE
    /\ parse = [p \in Parsers |-> "done"]
    /\ words = <<>>
    /\ mixed = FALSE

NextHeaders ==
    \/ NextHeadersPanics \/ NextHeadersAtHead \/ NextHeadersFetches
    \/ FetchHeader \/ FetchElementFails \/ FetchFails
    \/ HeadersMismatch \/ HeadersAdvance

ParseTransactions == ParseTx \/ ParseTxFails \/ ParseTxPanics
ParseStorages == ReadWord \/ ParseStorage \/ ParseStorageFails

Next ==
    \/ Mine \/ Reorg \/ ProtectAddress
    \/ NewSynchronizer \/ Crash
    \/ NextHeaders
    \/ QueryAddressListFails \/ StartParsers
    \/ ParseTransactions \/ ParseStorages \/ BatchEnds

Spec == Init /\ [][Next]_vars

\* The ticker goroutine and the parsers run whenever they can.  Nobody is
\* obliged to restart the process, and the number of faults is bounded: the
\* node and the database answer in the end.
Fairness ==
    /\ WF_vars(NextHeaders)
    /\ WF_vars(QueryAddressListFails \/ StartParsers \/ BatchEnds)
    /\ WF_vars(ParseTransactions) /\ WF_vars(ParseStorages)

FairSpec == Spec /\ Fairness

-----------------------------------------------------------------------------
(* Properties *)

\* The type invariant; a range stays within BlockStep headers.
TypeOK ==
    /\ chain \in Blocks /\ forks \in Nat
    /\ abandoned \subseteq Blocks
    /\ protected \in BOOLEAN /\ addressList \in BOOLEAN /\ mixed \in BOOLEAN
    /\ blockHeaders \subseteq Blocks /\ protectedTxs \subseteq Blocks
    /\ rows \subseteq Rows
    /\ run \in Nat /\ faults \in Nat
    /\ syncer \in {"down", "idle", "fetch", "process", "parse"}
    /\ lastTraversed \in Blocks \cup {NoHeader, ZeroHeader}
    /\ endHeight \in Nat
    /\ fetched \in Seq(Blocks \cup {ZeroHeader}) /\ Len(fetched) <= BlockStep
    /\ headers \in Seq(Blocks \cup {ZeroHeader}) /\ Len(headers) <= BlockStep
    /\ parse \in [Parsers -> {"running", "done", "failed"}]
    /\ words \in Seq(Words) /\ Len(words) <= StorageReads

\* Rows that one run of the process stored for a height are labelled with one
\* block, however the chain reorganises between the polls and within a range:
\* the traversal never comes back to a height (header_traversal.go:60-91).
OneBlockPerHeight ==
    \A a, b \in rows : a.run = b.run /\ Len(a.block) = Len(b.block) => a.block = b.block

\* As long as every range a run fetched was a branch in itself, all its rows lie
\* on one branch: the check of the first parent carries over from range to
\* range (header_traversal.go:85-91).
OneBranch ==
    ~mixed => \A a, b \in {row \in rows : row.run = run} :
        IsPrefix(a.block, b.block) \/ IsPrefix(b.block, a.block)

\* A row is put together from several reads at the latest block, and blocks and
\* reorgs may come between any two of them.  Every word it holds is that of the
\* block it is labelled with or of a descendant, unless a reorg took that block
\* away; and a later word is that of the same block as an earlier one or of a
\* descendant, unless a reorg took the earlier one's away: a row may mix blocks of
\* a branch, but mixes two branches only across a reorg
\* (synchronizer.go:216-261, storage/utils/scan.go:15-30).
RowsMatchLabel ==
    \A row \in rows : \A i \in DOMAIN row.words : row.words[i] # ZeroHeader =>
        /\ row.block \in abandoned \/ IsPrefix(row.block, row.words[i])
        /\ \A j \in DOMAIN row.words : i < j /\ row.words[j] # ZeroHeader =>
              row.words[i] \in abandoned \/ IsPrefix(row.words[i], row.words[j])

\* A batch that the process lets go of while it lives has its first block's
\* storage stored by this run, however often it was retried and whichever of its
\* two parsers failed before; the next range may still replace a batch
\* (synchronizer.go:86-95, 148-172).
LetGoWhenStored ==
    [][(headers # <<>> /\ headers' = <<>> /\ syncer' # "down")
        => \E row \in rows : row.block = Head(headers) /\ row.run = run]_vars

\* A synchronizer whose last header stays on the node's chain catches up with
\* the latest one and has nothing left to retry, unless it goes down.
CatchesUp ==
    (HasLastTraversed /\ OnChain(lastTraversed)) ~>
        \/ syncer = "down" \/ ~HasLastTraversed \/ ~OnChain(lastTraversed)
        \/ lastTraversed = chain /\ headers = <<>>

\* What the code says of a batch it is done with: processBatch writes its block
\* headers to the database (synchronizer.go:175-176), and its parser of
\* transactions fetches the block with full transaction objects and keeps those
\* to the protected address (node.go:91, 99).  Said of a batch whose first block
\* has such a transaction and is still on the chain.
BatchStored ==
    [][(/\ headers # <<>> /\ headers' = <<>> /\ syncer' # "down"
        /\ Head(headers) \in TxBlocks \ abandoned)
        => /\ {headers[i] : i \in DOMAIN headers} \ {ZeroHeader} \subseteq blockHeaders'
           /\ Head(headers) \in protectedTxs']_vars

-----------------------------------------------------------------------------
(* What a reader of the rows may rely on *)

InHand == IF headers = <<>> THEN NoHeader ELSE Head(headers)

\* The refinement mapping.
Contract == INSTANCE StoreContract WITH
    NoBlock <- NoHeader, Unread <- ZeroHeader,
    up <- syncer # "down", inHand <- InHand, gone <- abandoned

\* The synchronizer implements StoreContract: within a run the labels of the rows
\* go up, through failed fetches, retried batches and reorgs, and a restart
\* changes nothing that was stored (synchronizer.go:69-172).
ImplementsContract == Contract!Spec

=============================================================================
