----------------------------- MODULE TxManager -----------------------------
(***************************************************************************)
(* One call of SimpleTxManager.Send (txmgr/txmgr.go): the loop that waits  *)
(* on the resubmission ticker, the context and the receipt channel; the    *)
(* sendTxAsync goroutines it launches (attempts), each of which prices,    *)
(* publishes and then watches one transaction in waitMined; and the        *)
(* SendState they share.                                                   *)
(*                                                                         *)
(* The chain behind updateGasPrice, sendTx and ReceiptSource is external.  *)
(* All attempts carry the same nonce, as a replacement by fee must: at     *)
(* most one transaction consumes it at a time, possibly one (Foreign) that *)
(* Send never published, and a reorg may free it again.                    *)
(***************************************************************************)
EXTENDS SendState

CONSTANTS
    Attempts,           \* identities for the sendTxAsync goroutines
    NumConfirmations,   \* Config.NumConfirmations
    MaxHeight,          \* bound: the chain stops growing here
    MaxReorgs,          \* bound: the number of reorgs
    Foreign,            \* a transaction of another sender that takes the nonce
    Failed,             \* the answer of a Send that returns ctxc.Err()
    None                \* no transaction, no hash, no cause, no answer

\* NewSimpleTxManager panics on zero confirmations.
ASSUME TxManagerAssumption ==
    /\ NumConfirmations \in Nat \ {0}
    /\ MaxHeight \in Nat
    /\ MaxReorgs \in Nat
    /\ {None, Foreign, Failed} \cap Hashes = {}
    /\ None \notin {Foreign, Failed, "caller", "gas", "abort", "return"}

VARIABLES
    included,     \* chain: the transaction that consumed the nonce, or None
    height,       \* chain: the block it is in, 0 when none
    tip,          \* chain: the latest block
    epoch,        \* chain: reorgs so far
    published,    \* the hashes that reached a mempool
    pc,           \* [Attempts -> where the goroutine is]
    hash,         \* [Attempts -> the hash of tx, None before updateGasPrice]
    sendErr,      \* [Attempts -> what sendTx answered]
    receipt,      \* [Attempts -> the receipt held by waitMined, or NoReceipt]
    wg,           \* sync.WaitGroup: the goroutines added and not done
    cause,        \* why ctxc is done: None, "caller", "gas", "abort", "return"
    receiptChan,  \* chan *types.Receipt of capacity 1, as a set
    send,         \* the Send goroutine: "loop", "cancel", "wait", "returned"
    answer,       \* what Send returns: NoReceipt before, ErrorAnswer or a receipt
    tooLow        \* history: "nonce too low" answers processed so far

chainVars == <<included, height, tip, epoch>>
goVars == <<pc, hash, sendErr, receipt, wg>>
sendVars == <<cause, receiptChan, send, answer>>
vars == <<minedTxs, nonceTooLowCount, included, height, tip, epoch, published,
          pc, hash, sendErr, receipt, wg, cause, receiptChan, send, answer, tooLow>>

\* A receipt names its transaction and block; the epoch it was read in is
\* kept so that properties can tell whether a reorg happened since.
Receipts == [tx : Hashes, height : Nat, epoch : Nat]
NoReceipt == [tx |-> None, height |-> 0, epoch |-> 0]
ErrorAnswer == [tx |-> Failed, height |-> 0, epoch |-> 0]

\* The positions inside waitMined, and those of a running goroutine.
Watching == {"query", "mark", "unmark", "tip", "select"}
Running == {"gas", "send", "process", "check", "abort", "push"} \cup Watching

Canceled == cause # None
Waiting(a) == pc[a] \in Watching

-----------------------------------------------------------------------------
(* The chain, external. *)

\* A published transaction or a foreign one takes the nonce in a new block.
Mine(tx) ==
    /\ included = None
    /\ tip < MaxHeight
    /\ included' = tx
    /\ height' = tip + 1
    /\ tip' = tip + 1
    /\ UNCHANGED <<sendStateVars, goVars, sendVars, epoch, published, tooLow>>

MineEmpty ==
    /\ tip < MaxHeight
    /\ tip' = tip + 1
    /\ UNCHANGED <<sendStateVars, goVars, sendVars, included, height, epoch, published, tooLow>>

\* The branch that held the transaction is replaced by one, as long, without it.
Reorg ==
    /\ included # None
    /\ epoch < MaxReorgs
    /\ included' = None
    /\ height' = 0
    /\ epoch' = epoch + 1
    /\ UNCHANGED <<sendStateVars, goVars, sendVars, tip, published, tooLow>>

-----------------------------------------------------------------------------
(* sendTxAsync *)

Goto(a, l) == pc' = [pc EXCEPT ![a] = l]

\* Bug form: a return path without wg.Done().
ExitWithoutDone(a) ==
    /\ Goto(a, "done")
    /\ UNCHANGED wg

\* defer wg.Done(): the last thing a goroutine does.
Exit(a) ==
    /\ Goto(a, "done")
    /\ wg' = wg \ {a}

\* The cancel function of ctxc; only the first call has an effect.
Cancel(why) == cause' = IF cause = None THEN why ELSE cause

\* updateGasPrice succeeds with some transaction; two attempts may get the same.
UpdateGasPrice(a) ==
    /\ pc[a] = "gas"
    /\ \E h \in Hashes : hash' = [hash EXCEPT ![a] = h]
    /\ Goto(a, "send")
    /\ UNCHANGED <<sendStateVars, chainVars, sendVars, published, sendErr, receipt, wg, tooLow>>

\* It fails because the context is done: the goroutine just returns.
UpdateGasPriceCanceled(a) ==
    /\ pc[a] = "gas"
    /\ Canceled
    /\ Exit(a)
    /\ UNCHANGED <<sendStateVars, chainVars, sendVars, published, hash, sendErr, receipt, tooLow>>

\* It fails otherwise: the goroutine cancels the whole Send.
UpdateGasPriceFails(a) ==
    /\ pc[a] = "gas"
    /\ Cancel("gas")
    /\ Exit(a)
    /\ UNCHANGED <<sendStateVars, chainVars, published, hash, sendErr, receipt,
                   receiptChan, send, answer, tooLow>>

\* sendTx answers.  A node rejects a consumed nonce and accepts a free one; a
\* failed or canceled call may still have delivered the transaction.
SendTx(a) ==
    /\ pc[a] = "send"
    /\ \E err \in SendErrors :
          /\ err = "nil" => included = None
          /\ err = "nonceTooLow" => included # None
          /\ err = "canceled" => Canceled
          /\ sendErr' = [sendErr EXCEPT ![a] = err]
          /\ published' \in IF err = "nil" THEN {published \cup {hash[a]}}
                            ELSE IF err = "nonceTooLow" \/ included # None THEN {published}
                            ELSE {published, published \cup {hash[a]}}
    /\ Goto(a, "process")
    /\ UNCHANGED <<sendStateVars, chainVars, sendVars, hash, receipt, wg, tooLow>>

\* sendState.ProcessSendError, then on to waitMined, out, or to the abort check.
HandleSendResult(a) ==
    /\ pc[a] = "process"
    /\ ProcessSendError(sendErr[a])
    /\ tooLow' = IF sendErr[a] = "nonceTooLow" THEN tooLow + 1 ELSE tooLow
    /\ \/ /\ sendErr[a] = "nil"
          /\ Goto(a, "query")
          /\ UNCHANGED wg
       \/ /\ sendErr[a] = "canceled"
          /\ Exit(a)
       \/ /\ sendErr[a] \in {"nonceTooLow", "other"}
          /\ Goto(a, "check")
          /\ UNCHANGED wg
    /\ UNCHANGED <<chainVars, sendVars, published, hash, sendErr, receipt>>

\* sendState.ShouldAbortImmediately; cancel() follows outside its lock.
CheckAbort(a) ==
    /\ pc[a] = "check"
    /\ \/ /\ ShouldAbortImmediately
          /\ Goto(a, "abort")
          /\ UNCHANGED wg
       \/ /\ ~ShouldAbortImmediately
          /\ Exit(a)
    /\ UNCHANGED <<sendStateVars, chainVars, sendVars, published, hash, sendErr, receipt, tooLow>>

Abort(a) ==
    /\ pc[a] = "abort"
    /\ Cancel("abort")
    /\ Exit(a)
    /\ UNCHANGED <<sendStateVars, chainVars, published, hash, sendErr, receipt,
                   receiptChan, send, answer, tooLow>>

-----------------------------------------------------------------------------
(* waitMined *)

\* Bug form: one confirmation too few.
ConfirmedOffByOne(txHeight, tipHeight) == txHeight + NumConfirmations <= tipHeight + 2

\* The block of the transaction counts as its first confirmation.
Confirmed(txHeight, tipHeight) == txHeight + NumConfirmations <= tipHeight + 1

\* backend.TransactionReceipt answers with a receipt, with (nil, nil), or with
\* an error, which leaves sendState alone.
ReceiptFound(a) ==
    /\ pc[a] = "query"
    /\ included = hash[a]
    /\ receipt' = [receipt EXCEPT ![a] = [tx |-> hash[a], height |-> height, epoch |-> epoch]]
    /\ Goto(a, "mark")
    /\ UNCHANGED <<sendStateVars, chainVars, sendVars, published, hash, sendErr, wg, tooLow>>

ReceiptAbsent(a) ==
    /\ pc[a] = "query"
    /\ included # hash[a]
    /\ Goto(a, "unmark")
    /\ UNCHANGED <<sendStateVars, chainVars, sendVars, published, hash, sendErr, receipt, wg, tooLow>>

ReceiptFails(a) ==
    /\ pc[a] = "query"
    /\ Goto(a, "select")
    /\ UNCHANGED <<sendStateVars, chainVars, sendVars, published, hash, sendErr, receipt, wg, tooLow>>

MarkMined(a) ==
    /\ pc[a] = "mark"
    /\ TxMined(hash[a])
    /\ Goto(a, "tip")
    /\ UNCHANGED <<chainVars, sendVars, published, hash, sendErr, receipt, wg, tooLow>>

MarkNotMined(a) ==
    /\ pc[a] = "unmark"
    /\ TxNotMined(hash[a])
    /\ Goto(a, "select")
    /\ UNCHANGED <<chainVars, sendVars, published, hash, sendErr, receipt, wg, tooLow>>

\* backend.BlockNumber, in a call of its own after the receipt was read.
TipConfirms(a) ==
    /\ pc[a] = "tip"
    /\ Confirmed(receipt[a].height, tip)
    /\ Goto(a, "push")
    /\ UNCHANGED <<sendStateVars, chainVars, sendVars, published, hash, sendErr, receipt, wg, tooLow>>

\* An error or a missing confirmation drops the receipt until the next query.
TipDoesNotConfirm(a) ==
    /\ pc[a] = "tip"
    /\ receipt' = [receipt EXCEPT ![a] = NoReceipt]
    /\ Goto(a, "select")
    /\ UNCHANGED <<sendStateVars, chainVars, sendVars, published, hash, sendErr, wg, tooLow>>

\* The select at the end of the loop: the context is done, or the query ticker
\* fires.  When both are ready Go picks either.
SelectDone(a) ==
    /\ pc[a] = "select"
    /\ Canceled
    /\ Exit(a)
    /\ UNCHANGED <<sendStateVars, chainVars, sendVars, published, hash, sendErr, receipt, tooLow>>

SelectTick(a) ==
    /\ pc[a] = "select"
    /\ Goto(a, "query")
    /\ UNCHANGED <<sendStateVars, chainVars, sendVars, published, hash, sendErr, receipt, wg, tooLow>>

\* Bug form: an unbuffered channel, on which the non-blocking send finds nobody.
PushReceiptLost(a) ==
    /\ pc[a] = "push"
    /\ Exit(a)
    /\ UNCHANGED <<sendStateVars, chainVars, sendVars, published, hash, sendErr, receipt, tooLow>>

\* The non-blocking send on receiptChan, whose buffer holds one receipt.
PushReceipt(a) ==
    /\ pc[a] = "push"
    /\ receiptChan' = IF receiptChan = {} THEN {receipt[a]} ELSE receiptChan
    /\ Exit(a)
    /\ UNCHANGED <<sendStateVars, chainVars, published, hash, sendErr, receipt,
                   cause, send, answer, tooLow>>

-----------------------------------------------------------------------------
(* The body of Send *)

\* wg.Add(1); go sendTxAsync().
Launch(a) ==
    /\ pc[a] = "idle"
    /\ Goto(a, "gas")
    /\ wg' = wg \cup {a}

\* The ticker fires and no transaction is waiting for confirmations.
Resubmit(a) ==
    /\ send = "loop"
    /\ ~IsWaitingForConfirmation
    /\ Launch(a)
    /\ UNCHANGED <<sendStateVars, chainVars, sendVars, published, hash, sendErr, receipt, tooLow>>

ReturnError ==
    /\ send = "loop"
    /\ Canceled
    /\ answer' = ErrorAnswer
    /\ send' = "cancel"
    /\ UNCHANGED <<sendStateVars, chainVars, goVars, cause, receiptChan, published, tooLow>>

ReturnReceipt ==
    /\ send = "loop"
    /\ \E r \in receiptChan : answer' = r
    /\ receiptChan' = {}
    /\ send' = "cancel"
    /\ UNCHANGED <<sendStateVars, chainVars, goVars, cause, published, tooLow>>

\* defer cancel(), which runs before the deferred wg.Wait().
DeferredCancel ==
    /\ send = "cancel"
    /\ Cancel("return")
    /\ send' = "wait"
    /\ UNCHANGED <<sendStateVars, chainVars, goVars, receiptChan, answer, published, tooLow>>

\* Bug form: Send returns without waiting for its goroutines.
ReturnWithoutWait ==
    /\ send = "wait"
    /\ send' = "returned"
    /\ UNCHANGED <<sendStateVars, chainVars, goVars, cause, receiptChan, answer, published, tooLow>>

\* defer wg.Wait().
DeferredWait ==
    /\ send = "wait"
    /\ wg = {}
    /\ send' = "returned"
    /\ UNCHANGED <<sendStateVars, chainVars, goVars, cause, receiptChan, answer, published, tooLow>>

\* The caller's context is canceled or passes its deadline.
CallerCancels ==
    /\ send = "loop"
    /\ cause = None
    /\ cause' = "caller"
    /\ UNCHANGED <<sendStateVars, chainVars, goVars, receiptChan, send, answer, published, tooLow>>

-----------------------------------------------------------------------------

Init ==
    /\ NewSendState
    /\ included = None /\ height = 0 /\ tip = 0 /\ epoch = 0
    /\ published = {}
    /\ \E first \in Attempts :
          /\ pc = [a \in Attempts |-> IF a = first THEN "gas" ELSE "idle"]
          /\ wg = {first}
    /\ hash = [a \in Attempts |-> None]
    /\ sendErr = [a \in Attempts |-> "nil"]
    /\ receipt = [a \in Attempts |-> NoReceipt]
    /\ cause = None
    /\ receiptChan = {}
    /\ send = "loop"
    /\ answer = NoReceipt
    /\ tooLow = 0

Chain ==
    \/ \E tx \in published \cup {Foreign} : Mine(tx)
    \/ MineEmpty
    \/ Reorg

SendTxAsync(a) ==
    \/ UpdateGasPrice(a) \/ UpdateGasPriceCanceled(a) \/ UpdateGasPriceFails(a)
    \/ SendTx(a) \/ HandleSendResult(a) \/ CheckAbort(a) \/ Abort(a)
    \/ ReceiptFound(a) \/ ReceiptAbsent(a) \/ ReceiptFails(a)
    \/ MarkMined(a) \/ MarkNotMined(a) \/ TipConfirms(a) \/ TipDoesNotConfirm(a)
    \/ SelectDone(a) \/ SelectTick(a) \/ PushReceipt(a)

Send ==
    \/ \E a \in Attempts : Resubmit(a)
    \/ ReturnError \/ ReturnReceipt \/ DeferredCancel \/ DeferredWait

Next ==
    \/ Chain
    \/ \E a \in Attempts : SendTxAsync(a)
    \/ Send
    \/ CallerCancels

Spec == Init /\ [][Next]_vars

\* The Go scheduler runs every goroutine that can run.  A select whose cases
\* are ready again and again takes each of them eventually (the choice is
\* uniformly random), hence strong fairness of the ctx.Done() case.  Strong
\* fairness of the two answers of the backend says that a query repeated
\* forever is not answered by an error forever.
Fairness ==
    /\ \A a \in Attempts :
          /\ WF_vars(SendTxAsync(a))
          /\ SF_vars(SelectDone(a))
          /\ SF_vars(ReceiptFound(a))
          /\ SF_vars(TipConfirms(a))
    /\ WF_vars(ReturnError \/ ReturnReceipt)
    /\ WF_vars(DeferredCancel)
    /\ WF_vars(DeferredWait)

FairSpec == Spec /\ Fairness

-----------------------------------------------------------------------------
(* Properties *)

\* The type invariant: every variable of Send, of its goroutines and of the
\* chain keeps its type, and receiptChan never holds more than its capacity.
TypeOK ==
    /\ minedTxs \subseteq Hashes
    /\ nonceTooLowCount \in Nat
    /\ included \in Hashes \cup {Foreign, None}
    /\ height \in Nat /\ tip \in Nat /\ epoch \in Nat
    /\ published \subseteq Hashes
    /\ pc \in [Attempts -> Running \cup {"idle", "done"}]
    /\ hash \in [Attempts -> Hashes \cup {None}]
    /\ sendErr \in [Attempts -> SendErrors]
    /\ receipt \in [Attempts -> Receipts \cup {NoReceipt}]
    /\ wg \subseteq Attempts
    /\ cause \in {None, "caller", "gas", "abort", "return"}
    /\ receiptChan \subseteq Receipts
    /\ \A r, s \in receiptChan : r = s
    /\ send \in {"loop", "cancel", "wait", "returned"}
    /\ answer \in Receipts \cup {NoReceipt, ErrorAnswer}
    /\ tooLow \in Nat

\* A receipt that Send returns (txmgr.go:131) was checked against a chain tip
\* deep enough for NumConfirmations, and unless a reorg happened after
\* waitMined read it, its transaction is still in that block and confirmed.
\* The receipt and the tip come from two calls (lines 161 and 169), so the
\* clause on reorgs cannot be dropped.
ReturnedReceiptConfirmed ==
    answer.tx \in Hashes =>
        /\ answer.height + NumConfirmations <= tip + 1
        /\ answer.epoch = epoch => included = answer.tx /\ height = answer.height

\* Send returns only when no goroutine it launched is left (the deferred
\* wg.Wait of txmgr.go:53): nothing prices, publishes or polls afterwards.
NothingOutlivesSend ==
    send = "returned" => \A a \in Attempts : pc[a] \notin Running

\* When some hash is in minedTxs the ticker resubmits nothing (txmgr.go:121),
\* so somebody must still be watching: a goroutine in waitMined for that hash,
\* a receipt on its way, or a Send that is on its way out.
MinedIsWatched ==
    \A h \in minedTxs :
        \/ \E a \in Attempts : hash[a] = h /\ pc[a] \in Watching \cup {"push"}
        \/ receiptChan # {}
        \/ Canceled
        \/ send # "loop"

\* Send gives up over the nonce (txmgr.go:86-88) only when sendTx answered
\* "nonce too low" at least SafeAbortNonceTooLowCount times; other errors,
\* resets and the gap between the check and cancel() never make it earlier.
AbortJustified == cause = "abort" => tooLow >= SafeAbortNonceTooLowCount

\* Once the context is done, whoever ended it, Send returns: every goroutine
\* leaves waitMined and the WaitGroup drains (txmgr.go:127, 201).
CancelReturns == Canceled ~> send = "returned"

\* A transaction that some goroutine watches and that has its confirmations
\* makes Send return, unless a reorg takes it out first (txmgr.go:180-131).
ConfirmedTxReturns ==
    \A a \in Attempts :
        (/\ pc[a] \in Watching \cup {"push"}
         /\ included = hash[a]
         /\ Confirmed(height, tip)) ~> (send = "returned" \/ included # hash[a])

\* What TestTxMgrDoesntAbortNonceTooLowAfterMiningTx says of Send: it does not
\* abort over the nonce when one of its own transactions is mined.
NoAbortAfterMining ==
    [][cause # "abort" /\ cause' = "abort" => included \notin Hashes]_vars

-----------------------------------------------------------------------------
(* The contract Send implements *)

Contract == INSTANCE SendContract WITH
    Txs <- Hashes,
    pool <- published,
    open <- send # "returned",
    outcome <- answer.tx

\* Send implements its contract: it answers once, with an error or with one of
\* the transactions it published, and publishes nothing after it returned.
ImplementsContract == Contract!Spec

=============================================================================
