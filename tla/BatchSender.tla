---------------------------- MODULE BatchSender ----------------------------
(***************************************************************************)
(* BatchTransactionSender (txmgr/ethereum/transaction.go): a bounded       *)
(* request queue, workers that turn each request into one transaction per  *)
(* update, a bounded response queue, Start and Stop.  Each worker reads    *)
(* the account's "latest" nonce before it publishes, and nothing makes the *)
(* two steps one.                                                          *)
(*                                                                         *)
(* The node is external: it keeps what it accepted for the account, mines  *)
(* in nonce order, and rejects a nonce that is taken (every request is     *)
(* priced alike, so no transaction replaces another).  So is whoever else  *)
(* signs for the account: the key is the operator's.  The replayer's       *)
(* SendMutationTransactions, which has that key too, is not one of them:   *)
(* OfflineSignTx puts its typed transactions into an RLP string, which a   *)
(* node refuses, so nothing it sends is ever accepted.                     *)
(***************************************************************************)
EXTENDS Naturals, Sequences, FiniteSets

CONSTANTS
    Requests,       \* identities of the TransactionRequests
    Workers,        \* bts.workerCount goroutines
    Updates,        \* [Requests -> Nat]: len(InputUpdates) + len(StorageUpdates)
    ChanSize,       \* capacity of requestChan and responseChan (100 in the code)
    MaxForeign,     \* bound: transactions that somebody else signs for the account
    Foreign,        \* stands for somebody else as the owner of a transaction
    None            \* no request

ASSUME BatchSenderAssumption ==
    /\ Updates \in [Requests -> Nat]
    /\ ChanSize \in Nat \ {0}
    /\ MaxForeign \in Nat
    /\ Foreign \notin Requests /\ None \notin Requests

VARIABLES
    isStarted,      \* Start has launched the workers
    stop,           \* Stop: "no", "joining" (stopChan closed), "closed"
    submitted,      \* the requests SubmitRequest was called with
    requestChan,    \* requests queued
    responseChan,   \* responses queued
    received,       \* responses read from GetResponseChan
    lost,           \* history: requests whose request or response was dropped
    worker,         \* [Workers -> where the goroutine is]
    request,        \* [Workers -> req, or None]
    nonce,          \* [Workers -> nonce, the next one to sign with]
    sent,           \* [Workers -> len(txResponses)]
    success,        \* [Workers -> response.Success]
    accepted,       \* node: the transactions accepted for the account
    latest          \* node: the account's nonce at the latest block

queueVars == <<isStarted, stop, submitted, requestChan, responseChan, received, lost>>
workerVars == <<worker, request, nonce, sent, success>>
nodeVars == <<accepted, latest>>
vars == <<isStarted, stop, submitted, requestChan, responseChan, received, lost,
          worker, request, nonce, sent, success, accepted, latest>>

Owners == Requests \cup {Foreign}
Transactions == [nonce : Nat, owner : Owners, index : Nat]
Responses == [req : Requests, success : BOOLEAN]

\* Stop holds bts.mutex for writing from its first statement to its last.
MutexFree == stop # "joining"
IsStopped == stop # "no"
\* Bug form: Stop does not close stopChan.
StopChanNeverClosed == stop = "closed"
StopChanClosed == stop # "no"
Running == {"select", "nonce", "send", "respond"}

-----------------------------------------------------------------------------
(* The node, external. *)

Taken(n) == n < latest \/ \E tx \in accepted : tx.nonce = n

Accept(n, owner, i) ==
    accepted' = accepted \cup {[nonce |-> n, owner |-> owner, index |-> i]}

\* The next transaction of the account gets into a block.
Mine ==
    /\ \E tx \in accepted : tx.nonce = latest
    /\ latest' = latest + 1
    /\ UNCHANGED <<queueVars, workerVars, accepted>>

\* Somebody else signs for the account, with the latest nonce as the workers do:
\* at any moment, so also between a worker's reading of the nonce and its sending.
ForeignSends ==
    /\ Cardinality({tx \in accepted : tx.owner = Foreign}) < MaxForeign
    /\ ~Taken(latest)
    /\ Accept(latest, Foreign, 1)
    /\ UNCHANGED <<queueVars, workerVars, latest>>

-----------------------------------------------------------------------------
(* Start, SubmitRequest, Stop, and the reader of the responses *)

Start ==
    /\ MutexFree
    /\ ~isStarted /\ ~IsStopped
    /\ isStarted' = TRUE
    /\ worker' = [w \in Workers |-> "select"]
    /\ UNCHANGED <<nodeVars, request, nonce, sent, success,
                   stop, submitted, requestChan, responseChan, received, lost>>

\* Bug form: the queue has no limit.
SubmitRequestUnbounded(r) ==
    /\ MutexFree
    /\ r \notin submitted
    /\ submitted' = submitted \cup {r}
    /\ requestChan' = Append(requestChan, r)
    /\ UNCHANGED <<workerVars, nodeVars, isStarted, stop,
                   responseChan, received, lost>>

\* Under the read lock, so never between the steps of Stop.  The select never
\* blocks: a full queue drops the request.
SubmitRequest(r) ==
    /\ MutexFree
    /\ r \notin submitted
    /\ submitted' = submitted \cup {r}
    /\ IF ~IsStopped /\ Len(requestChan) < ChanSize
       THEN requestChan' = Append(requestChan, r) /\ UNCHANGED lost
       ELSE lost' = lost \cup {r} /\ UNCHANGED requestChan
    /\ UNCHANGED <<workerVars, nodeVars, isStarted, stop, responseChan, received>>

\* stopOnce, the lock, isStopped, close(stopChan).
StopBegin ==
    /\ stop = "no"
    /\ stop' = "joining"
    /\ UNCHANGED <<workerVars, nodeVars, isStarted, submitted,
                   requestChan, responseChan, received, lost>>

\* Bug form: the channels are closed without wg.Wait().
StopWithoutWait ==
    /\ stop = "joining"
    /\ stop' = "closed"
    /\ UNCHANGED <<workerVars, nodeVars, isStarted, submitted,
                   requestChan, responseChan, received, lost>>

\* wg.Wait(), then both channels are closed and the lock is released.  What is
\* still in requestChan stays there: nobody is left to read it.
StopEnd ==
    /\ stop = "joining"
    /\ \A w \in Workers : worker[w] \notin Running
    /\ stop' = "closed"
    /\ UNCHANGED <<workerVars, nodeVars, isStarted, submitted,
                   requestChan, responseChan, received, lost>>

\* A reader of GetResponseChan, external; a closed channel still gives what it holds.
ReceiveResponse ==
    /\ responseChan # <<>>
    /\ received' = received \cup {Head(responseChan)}
    /\ responseChan' = Tail(responseChan)
    /\ UNCHANGED <<workerVars, nodeVars, isStarted, stop, submitted, requestChan, lost>>

-----------------------------------------------------------------------------
(* worker, and SendTransactionFromPackage inside it *)

Goto(w, l) == worker' = [worker EXCEPT ![w] = l]

Respond(w, ok) ==
    /\ Goto(w, "respond")
    /\ success' = [success EXCEPT ![w] = ok]

TakeRequest(w) ==
    /\ worker[w] = "select"
    /\ requestChan # <<>>
    /\ request' = [request EXCEPT ![w] = Head(requestChan)]
    /\ requestChan' = Tail(requestChan)
    /\ Goto(w, "nonce")
    /\ UNCHANGED <<nodeVars, nonce, sent, success,
                   isStarted, stop, submitted, responseChan, received, lost>>

WorkerStops(w) ==
    /\ worker[w] = "select"
    /\ StopChanClosed
    /\ Goto(w, "done")
    /\ UNCHANGED <<queueVars, nodeVars, request, nonce, sent, success>>

\* client.TxCountByAddress at the latest block: what is pending is not counted.
GetNonce(w) ==
    /\ worker[w] = "nonce"
    /\ nonce' = [nonce EXCEPT ![w] = latest]
    /\ sent' = [sent EXCEPT ![w] = 0]
    /\ Goto(w, "send")
    /\ UNCHANGED <<queueVars, nodeVars, request, success>>

\* Bug form: a request that fails early gets no response.
GetNonceFailsSilently(w) ==
    /\ worker[w] = "nonce"
    /\ sent' = [sent EXCEPT ![w] = 0]
    /\ Goto(w, "select")
    /\ UNCHANGED <<queueVars, nodeVars, request, nonce, success>>

\* The private key does not parse or the node does not answer.
GetNonceFails(w) ==
    /\ worker[w] = "nonce"
    /\ sent' = [sent EXCEPT ![w] = 0]
    /\ Respond(w, FALSE)
    /\ UNCHANGED <<queueVars, nodeVars, request, nonce>>

\* sendTransaction for the next update; the node accepts it.
SendUpdate(w) ==
    /\ worker[w] = "send"
    /\ sent[w] < Updates[request[w]]
    /\ ~Taken(nonce[w])
    /\ Accept(nonce[w], request[w], sent[w] + 1)
    /\ nonce' = [nonce EXCEPT ![w] = @ + 1]
    /\ sent' = [sent EXCEPT ![w] = @ + 1]
    /\ UNCHANGED <<queueVars, worker, request, success, latest>>

\* Bug form: the loop goes on with the next update and the next nonce.
SendUpdateContinues(w) ==
    /\ worker[w] = "send"
    /\ sent[w] < Updates[request[w]]
    /\ nonce' = [nonce EXCEPT ![w] = @ + 1]
    /\ sent' = [sent EXCEPT ![w] = @ + 1]
    /\ UNCHANGED <<queueVars, nodeVars, worker, request, success>>

\* It fails: the data does not pack, the nonce is taken, or the call fails with
\* the transaction delivered or not.  The error ends the package; what was
\* published before it stays published.
SendUpdateFails(w) ==
    /\ worker[w] = "send"
    /\ sent[w] < Updates[request[w]]
    /\ \/ UNCHANGED accepted
       \/ ~Taken(nonce[w]) /\ Accept(nonce[w], request[w], sent[w] + 1)
    /\ Respond(w, FALSE)
    /\ UNCHANGED <<queueVars, request, nonce, sent, latest>>

\* Every update was published; with none there is no successful one to name.
PackageDone(w) ==
    /\ worker[w] = "send"
    /\ sent[w] = Updates[request[w]]
    /\ Respond(w, sent[w] > 0)
    /\ UNCHANGED <<queueVars, nodeVars, request, nonce, sent>>

\* The select on responseChan <- response: the response is queued...
PushResponse(w) ==
    /\ worker[w] = "respond"
    /\ Len(responseChan) < ChanSize
    /\ responseChan' = Append(responseChan, [req |-> request[w], success |-> success[w]])
    /\ request' = [request EXCEPT ![w] = None]
    /\ Goto(w, "select")
    /\ UNCHANGED <<nodeVars, nonce, sent, success,
                   isStarted, stop, submitted, requestChan, received, lost>>

\* ...or the worker stops with it, also when there was room...
PushResponseStopped(w) ==
    /\ worker[w] = "respond"
    /\ StopChanClosed
    /\ lost' = lost \cup {request[w]}
    /\ request' = [request EXCEPT ![w] = None]
    /\ Goto(w, "done")
    /\ UNCHANGED <<nodeVars, nonce, sent, success,
                   isStarted, stop, submitted, requestChan, responseChan, received>>

\* ...or the queue is full, nothing stops, and the response is dropped.
DropResponse(w) ==
    /\ worker[w] = "respond"
    /\ Len(responseChan) = ChanSize
    /\ ~StopChanClosed
    /\ lost' = lost \cup {request[w]}
    /\ request' = [request EXCEPT ![w] = None]
    /\ Goto(w, "select")
    /\ UNCHANGED <<nodeVars, nonce, sent, success,
                   isStarted, stop, submitted, requestChan, responseChan, received>>

-----------------------------------------------------------------------------

Init ==
    /\ isStarted = FALSE
    /\ stop = "no"
    /\ submitted = {}
    /\ requestChan = <<>> /\ responseChan = <<>>
    /\ received = {}
    /\ lost = {}
    /\ worker = [w \in Workers |-> "off"]
    /\ request = [w \in Workers |-> None]
    /\ nonce = [w \in Workers |-> 0]
    /\ sent = [w \in Workers |-> 0]
    /\ success = [w \in Workers |-> FALSE]
    /\ accepted = {}
    /\ latest = 0

Worker(w) ==
    \/ TakeRequest(w) \/ WorkerStops(w)
    \/ GetNonce(w) \/ GetNonceFails(w)
    \/ SendUpdate(w) \/ SendUpdateFails(w) \/ PackageDone(w)
    \/ PushResponse(w) \/ PushResponseStopped(w) \/ DropResponse(w)

Next ==
    \/ Mine \/ ForeignSends
    \/ Start \/ StopBegin \/ StopEnd
    \/ \E r \in Requests : SubmitRequest(r)
    \/ ReceiveResponse
    \/ \E w \in Workers : Worker(w)

Spec == Init /\ [][Next]_vars

\* Goroutines that can run do run, and Stop, once called, goes on.  Nothing
\* obliges a caller to call Start or Stop or to read the responses.
Fairness ==
    /\ \A w \in Workers : WF_vars(Worker(w))
    /\ WF_vars(StopEnd)

FairSpec == Spec /\ Fairness

-----------------------------------------------------------------------------
(* Properties *)

\* The type invariant; both queues keep within the capacity of their channels.
TypeOK ==
    /\ isStarted \in BOOLEAN
    /\ stop \in {"no", "joining", "closed"}
    /\ submitted \subseteq Requests
    /\ requestChan \in Seq(Requests) /\ Len(requestChan) <= ChanSize
    /\ responseChan \in Seq(Responses) /\ Len(responseChan) <= ChanSize
    /\ received \subseteq Responses
    /\ lost \subseteq Requests
    /\ worker \in [Workers -> Running \cup {"off", "done"}]
    /\ request \in [Workers -> Requests \cup {None}]
    /\ nonce \in [Workers -> Nat]
    /\ sent \in [Workers -> Nat]
    /\ success \in [Workers -> BOOLEAN]
    /\ accepted \subseteq Transactions
    /\ latest \in Nat

\* No worker is left when Stop closes the channels (transaction.go:598-620): a
\* worker still busy would send its response on a closed channel and panic.
NoWorkerAfterStop ==
    stop = "closed" => \A w \in Workers : worker[w] \notin Running

\* How often a request is queued, being processed, answered or lost.
Places(r) ==
    Cardinality({i \in DOMAIN requestChan : requestChan[i] = r})
    + Cardinality({w \in Workers : request[w] = r /\ worker[w] \in {"nonce", "send", "respond"}})
    + Cardinality({i \in DOMAIN responseChan : responseChan[i].req = r})
    + Cardinality({p \in received : p.req = r})
    + Cardinality({r} \cap lost)

\* Across the queues, the workers, the drops and Stop, a submitted request is in
\* exactly one place: never answered twice, never gone without a full queue or
\* a Stop to blame (transaction.go:647-704).
RequestConserved ==
    \A r \in Requests : Places(r) = IF r \in submitted THEN 1 ELSE 0

\* The nonces accepted for the account have no gap, whatever the workers and
\* another signer interleave and whichever publication fails: a gap would hold up
\* every later transaction (transaction.go:196-231).
NoNonceGap ==
    \A tx \in accepted : \A n \in latest..tx.nonce : Taken(n)

\* A response says Success only when every update of its package was accepted,
\* under consecutive nonces (transaction.go:206-252).
SuccessIsPublished ==
    \A p \in received \cup {responseChan[i] : i \in DOMAIN responseChan} :
        p.success =>
            /\ Updates[p.req] > 0
            /\ \E first \in {tx.nonce : tx \in accepted} : \A i \in 1..Updates[p.req] :
                  [nonce |-> first + i - 1, owner |-> p.req, index |-> i] \in accepted

\* Once called, Stop returns: every worker leaves, busy or not, although Stop
\* holds the lock meanwhile (transaction.go:578-622).
StopReturns == stop = "joining" ~> stop = "closed"

\* A started sender answers every request it was given, or drops it for a full
\* queue, or is stopped.
RequestAnswered ==
    \A r \in Requests :
        (isStarted /\ r \in submitted) ~>
            \/ r \in lost \/ IsStopped
            \/ \E p \in received \cup {responseChan[i] : i \in DOMAIN responseChan} : p.req = r

-----------------------------------------------------------------------------
(* What a caller may rely on *)

Answers == received \cup {responseChan[i] : i \in DOMAIN responseChan}

\* What has become of a request, as its caller can tell.
Status(r) ==
    IF r \notin submitted THEN "new"
    ELSE IF r \in lost THEN "lost"
    ELSE IF \E p \in Answers : p.req = r /\ p.success THEN "succeeded"
    ELSE IF \E p \in Answers : p.req = r THEN "failed"
    ELSE "pending"

Phase == IF stop = "no" THEN "open" ELSE IF stop = "joining" THEN "stopping" ELSE "closed"
Statuses == [r \in Requests |-> Status(r)]
Packages == {tx \in accepted : tx.owner \in Requests}

\* The refinement mapping.
Contract == INSTANCE RequestContract WITH
    phase <- Phase, status <- Statuses, published <- Packages

\* The sender, beside another signer for the same account, implements
\* RequestContract: whatever the workers, the queues' limits, failed
\* publications and Stop do, a request gets at most one outcome and keeps it,
\* and each of its updates goes out once, in order (transaction.go:580-704).
ImplementsContract == Contract!Spec

=============================================================================
