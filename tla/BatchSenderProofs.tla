------------------------- MODULE BatchSenderProofs -------------------------
(***************************************************************************)
(* Proofs about BatchSender, for any number of workers and requests, any   *)
(* queue capacity and any number of updates per request.                   *)
(***************************************************************************)
EXTENDS BatchSender, FiniteSetTheorems, TLAPS

Busy == {"nonce", "send", "respond"}

\* A busy worker has a request.
RequestInv == \A w \in Workers : worker[w] \in Busy => request[w] \in Requests

\* Whoever is about to sign has no free nonce below its own.
NonceInv ==
    \A w \in Workers : worker[w] = "send" => \A n \in latest..(nonce[w] - 1) : Taken(n)

\* The updates sent so far went out under the nonces just below.
SentInv ==
    \A w \in Workers : worker[w] = "send" =>
        /\ sent[w] <= Updates[request[w]]
        /\ sent[w] <= nonce[w]
        /\ \A i \in 1..sent[w] :
              [nonce |-> nonce[w] - sent[w] + i - 1, owner |-> request[w], index |-> i] \in accepted

\* Every update of the request is among txs, under consecutive nonces.
Published(r, txs) ==
    /\ Updates[r] > 0
    /\ \E first \in Nat : \A i \in 1..Updates[r] :
          [nonce |-> first + i - 1, owner |-> r, index |-> i] \in txs

\* A success is true from the moment a worker decides on it.
SuccessInv ==
    /\ \A w \in Workers : worker[w] = "respond" /\ success[w] => Published(request[w], accepted)
    /\ \A i \in 1..Len(responseChan) : responseChan[i].success => Published(responseChan[i].req, accepted)
    /\ \A p \in received : p.success => Published(p.req, accepted)

-----------------------------------------------------------------------------
(* Types and the end of the workers *)

\* Reading a queue keeps it a queue, no longer than before.
LEMMA HeadTail ==
    ASSUME NEW S, NEW q \in Seq(S), q # <<>>
    PROVE  /\ Head(q) \in S
           /\ Tail(q) \in Seq(S)
           /\ Len(q) \in Nat /\ Len(q) > 0
           /\ Len(Tail(q)) = Len(q) - 1
           /\ Head(q) = q[1]
           /\ \A i \in 1..Len(Tail(q)) : i + 1 \in 1..Len(q) /\ Tail(q)[i] = q[i + 1]
OBVIOUS

\* Every step keeps the types, and a busy worker its request.
LEMMA TypeStep ==
    TypeOK /\ RequestInv /\ [Next]_vars => TypeOK' /\ RequestInv'
<1> SUFFICES ASSUME TypeOK, RequestInv, [Next]_vars PROVE TypeOK' /\ RequestInv'
  OBVIOUS
<1> USE BatchSenderAssumption DEF TypeOK, RequestInv, Busy, Running, Responses, Transactions, Owners, vars, queueVars, workerVars, nodeVars
<1>1. CASE Mine
  BY <1>1 DEF Mine
<1>2. CASE Start
  BY <1>2 DEF Start
<1>3. CASE StopBegin
  BY <1>3 DEF StopBegin
<1>4. CASE StopEnd
  BY <1>4 DEF StopEnd
<1>5. ASSUME NEW r \in Requests, SubmitRequest(r) PROVE TypeOK' /\ RequestInv'
  <2> HIDE DEF Responses
  <2>1. requestChan' \in Seq(Requests) /\ Len(requestChan') <= ChanSize
    <3>1. CASE requestChan' = requestChan
      BY <3>1
    <3>2. CASE requestChan' = Append(requestChan, r) /\ Len(requestChan) < ChanSize
      <4>1. /\ Append(requestChan, r) \in Seq(Requests)
            /\ Len(Append(requestChan, r)) = Len(requestChan) + 1
        OBVIOUS
      <4> QED
        BY <3>2, <4>1
    <3> QED
      BY <1>5, <3>1, <3>2 DEF SubmitRequest
  <2>2. submitted' \subseteq Requests /\ lost' \subseteq Requests
    BY <1>5 DEF SubmitRequest
  <2>3. UNCHANGED <<isStarted, stop, responseChan, received, worker, request, nonce, sent,
                    success, accepted, latest>>
    BY <1>5 DEF SubmitRequest
  <2> QED
    BY <2>1, <2>2, <2>3
<1>6. CASE ReceiveResponse
  <2> HIDE DEF Responses
  <2>1. /\ Head(responseChan) \in Responses
        /\ Tail(responseChan) \in Seq(Responses) /\ Len(Tail(responseChan)) <= ChanSize
    BY <1>6, HeadTail DEF ReceiveResponse
  <2>2. received' \subseteq Responses /\ responseChan' \in Seq(Responses) /\ Len(responseChan') <= ChanSize
    BY <1>6, <2>1 DEF ReceiveResponse
  <2>3. UNCHANGED <<isStarted, stop, submitted, requestChan, lost, worker, request, nonce, sent,
                    success, accepted, latest>>
    BY <1>6 DEF ReceiveResponse
  <2> QED
    BY <2>2, <2>3
<1>7. ASSUME NEW w \in Workers, TakeRequest(w) PROVE TypeOK' /\ RequestInv'
  <2>1. /\ Head(requestChan) \in Requests
        /\ Tail(requestChan) \in Seq(Requests) /\ Len(Tail(requestChan)) <= ChanSize
    BY <1>7, HeadTail DEF TakeRequest
  <2> QED
    BY <1>7, <2>1 DEF TakeRequest, Goto
<1>8. ASSUME NEW w \in Workers, WorkerStops(w) PROVE TypeOK' /\ RequestInv'
  BY <1>8 DEF WorkerStops, Goto
<1>9. ASSUME NEW w \in Workers, GetNonce(w) PROVE TypeOK' /\ RequestInv'
  BY <1>9 DEF GetNonce, Goto
<1>10. ASSUME NEW w \in Workers, GetNonceFails(w) PROVE TypeOK' /\ RequestInv'
  BY <1>10 DEF GetNonceFails, Respond, Goto
<1>11. ASSUME NEW w \in Workers, SendUpdate(w) PROVE TypeOK' /\ RequestInv'
  <2>1. [nonce |-> nonce[w], owner |-> request[w], index |-> sent[w] + 1] \in Transactions
    BY <1>11 DEF SendUpdate
  <2> QED
    BY <1>11, <2>1 DEF SendUpdate, Accept
<1>12. ASSUME NEW w \in Workers, SendUpdateFails(w) PROVE TypeOK' /\ RequestInv'
  <2>1. [nonce |-> nonce[w], owner |-> request[w], index |-> sent[w] + 1] \in Transactions
    BY <1>12 DEF SendUpdateFails
  <2> QED
    BY <1>12, <2>1 DEF SendUpdateFails, Accept, Respond, Goto
<1>13. ASSUME NEW w \in Workers, PackageDone(w) PROVE TypeOK' /\ RequestInv'
  BY <1>13 DEF PackageDone, Respond, Goto
<1>14. ASSUME NEW w \in Workers, PushResponse(w) PROVE TypeOK' /\ RequestInv'
  BY <1>14 DEF PushResponse, Goto
<1>15. ASSUME NEW w \in Workers, PushResponseStopped(w) PROVE TypeOK' /\ RequestInv'
  BY <1>15 DEF PushResponseStopped, Goto
<1>16. ASSUME NEW w \in Workers, DropResponse(w) PROVE TypeOK' /\ RequestInv'
  BY <1>16 DEF DropResponse, Goto
<1>17. CASE ForeignSends
  <2>1. [nonce |-> latest, owner |-> Foreign, index |-> 1] \in Transactions
    OBVIOUS
  <2> QED
    BY <1>17, <2>1 DEF ForeignSends, Accept
<1>18. CASE UNCHANGED vars
  BY <1>18
<1> QED
  BY <1>1, <1>2, <1>3, <1>4, <1>5, <1>6, <1>7, <1>8, <1>9, <1>10, <1>11, <1>12, <1>13, <1>14, <1>15, <1>16, <1>17, <1>18
  DEF Next, Worker

\* Once the channels are closed no worker runs, and none is started again.
LEMMA StopStep ==
    TypeOK /\ NoWorkerAfterStop /\ [Next]_vars => NoWorkerAfterStop'
<1> SUFFICES ASSUME TypeOK, NoWorkerAfterStop, [Next]_vars, stop' = "closed", NEW w \in Workers
             PROVE  worker'[w] \notin Running
  BY DEF NoWorkerAfterStop
<1>1. CASE StopEnd
  BY <1>1 DEF StopEnd, workerVars
<1>2. CASE stop = "closed" /\ ~Start /\ (\A v \in Workers : ~Worker(v))
  BY <1>2 DEF Next, NoWorkerAfterStop, Mine, StopBegin, StopEnd, SubmitRequest, ReceiveResponse,
     ForeignSends, vars, workerVars
<1>3. stop = "closed" => ~Start /\ \A v \in Workers : ~Worker(v)
  BY DEF NoWorkerAfterStop, Running, Start, IsStopped, Worker, TakeRequest, WorkerStops, GetNonce,
     GetNonceFails, SendUpdate, SendUpdateFails, PackageDone, PushResponse, PushResponseStopped,
     DropResponse
<1>4. stop = "closed" \/ StopEnd
  BY DEF Next, Mine, Start, StopBegin, StopEnd, SubmitRequest, ReceiveResponse, Worker, TakeRequest,
     WorkerStops, GetNonce, GetNonceFails, SendUpdate, SendUpdateFails, PackageDone, PushResponse,
     PushResponseStopped, DropResponse, ForeignSends, vars, queueVars
<1> QED
  BY <1>1, <1>2, <1>3, <1>4

\* What a step does to one worker: its own step, the launch, or nothing.
LEMMA WorkerSteps ==
    ASSUME TypeOK, [Next]_vars, NEW w \in Workers
    PROVE  \/ Worker(w)
           \/ worker'[w] = "select"
           \/ /\ worker'[w] = worker[w] /\ request'[w] = request[w] /\ nonce'[w] = nonce[w]
              /\ sent'[w] = sent[w] /\ success'[w] = success[w]
<1>1. ASSUME NEW v \in Workers, v # w, Worker(v)
      PROVE  /\ worker'[w] = worker[w] /\ request'[w] = request[w] /\ nonce'[w] = nonce[w]
             /\ sent'[w] = sent[w] /\ success'[w] = success[w]
  <2>1. CASE TakeRequest(v) \/ WorkerStops(v) \/ GetNonce(v) \/ GetNonceFails(v)
    BY <1>1, <2>1 DEF TypeOK, TakeRequest, WorkerStops, GetNonce, GetNonceFails, Goto, Respond
  <2>2. CASE SendUpdate(v) \/ SendUpdateFails(v) \/ PackageDone(v)
    BY <1>1, <2>2 DEF TypeOK, SendUpdate, SendUpdateFails, PackageDone, Goto, Respond
  <2>3. CASE PushResponse(v) \/ PushResponseStopped(v) \/ DropResponse(v)
    BY <1>1, <2>3 DEF TypeOK, PushResponse, PushResponseStopped, DropResponse, Goto
  <2> QED
    BY <1>1, <2>1, <2>2, <2>3 DEF Worker
<1>2. CASE Start
  BY <1>2 DEF Start
<1>3. CASE UNCHANGED workerVars
  BY <1>3 DEF workerVars
<1>4. ForeignSends => UNCHANGED workerVars
  BY DEF ForeignSends
<1>5. Mine \/ StopBegin \/ StopEnd \/ ReceiveResponse \/ (\E r \in Requests : SubmitRequest(r))
        => UNCHANGED workerVars
  BY DEF Mine, StopBegin, StopEnd, ReceiveResponse, SubmitRequest
<1>6. UNCHANGED vars => UNCHANGED workerVars
  BY DEF vars, workerVars
<1> QED
  BY <1>1, <1>2, <1>3, <1>4, <1>5, <1>6 DEF Next

-----------------------------------------------------------------------------
(* Nonces *)

\* A taken nonce stays taken, and the account's nonce never falls.
LEMMA TakenStays ==
    TypeOK /\ [Next]_vars =>
        /\ accepted \subseteq accepted'
        /\ latest' \in Nat /\ latest <= latest'
        /\ \A n \in Nat : Taken(n) => Taken(n)'
<1> SUFFICES ASSUME TypeOK, [Next]_vars
             PROVE  accepted \subseteq accepted' /\ latest' \in Nat /\ latest <= latest'
  BY DEF TypeOK, Taken
<1>1. CASE Mine
  BY <1>1 DEF Mine, TypeOK
<1>2. CASE latest' = latest /\ accepted \subseteq accepted'
  BY <1>2 DEF TypeOK
<1> QED
  BY <1>1, <1>2 DEF Next, Start, StopBegin, StopEnd, SubmitRequest, ReceiveResponse, Worker,
     TakeRequest, WorkerStops, GetNonce, GetNonceFails, SendUpdate, SendUpdateFails, PackageDone,
     PushResponse, PushResponseStopped, DropResponse, ForeignSends, Accept, vars, nodeVars

\* What a step does to the account's nonce and the transactions: it mines the
\* next one, or somebody who may sign adds one, or neither changes.
LEMMA NodeSteps ==
    TypeOK /\ RequestInv /\ NonceInv /\ [Next]_vars =>
        \/ UNCHANGED nodeVars
        \/ accepted' = accepted /\ latest' = latest + 1 /\ Taken(latest)
        \/ /\ latest' = latest
           /\ \E tx \in Transactions :
                 /\ accepted' = accepted \cup {tx}
                 /\ \A n \in latest..(tx.nonce - 1) : Taken(n)
<1> SUFFICES ASSUME TypeOK, RequestInv, NonceInv, [Next]_vars, ~UNCHANGED nodeVars, ~Mine
             PROVE  /\ latest' = latest
                    /\ \E tx \in Transactions :
                          /\ accepted' = accepted \cup {tx}
                          /\ \A n \in latest..(tx.nonce - 1) : Taken(n)
  BY DEF Mine, Taken
<1>1. CASE \E w \in Workers : SendUpdate(w) \/ SendUpdateFails(w)
  <2>1. PICK w \in Workers : SendUpdate(w) \/ SendUpdateFails(w)
    BY <1>1
  <2> DEFINE tx == [nonce |-> nonce[w], owner |-> request[w], index |-> sent[w] + 1]
  <2>2. accepted' = accepted \cup {tx} /\ latest' = latest
    BY <2>1 DEF SendUpdate, SendUpdateFails, Accept, nodeVars
  <2>3. \A n \in latest..(tx.nonce - 1) : Taken(n)
    BY <2>1 DEF SendUpdate, SendUpdateFails, NonceInv
  <2>4. tx \in Transactions
    <3>1. request[w] \in Requests
      BY <2>1 DEF SendUpdate, SendUpdateFails, RequestInv, Busy
    <3>2. nonce[w] \in Nat /\ sent[w] \in Nat
      BY DEF TypeOK
    <3> QED
      BY <3>1, <3>2 DEF Transactions, Owners
  <2> QED
    BY <2>2, <2>3, <2>4
<1>2. CASE ForeignSends
  <2> DEFINE tx == [nonce |-> latest, owner |-> Foreign, index |-> 1]
  <2>1. accepted' = accepted \cup {tx} /\ latest' = latest
    BY <1>2 DEF ForeignSends, Accept
  <2>2. latest \in Nat /\ \A n \in latest..(tx.nonce - 1) : Taken(n)
    BY DEF TypeOK
  <2>3. tx \in Transactions
    BY <2>2 DEF Transactions, Owners
  <2> QED
    BY <2>1, <2>2, <2>3
<1> QED
  BY <1>1, <1>2 DEF Next, Start, StopBegin, StopEnd, SubmitRequest, ReceiveResponse, Worker,
     TakeRequest, WorkerStops, GetNonce, GetNonceFails, PackageDone, PushResponse,
     PushResponseStopped, DropResponse, vars, nodeVars


\* Whoever is about to sign keeps to the nonces that are free or next.
LEMMA NonceStep ==
    TypeOK /\ NonceInv /\ [Next]_vars => NonceInv'
<1> SUFFICES ASSUME TypeOK, NonceInv, [Next]_vars PROVE NonceInv'
  OBVIOUS
<1>1. latest' \in Nat /\ latest <= latest' /\ \A n \in Nat : Taken(n) => Taken(n)'
  BY TakenStays
<1>2. ASSUME NEW w \in Workers, worker'[w] = "send", NEW n \in latest'..(nonce'[w] - 1)
      PROVE  Taken(n)'
  <2>1. nonce[w] \in Nat /\ latest \in Nat
    BY DEF TypeOK
  <2>2. CASE worker[w] = "send" /\ nonce'[w] = nonce[w]
    <3>1. n \in latest..(nonce[w] - 1) /\ n \in Nat
      BY <1>1, <2>1, <2>2
    <3> QED
      BY <1>1, <2>2, <3>1 DEF NonceInv
  <2>3. CASE GetNonce(w)
    BY <1>1, <2>1, <2>3 DEF GetNonce, TypeOK, nodeVars
  <2>4. CASE SendUpdate(w)
    <3>1. nonce'[w] = nonce[w] + 1 /\ latest' = latest
      BY <2>4 DEF SendUpdate, TypeOK
    <3>2. CASE n = nonce[w]
      <4> DEFINE tx == [nonce |-> nonce[w], owner |-> request[w], index |-> sent[w] + 1]
      <4>1. tx \in accepted' /\ tx.nonce = n
        BY <2>4, <3>2 DEF SendUpdate, Accept
      <4> QED
        BY <4>1 DEF Taken
    <3>3. CASE n \in latest..(nonce[w] - 1) /\ n \in Nat
      BY <1>1, <2>4, <3>3 DEF SendUpdate, NonceInv
    <3> QED
      BY <2>1, <3>1, <3>2, <3>3
  <2> QED
    BY <1>2, <2>2, <2>3, <2>4, WorkerSteps DEF TypeOK, Worker, TakeRequest, WorkerStops,
       GetNonceFails, SendUpdateFails, PackageDone, PushResponse, PushResponseStopped,
       DropResponse, Goto, Respond
<1> QED
  BY <1>2 DEF NonceInv

\* An accepted transaction has no free nonce below it, before or after a step.
LEMMA GapStep ==
    TypeOK /\ RequestInv /\ NonceInv /\ NoNonceGap /\ [Next]_vars => NoNonceGap'
<1> SUFFICES ASSUME TypeOK, RequestInv, NonceInv, NoNonceGap, [Next]_vars,
                    NEW tx \in accepted', NEW n \in latest'..tx.nonce
             PROVE  Taken(n)'
  BY DEF NoNonceGap
<1>1. latest' \in Nat /\ latest <= latest' /\ \A m \in Nat : Taken(m) => Taken(m)'
  BY TakenStays
<1>2. latest \in Nat /\ tx.nonce \in Nat
  <2>1. TypeOK'
    BY TypeStep
  <2> QED
    BY <2>1 DEF TypeOK, Transactions
<1>3. n \in Nat /\ n \in latest..tx.nonce
  BY <1>1, <1>2
<1>4. CASE tx \in accepted
  BY <1>1, <1>3, <1>4 DEF NoNonceGap
<1>5. CASE n = tx.nonce
  BY <1>5 DEF Taken
<1>6. CASE tx \notin accepted /\ n # tx.nonce
  <2>1. \A m \in latest..(tx.nonce - 1) : Taken(m)
    BY <1>6, NodeSteps DEF nodeVars
  <2> QED
    BY <1>1, <1>2, <1>3, <1>6, <2>1
<1> QED
  BY <1>4, <1>5, <1>6

-----------------------------------------------------------------------------
(* What a success says *)

\* A step keeps the updates a worker has sent under consecutive nonces.
LEMMA SentStep ==
    TypeOK /\ RequestInv /\ SentInv /\ [Next]_vars => SentInv'
<1> SUFFICES ASSUME TypeOK, RequestInv, SentInv, [Next]_vars,
                    NEW w \in Workers, worker'[w] = "send"
             PROVE  /\ sent'[w] <= Updates[request'[w]]
                    /\ sent'[w] <= nonce'[w]
                    /\ \A i \in 1..sent'[w] :
                         [nonce |-> nonce'[w] - sent'[w] + i - 1, owner |-> request'[w], index |-> i] \in accepted'
  BY DEF SentInv
<1>1. accepted \subseteq accepted'
  BY TakenStays
<1>2. nonce[w] \in Nat /\ sent[w] \in Nat /\ latest \in Nat
  BY DEF TypeOK
<1>3. CASE worker[w] = "send" /\ nonce'[w] = nonce[w] /\ sent'[w] = sent[w] /\ request'[w] = request[w]
  BY <1>1, <1>3 DEF SentInv
<1>4. CASE GetNonce(w)
  <2>1. sent'[w] = 0 /\ nonce'[w] = latest /\ request'[w] = request[w]
    BY <1>4 DEF GetNonce, TypeOK
  <2>2. Updates[request[w]] \in Nat
    BY <1>4, BatchSenderAssumption DEF GetNonce, RequestInv, Busy
  <2> QED
    BY <1>2, <2>1, <2>2
<1>5. CASE SendUpdate(w)
  <2>1. /\ sent'[w] = sent[w] + 1 /\ nonce'[w] = nonce[w] + 1 /\ request'[w] = request[w]
        /\ worker[w] = "send" /\ sent[w] < Updates[request[w]]
    BY <1>5 DEF SendUpdate, TypeOK
  <2>2. [nonce |-> nonce[w], owner |-> request[w], index |-> sent[w] + 1] \in accepted'
    BY <1>5 DEF SendUpdate, Accept
  <2>3. Updates[request[w]] \in Nat
    BY <2>1, BatchSenderAssumption DEF RequestInv, Busy
  <2>4. sent[w] <= nonce[w]
    BY <2>1 DEF SentInv
  <2>5. ASSUME NEW i \in 1..sent'[w]
        PROVE  [nonce |-> nonce'[w] - sent'[w] + i - 1, owner |-> request'[w], index |-> i] \in accepted'
    <3>1. nonce'[w] - sent'[w] + i - 1 = nonce[w] - sent[w] + i - 1
      BY <1>2, <2>1
    <3>2. CASE i = sent[w] + 1
      <4>1. nonce[w] - sent[w] + i - 1 = nonce[w]
        BY <1>2, <3>2
      <4> QED
        BY <2>1, <2>2, <3>1, <3>2, <4>1
    <3>3. CASE i \in 1..sent[w]
      BY <1>1, <2>1, <3>1, <3>3 DEF SentInv
    <3> QED
      BY <1>2, <2>1, <3>2, <3>3
  <2> QED
    BY <1>2, <2>1, <2>3, <2>4, <2>5
<1> QED
  BY <1>3, <1>4, <1>5, WorkerSteps DEF TypeOK, Worker, TakeRequest, WorkerStops,
     GetNonceFails, SendUpdateFails, PackageDone, PushResponse, PushResponseStopped,
     DropResponse, Goto, Respond

\* What was published stays published.
LEMMA PublishedStays ==
    TypeOK /\ [Next]_vars => \A r : Published(r, accepted) => Published(r, accepted')
BY TakenStays DEF Published

\* A worker decides on a success only for a package it has published.
LEMMA DecideStep ==
    ASSUME TypeOK, RequestInv, SentInv, SuccessInv, [Next]_vars,
           NEW w \in Workers, worker'[w] = "respond", success'[w]
    PROVE  Published(request'[w], accepted')
<1>1. CASE worker[w] = "respond" /\ success[w] /\ request'[w] = request[w]
  BY <1>1, PublishedStays DEF SuccessInv
<1>2. CASE PackageDone(w)
  <2>1. /\ request'[w] = request[w] /\ sent[w] = Updates[request[w]] /\ sent[w] > 0
        /\ worker[w] = "send"
    BY <1>2 DEF PackageDone, Respond, TypeOK
  <2>2. nonce[w] \in Nat /\ sent[w] \in Nat
    BY DEF TypeOK
  <2>3. sent[w] <= nonce[w] /\ \A i \in 1..sent[w] :
          [nonce |-> nonce[w] - sent[w] + i - 1, owner |-> request[w], index |-> i] \in accepted
    BY <2>1 DEF SentInv
  <2>4. nonce[w] - sent[w] \in Nat
    BY <2>2, <2>3
  <2>5. Published(request[w], accepted)
    BY <2>1, <2>3, <2>4 DEF Published
  <2> QED
    BY <2>1, <2>5, PublishedStays
<1> QED
  BY <1>1, <1>2, WorkerSteps DEF TypeOK, Worker, TakeRequest, WorkerStops, GetNonce,
     GetNonceFails, SendUpdate, SendUpdateFails, PushResponse, PushResponseStopped,
     DropResponse, Goto, Respond

\* A success stays true in the worker, in the queue and at the reader.
LEMMA SuccessStep ==
    TypeOK /\ RequestInv /\ SentInv /\ SuccessInv /\ [Next]_vars => SuccessInv'
<1> SUFFICES ASSUME TypeOK, RequestInv, SentInv, SuccessInv, [Next]_vars PROVE SuccessInv'
  OBVIOUS
<1>1. \A r : Published(r, accepted) => Published(r, accepted')
  BY PublishedStays
<1>2. \A w \in Workers : worker'[w] = "respond" /\ success'[w] => Published(request'[w], accepted')
  BY DecideStep
<1>3. /\ \A i \in 1..Len(responseChan') : responseChan'[i].success => Published(responseChan'[i].req, accepted')
      /\ \A p \in received' : p.success => Published(p.req, accepted')
  <2>1. CASE UNCHANGED <<responseChan, received>>
    BY <1>1, <2>1 DEF SuccessInv
  <2>2. CASE ReceiveResponse
    <3>1. /\ Head(responseChan) = responseChan[1] /\ 1 \in 1..Len(responseChan)
          /\ \A i \in 1..Len(Tail(responseChan)) :
               i + 1 \in 1..Len(responseChan) /\ Tail(responseChan)[i] = responseChan[i + 1]
      BY <2>2, HeadTail DEF ReceiveResponse, TypeOK
    <3>2. responseChan' = Tail(responseChan) /\ received' = received \cup {responseChan[1]}
      BY <2>2, <3>1 DEF ReceiveResponse
    <3> QED
      BY <1>1, <3>1, <3>2 DEF SuccessInv
  <2>3. ASSUME NEW w \in Workers, PushResponse(w)
        PROVE  /\ \A i \in 1..Len(responseChan') : responseChan'[i].success => Published(responseChan'[i].req, accepted')
               /\ \A p \in received' : p.success => Published(p.req, accepted')
    <3> DEFINE new == [req |-> request[w], success |-> success[w]]
    <3>1. responseChan' = Append(responseChan, new) /\ received' = received /\ worker[w] = "respond"
      BY <2>3 DEF PushResponse
    <3>2. new.success => Published(new.req, accepted)
      BY <3>1 DEF SuccessInv
    <3>3. new \in Responses
      BY <3>1 DEF TypeOK, RequestInv, Busy, Responses
    <3>4. ASSUME NEW i \in 1..Len(responseChan')
          PROVE  responseChan'[i] = new \/ (i \in 1..Len(responseChan) /\ responseChan'[i] = responseChan[i])
      <4> HIDE DEF new
      <4> QED
        BY <3>1, <3>3 DEF TypeOK
    <3> HIDE DEF new
    <3> QED
      BY <1>1, <3>1, <3>2, <3>4 DEF SuccessInv
  <2> QED
    BY <2>1, <2>2, <2>3 DEF Next, Mine, Start, StopBegin, StopEnd, SubmitRequest,
       Worker, TakeRequest, WorkerStops, GetNonce, GetNonceFails, SendUpdate,
       SendUpdateFails, PackageDone, PushResponseStopped, DropResponse,
       ForeignSends, vars, queueVars
<1> QED
  BY <1>2, <1>3 DEF SuccessInv

-----------------------------------------------------------------------------
(* Counting in a queue *)

\* The positions of a queue that hold a member of T.
Where(q, T) == {i \in DOMAIN q : q[i] \in T}

LEMMA WhereFinite ==
    ASSUME NEW S, NEW q \in Seq(S), NEW T
    PROVE  IsFiniteSet(Where(q, T)) /\ Cardinality(Where(q, T)) \in Nat
<1>1. IsFiniteSet(1..Len(q))
  BY FS_Interval
<1>2. Where(q, T) \subseteq 1..Len(q)
  BY DEF Where
<1> QED
  BY <1>1, <1>2, FS_Subset, FS_CardinalityType

LEMMA WhereAppend ==
    ASSUME NEW S, NEW q \in Seq(S), NEW x \in S, NEW T
    PROVE  Cardinality(Where(Append(q, x), T))
             = Cardinality(Where(q, T)) + (IF x \in T THEN 1 ELSE 0)
<1> DEFINE end == Len(q) + 1
<1>1. end \notin Where(q, T) /\ IsFiniteSet(Where(q, T)) /\ Cardinality(Where(q, T)) \in Nat
  <2>1. end \notin DOMAIN q
    OBVIOUS
  <2> QED
    BY <2>1, WhereFinite DEF Where
<1>2. Where(Append(q, x), T) = IF x \in T THEN Where(q, T) \cup {end} ELSE Where(q, T)
  <2>1. /\ DOMAIN Append(q, x) = DOMAIN q \cup {end}
        /\ Append(q, x)[end] = x
        /\ \A i \in DOMAIN q : Append(q, x)[i] = q[i]
    OBVIOUS
  <2> QED
    BY <1>1, <2>1 DEF Where
<1> HIDE DEF end
<1>3. Cardinality(Where(q, T) \cup {end}) = Cardinality(Where(q, T)) + 1
  BY <1>1, FS_AddElement
<1> QED
  BY <1>1, <1>2, <1>3

LEMMA WhereTail ==
    ASSUME NEW S, NEW q \in Seq(S), q # <<>>, NEW T
    PROVE  /\ Cardinality(Where(Tail(q), T))
                = Cardinality(Where(q, T)) - (IF Head(q) \in T THEN 1 ELSE 0)
           /\ Head(q) \in T => Cardinality(Where(q, T)) >= 1
<1> DEFINE next == [i \in Where(Tail(q), T) |-> i + 1]
<1>1. /\ Tail(q) \in Seq(S) /\ Len(q) \in Nat /\ Len(q) > 0
      /\ Len(Tail(q)) = Len(q) - 1 /\ Head(q) = q[1]
      /\ \A i \in 1..Len(Tail(q)) : i + 1 \in 1..Len(q) /\ Tail(q)[i] = q[i + 1]
  BY HeadTail
<1>2. /\ DOMAIN q = 1..Len(q) /\ DOMAIN Tail(q) = 1..Len(Tail(q))
  BY <1>1
<1>3. next \in Bijection(Where(Tail(q), T), Where(q, T) \ {1})
  <2>1. \A i \in Where(Tail(q), T) : i + 1 \in Where(q, T) \ {1}
    BY <1>1, <1>2 DEF Where
  <2>2. \A i, j \in Where(Tail(q), T) : next[i] = next[j] => i = j
    BY <1>2 DEF Where
  <2>3. ASSUME NEW j \in Where(q, T) \ {1}
        PROVE  j - 1 \in Where(Tail(q), T) /\ next[j - 1] = j
    <3>1. j \in 1..Len(q) /\ q[j] \in T /\ j # 1
      BY <1>2 DEF Where
    <3>2. j - 1 \in 1..Len(Tail(q)) /\ (j - 1) + 1 = j
      BY <1>1, <3>1
    <3> QED
      BY <1>1, <1>2, <3>1, <3>2 DEF Where
  <2> QED
    BY <2>1, <2>2, <2>3 DEF Bijection, Injection, Surjection, IsInjective
<1>4. ExistsBijection(Where(Tail(q), T), Where(q, T) \ {1})
  BY <1>3 DEF ExistsBijection
<1>5. IsFiniteSet(Where(q, T)) /\ IsFiniteSet(Where(Tail(q), T))
  BY <1>1, WhereFinite
<1>6. Cardinality(Where(Tail(q), T)) = Cardinality(Where(q, T) \ {1})
  BY <1>4, <1>5, FS_Bijection
<1>7. 1 \in Where(q, T) <=> Head(q) \in T
  BY <1>1, <1>2 DEF Where
<1>8. Cardinality(Where(q, T)) \in Nat /\ (Where(q, T) # {} => Cardinality(Where(q, T)) # 0)
  BY <1>5, FS_CardinalityType, FS_EmptySet
<1>9. Cardinality(Where(q, T) \ {1})
        = IF 1 \in Where(q, T) THEN Cardinality(Where(q, T)) - 1 ELSE Cardinality(Where(q, T))
  BY <1>5, FS_RemoveElement
<1> DEFINE c == Cardinality(Where(q, T))
<1> HIDE DEF next, c
<1>10. c \in Nat /\ (Head(q) \in T => c # 0)
  BY <1>7, <1>8 DEF c
<1>11. Cardinality(Where(Tail(q), T)) = IF Head(q) \in T THEN c - 1 ELSE c
  BY <1>6, <1>7, <1>9 DEF c
<1> QED
  BY <1>10, <1>11 DEF c

-----------------------------------------------------------------------------
(* Every submitted request is in one place *)

Queued(r) == Where(requestChan, {r})
Held(r) == {w \in Workers : request[w] = r /\ worker[w] \in Busy}
Answered(r) == Where(responseChan, {p \in Responses : p.req = r})
Read(r) == {p \in received : p.req = r}
Lost(r) == {r} \cap lost

\* No worker is busy before Start, and the places of a request add up.
PlacesInv ==
    /\ ~isStarted => \A w \in Workers : worker[w] = "off"
    /\ \A r \in Requests :
          /\ IsFiniteSet(Held(r)) /\ IsFiniteSet(Read(r))
          /\ Cardinality(Queued(r)) + Cardinality(Held(r)) + Cardinality(Answered(r))
               + Cardinality(Read(r)) + Cardinality(Lost(r))
               = IF r \in submitted THEN 1 ELSE 0

LEMMA CountTypes ==
    ASSUME TypeOK, PlacesInv, NEW r \in Requests
    PROVE  /\ Cardinality(Queued(r)) \in Nat /\ Cardinality(Held(r)) \in Nat
           /\ Cardinality(Answered(r)) \in Nat /\ Cardinality(Read(r)) \in Nat
           /\ Cardinality(Lost(r)) = IF r \in lost THEN 1 ELSE 0
<1>1. requestChan \in Seq(Requests) /\ responseChan \in Seq(Responses)
  BY DEF TypeOK
<1>2. Cardinality(Queued(r)) \in Nat /\ Cardinality(Answered(r)) \in Nat
  BY <1>1, WhereFinite DEF Queued, Answered
<1>3. Cardinality(Held(r)) \in Nat /\ Cardinality(Read(r)) \in Nat
  BY FS_CardinalityType DEF PlacesInv
<1>4. Lost(r) = IF r \in lost THEN {r} ELSE {}
  BY DEF Lost
<1>5. Cardinality(Lost(r)) = IF r \in lost THEN 1 ELSE 0
  BY <1>4, FS_EmptySet, FS_Singleton
<1> QED
  BY <1>2, <1>3, <1>5

\* A step of one worker takes it in or out.
LEMMA HeldMoves ==
    ASSUME NEW w \in Workers, NEW r \in Requests, IsFiniteSet(Held(r)),
           \A v \in Workers \ {w} : worker'[v] = worker[v] /\ request'[v] = request[v]
    PROVE  /\ IsFiniteSet(Held(r)')
           /\ Cardinality(Held(r)') = Cardinality(Held(r))
                + (IF request'[w] = r /\ worker'[w] \in Busy THEN 1 ELSE 0)
                - (IF request[w] = r /\ worker[w] \in Busy THEN 1 ELSE 0)
<1>0. Cardinality(Held(r)) \in Nat
  BY FS_CardinalityType
<1>1. w \in Held(r) <=> request[w] = r /\ worker[w] \in Busy
  BY DEF Held
<1>2. w \in Held(r)' <=> request'[w] = r /\ worker'[w] \in Busy
  BY DEF Held, Busy
<1>3. Held(r)' = IF w \in Held(r)' THEN Held(r) \cup {w} ELSE Held(r) \ {w}
  BY <1>1, <1>2 DEF Held, Busy
<1>4. /\ IsFiniteSet(Held(r) \cup {w}) /\ IsFiniteSet(Held(r) \ {w})
      /\ Cardinality(Held(r) \cup {w}) = IF w \in Held(r) THEN Cardinality(Held(r)) ELSE Cardinality(Held(r)) + 1
      /\ Cardinality(Held(r) \ {w}) = IF w \in Held(r) THEN Cardinality(Held(r)) - 1 ELSE Cardinality(Held(r))
  BY FS_AddElement, FS_RemoveElement
<1>5. IsFiniteSet(Held(r)')
  BY <1>3, <1>4
<1>6. Cardinality(Held(r)') = Cardinality(Held(r))
        + (IF w \in Held(r)' THEN 1 ELSE 0) - (IF w \in Held(r) THEN 1 ELSE 0)
  <2> DEFINE c == Cardinality(Held(r))
  <2>1. CASE w \in Held(r)'
    <3>1. Held(r)' = Held(r) \cup {w}
      BY <1>3, <2>1
    <3>2. Cardinality(Held(r)') = IF w \in Held(r) THEN c ELSE c + 1
      BY <1>4, <3>1
    <3> HIDE DEF c
    <3>3. Cardinality(Held(r)') = c + 1 - (IF w \in Held(r) THEN 1 ELSE 0)
      BY <1>0, <3>2 DEF c
    <3> QED
      BY <2>1, <3>3 DEF c
  <2>2. CASE w \notin Held(r)'
    <3>1. Held(r)' = Held(r) \ {w}
      BY <1>3, <2>2
    <3>2. Cardinality(Held(r)') = IF w \in Held(r) THEN c - 1 ELSE c
      BY <1>4, <3>1
    <3> HIDE DEF c
    <3>3. Cardinality(Held(r)') = c + 0 - (IF w \in Held(r) THEN 1 ELSE 0)
      BY <1>0, <3>2 DEF c
    <3> QED
      BY <2>2, <3>3 DEF c
  <2> QED
    BY <2>1, <2>2
<1> QED
  BY <1>1, <1>2, <1>5, <1>6

\* Steps that leave the places alone.
LEMMA PlacesStay ==
    ASSUME PlacesInv, UNCHANGED queueVars,
           \/ UNCHANGED <<worker, request>>
           \/ \E w \in Workers :
                /\ \A v \in Workers : v # w => worker'[v] = worker[v]
                /\ worker[w] \in Busy <=> worker'[w] \in Busy
                /\ worker[w] = "off" <=> worker'[w] = "off"
                /\ UNCHANGED request
    PROVE  PlacesInv'
<1>1. \A r \in Requests : /\ Queued(r)' = Queued(r) /\ Held(r)' = Held(r)
                          /\ Answered(r)' = Answered(r) /\ Read(r)' = Read(r)
                          /\ Lost(r)' = Lost(r)
  BY DEF queueVars, Queued, Held, Answered, Read, Lost, Busy, Where
<1>2. UNCHANGED <<isStarted, submitted>>
  BY DEF queueVars
<1>3. ~isStarted' => \A w \in Workers : worker'[w] = "off"
  BY <1>2 DEF PlacesInv
<1> QED
  BY <1>1, <1>2, <1>3 DEF PlacesInv

\* A request that is submitted was nowhere; it is queued, or lost.
LEMMA SubmitPlaces ==
    ASSUME TypeOK, PlacesInv, NEW s \in Requests, SubmitRequest(s)
    PROVE  PlacesInv'
<1>1. UNCHANGED <<isStarted, worker, request, responseChan, received>>
  BY DEF SubmitRequest, workerVars
<1>2. ASSUME NEW r \in Requests
      PROVE  /\ IsFiniteSet(Held(r)') /\ IsFiniteSet(Read(r)')
             /\ Cardinality(Queued(r)') + Cardinality(Held(r)') + Cardinality(Answered(r)')
                  + Cardinality(Read(r)') + Cardinality(Lost(r)')
                  = IF r \in submitted' THEN 1 ELSE 0
  <2>1. Held(r)' = Held(r) /\ Answered(r)' = Answered(r) /\ Read(r)' = Read(r)
    BY <1>1 DEF Held, Answered, Read, Busy, Where
  <2>2. Cardinality(Lost(r)') = IF r \in lost' THEN 1 ELSE 0
    <3>1. Lost(r)' = IF r \in lost' THEN {r} ELSE {}
      BY DEF Lost
    <3> QED
      BY <3>1, FS_EmptySet, FS_Singleton
  <2>3. submitted' = submitted \cup {s} /\ s \notin submitted
    BY DEF SubmitRequest
  <2>4. CASE requestChan' = Append(requestChan, s) /\ lost' = lost
    <3>1. Cardinality(Queued(r)') = Cardinality(Queued(r)) + (IF s \in {r} THEN 1 ELSE 0)
      BY <2>4, WhereAppend DEF TypeOK, Queued
    <3>2. CASE r = s
      BY <2>1, <2>2, <2>3, <2>4, <3>1, <3>2, CountTypes DEF PlacesInv
    <3>3. CASE r # s
      BY <2>1, <2>2, <2>3, <2>4, <3>1, <3>3, CountTypes DEF PlacesInv
    <3> QED
      BY <3>2, <3>3
  <2>5. CASE requestChan' = requestChan /\ lost' = lost \cup {s}
    <3>1. Queued(r)' = Queued(r)
      BY <2>5 DEF Queued, Where
    <3> QED
      BY <2>1, <2>2, <2>3, <2>5, <3>1, CountTypes DEF PlacesInv
  <2> QED
    BY <2>4, <2>5 DEF SubmitRequest
<1> QED
  BY <1>1, <1>2 DEF PlacesInv

\* A response that is read was not read before.
LEMMA ReceivePlaces ==
    ASSUME TypeOK, PlacesInv, ReceiveResponse
    PROVE  PlacesInv'
<1>1. UNCHANGED <<isStarted, submitted, worker, request, requestChan, lost>>
  BY DEF ReceiveResponse, workerVars
<1>2. /\ responseChan \in Seq(Responses) /\ responseChan # <<>>
      /\ Head(responseChan) \in Responses
      /\ responseChan' = Tail(responseChan) /\ received' = received \cup {Head(responseChan)}
  BY HeadTail DEF TypeOK, ReceiveResponse
<1>3. ASSUME NEW r \in Requests
      PROVE  /\ IsFiniteSet(Held(r)') /\ IsFiniteSet(Read(r)')
             /\ Cardinality(Queued(r)') + Cardinality(Held(r)') + Cardinality(Answered(r)')
                  + Cardinality(Read(r)') + Cardinality(Lost(r)')
                  = IF r \in submitted' THEN 1 ELSE 0
  <2>1. Held(r)' = Held(r) /\ Queued(r)' = Queued(r) /\ Lost(r)' = Lost(r)
    BY <1>1 DEF Held, Queued, Lost, Busy, Where
  <2> DEFINE T == {p \in Responses : p.req = r}
             head == Head(responseChan)
  <2>2. /\ Cardinality(Answered(r)') = Cardinality(Answered(r)) - (IF head \in T THEN 1 ELSE 0)
        /\ head \in T => Cardinality(Answered(r)) >= 1
    BY <1>2, WhereTail DEF Answered
  <2>3. IsFiniteSet(Read(r)) /\ IsFiniteSet(Held(r))
    BY DEF PlacesInv
  <2>4. CASE head \in T
    <3>1. Cardinality(Read(r)) = 0
      BY <2>2, <2>4, CountTypes DEF PlacesInv
    <3>2. Read(r) = {}
      BY <2>3, <3>1, FS_EmptySet
    <3>3. Read(r)' = {head}
      BY <1>2, <2>4, <3>2 DEF Read
    <3>4. IsFiniteSet(Read(r)') /\ Cardinality(Read(r)') = 1
      BY <3>3, FS_Singleton
    <3> HIDE DEF head, T
    <3> QED
      BY <1>1, <2>1, <2>2, <2>3, <2>4, <3>1, <3>4, CountTypes DEF PlacesInv
  <2>5. CASE head \notin T
    <3>1. Read(r)' = Read(r)
      BY <1>2, <2>5 DEF Read
    <3> HIDE DEF head, T
    <3> QED
      BY <1>1, <2>1, <2>2, <2>3, <2>5, <3>1, CountTypes DEF PlacesInv
  <2> QED
    BY <2>4, <2>5
<1> QED
  BY <1>1, <1>3 DEF PlacesInv

\* A worker that takes a request has none, and takes it off the queue.
LEMMA TakePlaces ==
    ASSUME TypeOK, PlacesInv, NEW w \in Workers, TakeRequest(w)
    PROVE  PlacesInv'
<1>1. UNCHANGED <<isStarted, submitted, responseChan, received, lost>>
  BY DEF TakeRequest
<1>2. /\ requestChan \in Seq(Requests) /\ requestChan # <<>> /\ Head(requestChan) \in Requests
      /\ requestChan' = Tail(requestChan)
      /\ worker[w] = "select" /\ worker'[w] = "nonce" /\ request'[w] = Head(requestChan)
      /\ \A v \in Workers \ {w} : worker'[v] = worker[v] /\ request'[v] = request[v]
  BY HeadTail DEF TypeOK, TakeRequest, Goto
<1>3. ASSUME NEW r \in Requests
      PROVE  /\ IsFiniteSet(Held(r)') /\ IsFiniteSet(Read(r)')
             /\ Cardinality(Queued(r)') + Cardinality(Held(r)') + Cardinality(Answered(r)')
                  + Cardinality(Read(r)') + Cardinality(Lost(r)')
                  = IF r \in submitted' THEN 1 ELSE 0
  <2>1. Answered(r)' = Answered(r) /\ Read(r)' = Read(r) /\ Lost(r)' = Lost(r)
    BY <1>1 DEF Answered, Read, Lost, Where
  <2>2. Cardinality(Queued(r)')
          = Cardinality(Queued(r)) - (IF Head(requestChan) \in {r} THEN 1 ELSE 0)
    BY <1>2, WhereTail DEF Queued
  <2>3. IsFiniteSet(Read(r)) /\ IsFiniteSet(Held(r))
    BY DEF PlacesInv
  <2>4. /\ IsFiniteSet(Held(r)')
        /\ Cardinality(Held(r)') = Cardinality(Held(r)) + (IF Head(requestChan) = r THEN 1 ELSE 0)
    <3>1. /\ IsFiniteSet(Held(r)')
          /\ Cardinality(Held(r)') = Cardinality(Held(r))
               + (IF request'[w] = r /\ worker'[w] \in Busy THEN 1 ELSE 0)
               - (IF request[w] = r /\ worker[w] \in Busy THEN 1 ELSE 0)
      BY <1>2, <2>3, HeldMoves
    <3> QED
      BY <1>2, <3>1, CountTypes DEF Busy
  <2>5. CASE r = Head(requestChan)
    BY <1>1, <2>1, <2>2, <2>3, <2>4, <2>5, CountTypes DEF PlacesInv
  <2>6. CASE r # Head(requestChan)
    BY <1>1, <2>1, <2>2, <2>3, <2>4, <2>6, CountTypes DEF PlacesInv
  <2> QED
    BY <2>5, <2>6
<1>4. worker' \in [Workers -> Running \cup {"off", "done"}] /\ (~isStarted => worker[w] = "off")
  BY DEF TypeOK, PlacesInv, TakeRequest, Goto, Running
<1> QED
  BY <1>1, <1>2, <1>3, <1>4 DEF PlacesInv

\* A worker that is done with a request leaves it in the queue of responses, or
\* among the lost.
LEMMA RespondPlaces ==
    ASSUME TypeOK, RequestInv, PlacesInv, NEW w \in Workers,
           PushResponse(w) \/ PushResponseStopped(w) \/ DropResponse(w)
    PROVE  PlacesInv'
<1>1. /\ UNCHANGED <<isStarted, submitted, requestChan, received>>
      /\ worker[w] = "respond" /\ request[w] \in Requests
      /\ worker'[w] \notin Busy
      /\ \A v \in Workers \ {w} : worker'[v] = worker[v] /\ request'[v] = request[v]
  BY DEF PushResponse, PushResponseStopped, DropResponse, TypeOK, RequestInv, Goto, Busy
<1>2. ASSUME NEW r \in Requests
      PROVE  /\ IsFiniteSet(Held(r)') /\ IsFiniteSet(Read(r)')
             /\ Cardinality(Queued(r)') + Cardinality(Held(r)') + Cardinality(Answered(r)')
                  + Cardinality(Read(r)') + Cardinality(Lost(r)')
                  = IF r \in submitted' THEN 1 ELSE 0
  <2>1. Queued(r)' = Queued(r) /\ Read(r)' = Read(r)
    BY <1>1 DEF Queued, Read, Where
  <2>2. IsFiniteSet(Read(r)) /\ IsFiniteSet(Held(r))
    BY DEF PlacesInv
  <2>3. /\ IsFiniteSet(Held(r)')
        /\ Cardinality(Held(r)') = Cardinality(Held(r)) - (IF request[w] = r THEN 1 ELSE 0)
    <3>1. /\ IsFiniteSet(Held(r)')
          /\ Cardinality(Held(r)') = Cardinality(Held(r))
               + (IF request'[w] = r /\ worker'[w] \in Busy THEN 1 ELSE 0)
               - (IF request[w] = r /\ worker[w] \in Busy THEN 1 ELSE 0)
      BY <1>1, <2>2, HeldMoves
    <3> QED
      BY <1>1, <3>1, CountTypes DEF Busy
  <2>4. request[w] = r => Cardinality(Held(r)) >= 1
    <3>1. request[w] = r => Held(r) # {}
      BY <1>1 DEF Held, Busy
    <3> QED
      BY <2>2, <3>1, CountTypes, FS_EmptySet
  <2>5. CASE PushResponse(w)
    <3> DEFINE new == [req |-> request[w], success |-> success[w]]
    <3>1. new \in Responses /\ new.req = request[w]
      BY <1>1 DEF Responses, TypeOK
    <3>2. responseChan' = Append(responseChan, new) /\ lost' = lost
      BY <2>5 DEF PushResponse
    <3> HIDE DEF new
    <3>3. Cardinality(Answered(r)') = Cardinality(Answered(r))
            + (IF new \in {p \in Responses : p.req = r} THEN 1 ELSE 0)
      BY <3>1, <3>2, WhereAppend DEF TypeOK, Answered
    <3>4. Lost(r)' = Lost(r)
      BY <3>2 DEF Lost
    <3>5. CASE request[w] = r
      BY <1>1, <2>1, <2>2, <2>3, <2>4, <3>1, <3>3, <3>4, <3>5, CountTypes DEF PlacesInv
    <3>6. CASE request[w] # r
      BY <1>1, <2>1, <2>2, <2>3, <3>1, <3>3, <3>4, <3>6, CountTypes DEF PlacesInv
    <3> QED
      BY <3>5, <3>6
  <2>6. CASE PushResponseStopped(w) \/ DropResponse(w)
    <3>1. responseChan' = responseChan /\ lost' = lost \cup {request[w]}
      BY <2>6 DEF PushResponseStopped, DropResponse
    <3>2. Answered(r)' = Answered(r)
      BY <3>1 DEF Answered, Where
    <3>3. Cardinality(Lost(r)') = IF r \in lost' THEN 1 ELSE 0
      <4>1. Lost(r)' = IF r \in lost' THEN {r} ELSE {}
        BY DEF Lost
      <4> QED
        BY <4>1, FS_EmptySet, FS_Singleton
    <3>4. CASE request[w] = r
      BY <1>1, <2>1, <2>2, <2>3, <2>4, <3>1, <3>2, <3>3, <3>4, CountTypes DEF PlacesInv
    <3>5. CASE request[w] # r
      BY <1>1, <2>1, <2>2, <2>3, <3>1, <3>2, <3>3, <3>5, CountTypes DEF PlacesInv
    <3> QED
      BY <3>4, <3>5
  <2> QED
    BY <2>5, <2>6
<1>3. isStarted
  BY <1>1 DEF PlacesInv
<1> QED
  BY <1>1, <1>2, <1>3 DEF PlacesInv

\* Every step keeps each request in its one place.
LEMMA PlacesStep ==
    TypeOK /\ RequestInv /\ PlacesInv /\ [Next]_vars => PlacesInv'
<1> SUFFICES ASSUME TypeOK, RequestInv, PlacesInv, [Next]_vars PROVE PlacesInv'
  OBVIOUS
<1>1. CASE Start
  <2>1. \A r \in Requests : Held(r) = {} /\ Held(r)' = {}
    BY <1>1 DEF Start, PlacesInv, Held, Busy
  <2>2. \A r \in Requests : /\ Queued(r)' = Queued(r) /\ Answered(r)' = Answered(r)
                            /\ Read(r)' = Read(r) /\ Lost(r)' = Lost(r)
    BY <1>1 DEF Start, Queued, Answered, Read, Lost, Where
  <2>3. isStarted' /\ submitted' = submitted
    BY <1>1 DEF Start
  <2> QED
    BY <2>1, <2>2, <2>3 DEF PlacesInv
<1>2. CASE StopBegin \/ StopEnd
  <2>1. \A r \in Requests : /\ Queued(r)' = Queued(r) /\ Answered(r)' = Answered(r)
                            /\ Read(r)' = Read(r) /\ Lost(r)' = Lost(r) /\ Held(r)' = Held(r)
    BY <1>2 DEF StopBegin, StopEnd, workerVars, Queued, Answered, Read, Lost, Held, Busy, Where
  <2>2. UNCHANGED <<isStarted, submitted, worker>>
    BY <1>2 DEF StopBegin, StopEnd, workerVars
  <2> QED
    BY <2>1, <2>2 DEF PlacesInv
<1>3. CASE \E r \in Requests : SubmitRequest(r)
  BY <1>3, SubmitPlaces
<1>4. CASE ReceiveResponse
  BY <1>4, ReceivePlaces
<1>5. ASSUME NEW w \in Workers, Worker(w) PROVE PlacesInv'
  <2>1. CASE TakeRequest(w)
    BY <2>1, TakePlaces
  <2>2. CASE WorkerStops(w) \/ GetNonce(w) \/ GetNonceFails(w) \/ SendUpdate(w)
             \/ SendUpdateFails(w) \/ PackageDone(w)
    <3>1. /\ UNCHANGED queueVars /\ UNCHANGED request
          /\ \A v \in Workers : v # w => worker'[v] = worker[v]
          /\ worker[w] \in Busy <=> worker'[w] \in Busy
          /\ worker[w] = "off" <=> worker'[w] = "off"
      BY <2>2 DEF WorkerStops, GetNonce, GetNonceFails, SendUpdate, SendUpdateFails, PackageDone,
                  Respond, Goto, Busy, TypeOK
    <3> QED
      BY <3>1, PlacesStay
  <2>3. CASE PushResponse(w) \/ PushResponseStopped(w) \/ DropResponse(w)
    BY <2>3, RespondPlaces
  <2> QED
    BY <1>5, <2>1, <2>2, <2>3 DEF Worker
<1>6. CASE Mine \/ ForeignSends \/ UNCHANGED vars
  <2>1. UNCHANGED queueVars /\ UNCHANGED <<worker, request>>
    BY <1>6 DEF Mine, ForeignSends, vars, queueVars, workerVars
  <2> QED
    BY <2>1, PlacesStay
<1> QED
  BY <1>1, <1>2, <1>3, <1>4, <1>5, <1>6 DEF Next

-----------------------------------------------------------------------------
(* The theorems *)

IInv ==
    /\ TypeOK
    /\ RequestInv
    /\ NoWorkerAfterStop
    /\ NonceInv
    /\ NoNonceGap
    /\ SentInv
    /\ SuccessInv
    /\ PlacesInv

\* The inductive invariant: it holds from the start (NewBatchTransactionSender)
\* and every step of the sender, its caller, the node and another signer keeps it.
THEOREM Invariance == Spec => []IInv
<1>1. Init => IInv
  <2> SUFFICES ASSUME Init PROVE IInv
    OBVIOUS
  <2>1. TypeOK
    <3>1. <<>> \in Seq(Requests) /\ <<>> \in Seq(Responses) /\ Len(<<>>) = 0
      OBVIOUS
    <3> HIDE DEF Responses
    <3>2. requestChan \in Seq(Requests) /\ Len(requestChan) <= ChanSize
      BY <3>1, BatchSenderAssumption DEF Init
    <3>3. responseChan \in Seq(Responses) /\ Len(responseChan) <= ChanSize
      BY <3>1, BatchSenderAssumption DEF Init
    <3> QED
      BY <3>2, <3>3 DEF Init, TypeOK, Running
  <2>2. RequestInv /\ NoWorkerAfterStop /\ NonceInv /\ NoNonceGap /\ SentInv
    BY DEF Init, RequestInv, Busy, NoWorkerAfterStop, NonceInv, NoNonceGap, SentInv
  <2>3. SuccessInv
    BY DEF Init, SuccessInv
  <2>4. PlacesInv
    <3>1. \A r \in Requests : /\ Queued(r) = {} /\ Held(r) = {} /\ Answered(r) = {}
                              /\ Read(r) = {} /\ Lost(r) = {}
      BY DEF Init, Queued, Held, Answered, Read, Lost, Where, Busy
    <3>2. ASSUME NEW r \in Requests
          PROVE  /\ Cardinality(Queued(r)) = 0 /\ Cardinality(Held(r)) = 0
                 /\ Cardinality(Answered(r)) = 0 /\ Cardinality(Read(r)) = 0
                 /\ Cardinality(Lost(r)) = 0
                 /\ IsFiniteSet(Held(r)) /\ IsFiniteSet(Read(r))
      BY <3>1, FS_EmptySet
    <3>3. submitted = {} /\ worker = [w \in Workers |-> "off"]
      BY DEF Init
    <3> QED
      BY <3>2, <3>3 DEF PlacesInv
  <2> QED
    BY <2>1, <2>2, <2>3, <2>4 DEF IInv
<1>2. IInv /\ [Next]_vars => IInv'
  BY TypeStep, StopStep, NonceStep, GapStep, SentStep, SuccessStep, PlacesStep DEF IInv
<1> QED
  BY <1>1, <1>2, PTL DEF Spec

\* Types, and both queues within the capacity of their channels.
THEOREM TypeCorrect == Spec => []TypeOK
<1>1. IInv => TypeOK
  BY DEF IInv
<1> QED
  BY <1>1, Invariance, PTL

\* No worker is left to send on a channel that Stop has closed.
THEOREM Joined == Spec => []NoWorkerAfterStop
<1>1. IInv => NoWorkerAfterStop
  BY DEF IInv
<1> QED
  BY <1>1, Invariance, PTL

\* No accepted transaction waits behind a nonce nobody has used.
THEOREM GapFree == Spec => []NoNonceGap
<1>1. IInv => NoNonceGap
  BY DEF IInv
<1> QED
  BY <1>1, Invariance, PTL

\* A response says Success only of a package that was published whole.
THEOREM SuccessTrue == Spec => []SuccessIsPublished
<1>1. ASSUME IInv PROVE SuccessIsPublished
  <2> SUFFICES ASSUME NEW p \in received \cup {responseChan[i] : i \in DOMAIN responseChan}, p.success
               PROVE  /\ Updates[p.req] > 0
                      /\ \E first \in {tx.nonce : tx \in accepted} : \A i \in 1..Updates[p.req] :
                           [nonce |-> first + i - 1, owner |-> p.req, index |-> i] \in accepted
    BY DEF SuccessIsPublished
  <2>1. Published(p.req, accepted) /\ p \in Responses
    <3>1. CASE p \in received
      BY <1>1, <3>1 DEF IInv, SuccessInv, TypeOK
    <3>2. ASSUME NEW i \in DOMAIN responseChan, p = responseChan[i]
          PROVE  Published(p.req, accepted) /\ p \in Responses
      <4>1. responseChan \in Seq(Responses)
        BY <1>1 DEF IInv, TypeOK
      <4>2. i \in 1..Len(responseChan) /\ responseChan[i] \in Responses
        BY <4>1
      <4> QED
        BY <1>1, <3>2, <4>2 DEF IInv, SuccessInv
    <3> QED
      BY <3>1, <3>2
  <2>2. Updates[p.req] \in Nat /\ Updates[p.req] > 0
    BY <2>1, BatchSenderAssumption DEF Published, Responses
  <2>3. PICK first \in Nat : \A i \in 1..Updates[p.req] :
          [nonce |-> first + i - 1, owner |-> p.req, index |-> i] \in accepted
    BY <2>1 DEF Published
  <2>4. [nonce |-> first + 1 - 1, owner |-> p.req, index |-> 1] \in accepted
    BY <2>2, <2>3
  <2>5. first \in {tx.nonce : tx \in accepted}
    BY <2>4
  <2> QED
    BY <2>2, <2>3, <2>5
<1> QED
  BY <1>1, Invariance, PTL

\* A submitted request is in exactly one place: queued, held by a worker,
\* answered, read, or lost to a full queue or a Stop; never in two
\* (transaction.go:647-704).
THEOREM Conserved == Spec => []RequestConserved
<1>1. IInv => RequestConserved
  <2> SUFFICES ASSUME TypeOK, PlacesInv, NEW r \in Requests
               PROVE  Places(r) = IF r \in submitted THEN 1 ELSE 0
    BY DEF RequestConserved, IInv
  <2>1. Queued(r) = {i \in DOMAIN requestChan : requestChan[i] = r}
    BY DEF Queued, Where
  <2>2. Held(r) = {w \in Workers : request[w] = r /\ worker[w] \in {"nonce", "send", "respond"}}
    BY DEF Held, Busy
  <2>3. Answered(r) = {i \in DOMAIN responseChan : responseChan[i].req = r}
    <3>1. \A i \in DOMAIN responseChan : responseChan[i] \in Responses
      <4> HIDE DEF Responses
      <4> QED
        BY DEF TypeOK
    <3> QED
      BY <3>1 DEF Answered, Where
  <2> QED
    BY <2>1, <2>2, <2>3 DEF PlacesInv, Places, Read, Lost
<1> QED
  BY <1>1, Invariance, PTL

-----------------------------------------------------------------------------
(* Refinement *)

\* A request has a response exactly if one is queued or read.
LEMMA ResponseOf ==
    ASSUME TypeOK, NEW r
    PROVE  (\E p \in Answers : p.req = r) <=> Answered(r) # {} \/ Read(r) # {}
<1>1. \A i \in DOMAIN responseChan : responseChan[i] \in Responses
  <2> HIDE DEF Responses
  <2> QED
    BY DEF TypeOK
<1> QED
  BY <1>1 DEF Answers, Answered, Read, Where

\* A worker's request is nowhere else, and no other worker's.
LEMMA HeldAlone ==
    ASSUME TypeOK, PlacesInv,
           NEW w \in Workers, worker[w] \in Busy, request[w] \in Requests
    PROVE  /\ request[w] \in submitted /\ request[w] \notin lost
           /\ \A i \in DOMAIN requestChan : requestChan[i] # request[w]
           /\ \A p \in Answers : p.req # request[w]
           /\ \A v \in Workers : worker[v] \in Busy /\ request[v] = request[w] => v = w
<1> DEFINE r == request[w]
<1>1. /\ Cardinality(Queued(r)) \in Nat /\ Cardinality(Held(r)) \in Nat
      /\ Cardinality(Answered(r)) \in Nat /\ Cardinality(Read(r)) \in Nat
      /\ Cardinality(Lost(r)) = IF r \in lost THEN 1 ELSE 0
  BY CountTypes
<1>2. /\ IsFiniteSet(Held(r)) /\ IsFiniteSet(Read(r))
      /\ Cardinality(Queued(r)) + Cardinality(Held(r)) + Cardinality(Answered(r))
           + Cardinality(Read(r)) + Cardinality(Lost(r))
           = IF r \in submitted THEN 1 ELSE 0
  BY DEF PlacesInv
<1>3. w \in Held(r)
  BY DEF Held
<1>4. Cardinality(Held(r) \ {w}) \in Nat /\ Cardinality(Held(r)) = Cardinality(Held(r) \ {w}) + 1
  <2>1. IsFiniteSet(Held(r) \ {w}) /\ w \notin Held(r) \ {w} /\ (Held(r) \ {w}) \cup {w} = Held(r)
    BY <1>2, <1>3, FS_RemoveElement
  <2>2. Cardinality((Held(r) \ {w}) \cup {w}) = Cardinality(Held(r) \ {w}) + 1
    BY <2>1, FS_AddElement
  <2> QED
    BY <2>1, <2>2, FS_CardinalityType
<1>5. /\ r \in submitted /\ r \notin lost
      /\ Cardinality(Queued(r)) = 0 /\ Cardinality(Answered(r)) = 0 /\ Cardinality(Read(r)) = 0
      /\ Cardinality(Held(r) \ {w}) = 0
  <2> DEFINE queued == Cardinality(Queued(r))
             held == Cardinality(Held(r))
             others == Cardinality(Held(r) \ {w})
             answered == Cardinality(Answered(r))
             read == Cardinality(Read(r))
             gone == Cardinality(Lost(r))
  <2>1. gone = IF r \in lost THEN 1 ELSE 0
    BY <1>1
  <2>2. /\ queued \in Nat /\ others \in Nat /\ answered \in Nat /\ read \in Nat
        /\ gone \in Nat /\ (r \in lost => gone = 1)
        /\ held = others + 1
    BY <1>1, <1>4, <2>1
  <2>3. /\ r \in submitted => queued + held + answered + read + gone = 1
        /\ r \notin submitted => queued + held + answered + read + gone = 0
    BY <1>2
  <2> HIDE DEF r, queued, held, others, answered, read, gone
  <2>4. /\ r \in submitted /\ r \notin lost
        /\ queued = 0 /\ answered = 0 /\ read = 0 /\ others = 0
    BY <2>2, <2>3
  <2> QED
    BY <2>4 DEF queued, others, answered, read
<1>6. Queued(r) = {} /\ Answered(r) = {} /\ Read(r) = {} /\ Held(r) \ {w} = {}
  <2>1. requestChan \in Seq(Requests) /\ responseChan \in Seq(Responses)
    BY DEF TypeOK
  <2>2. IsFiniteSet(Queued(r)) /\ IsFiniteSet(Answered(r)) /\ IsFiniteSet(Held(r) \ {w})
    BY <1>2, <2>1, WhereFinite, FS_RemoveElement DEF Queued, Answered
  <2> QED
    BY <1>2, <1>5, <2>2, FS_EmptySet
<1>7. \A p \in Answers : p.req # r
  BY <1>6, ResponseOf
<1> QED
  BY <1>5, <1>6, <1>7 DEF Queued, Where, Held

\* What has not been submitted is nowhere.
LEMMA UnsubmittedNowhere ==
    ASSUME TypeOK, PlacesInv, NEW r \in Requests, r \notin submitted
    PROVE  /\ r \notin lost
           /\ \A i \in DOMAIN requestChan : requestChan[i] # r
           /\ \A p \in Answers : p.req # r
<1>1. /\ Cardinality(Queued(r)) \in Nat /\ Cardinality(Held(r)) \in Nat
      /\ Cardinality(Answered(r)) \in Nat /\ Cardinality(Read(r)) \in Nat
      /\ Cardinality(Lost(r)) = IF r \in lost THEN 1 ELSE 0
  BY CountTypes
<1>2. /\ IsFiniteSet(Read(r))
      /\ Cardinality(Queued(r)) + Cardinality(Held(r)) + Cardinality(Answered(r))
           + Cardinality(Read(r)) + Cardinality(Lost(r)) = 0
  BY DEF PlacesInv
<1>3. /\ r \notin lost
      /\ Cardinality(Queued(r)) = 0 /\ Cardinality(Answered(r)) = 0 /\ Cardinality(Read(r)) = 0
  <2>2. Cardinality(Lost(r)) \in Nat
    BY <1>1
  <2>3. /\ Cardinality(Queued(r)) = 0 /\ Cardinality(Answered(r)) = 0
        /\ Cardinality(Read(r)) = 0 /\ Cardinality(Lost(r)) = 0
    <3> DEFINE queued == Cardinality(Queued(r))
               held == Cardinality(Held(r))
               answered == Cardinality(Answered(r))
               read == Cardinality(Read(r))
               gone == Cardinality(Lost(r))
    <3>1. queued \in Nat /\ held \in Nat /\ answered \in Nat /\ read \in Nat /\ gone \in Nat
      BY <1>1, <2>2
    <3>2. queued + held + answered + read + gone = 0
      BY <1>2
    <3> HIDE DEF queued, held, answered, read, gone
    <3>3. queued = 0 /\ answered = 0 /\ read = 0 /\ gone = 0
      BY <3>1, <3>2
    <3> QED
      BY <3>3 DEF queued, answered, read, gone
  <2> QED
    BY <1>1, <2>3
<1>4. Queued(r) = {} /\ Answered(r) = {} /\ Read(r) = {}
  <2>1. requestChan \in Seq(Requests) /\ responseChan \in Seq(Responses)
    BY DEF TypeOK
  <2>2. IsFiniteSet(Queued(r)) /\ IsFiniteSet(Answered(r))
    BY <2>1, WhereFinite DEF Queued, Answered
  <2> QED
    BY <1>2, <1>3, <2>2, FS_EmptySet
<1>5. \A p \in Answers : p.req # r
  BY <1>4, ResponseOf
<1> QED
  BY <1>3, <1>4, <1>5 DEF Queued, Where

\* A request with a transaction out was submitted, has left the queue and is past
\* its nonce; its worker counts the transaction.
PackageInv ==
    \A tx \in accepted : tx.owner \in Requests =>
        /\ tx.owner \in submitted
        /\ \A i \in DOMAIN requestChan : requestChan[i] # tx.owner
        /\ \A w \in Workers : request[w] = tx.owner =>
              /\ worker[w] # "nonce"
              /\ worker[w] = "send" => tx.index \in 1..sent[w]

\* A step that publishes nothing for a request, and leaves the queue and the
\* workers with theirs.
LEMMA PackageStays ==
    ASSUME PackageInv, submitted \subseteq submitted',
           \A tx \in accepted' : tx \in accepted \/ tx.owner \notin Requests,
           \A i \in DOMAIN requestChan' : \/ \E j \in DOMAIN requestChan : requestChan'[i] = requestChan[j]
                                          \/ requestChan'[i] \notin submitted,
           \A w \in Workers : \/ request'[w] \notin Requests
                              \/ worker'[w] \notin {"nonce", "send"}
                              \/ UNCHANGED <<worker[w], request[w], sent[w]>>
                              \/ worker[w] = "nonce" /\ request'[w] = request[w]
                              \/ \E j \in DOMAIN requestChan : request'[w] = requestChan[j]
    PROVE  PackageInv'
BY DEF PackageInv

\* Every step keeps what a worker knows of its package.
LEMMA PackageStep ==
    IInv /\ PackageInv /\ [Next]_vars => PackageInv'
<1> SUFFICES ASSUME IInv, PackageInv, [Next]_vars PROVE PackageInv'
  OBVIOUS
<1>t. TypeOK /\ RequestInv /\ PlacesInv
  BY DEF IInv
<1>1. CASE \/ Mine \/ Start \/ StopBegin \/ StopEnd \/ ReceiveResponse
           \/ ForeignSends \/ UNCHANGED vars
  <2>1. UNCHANGED <<submitted, requestChan, request, sent>>
    BY <1>1 DEF Mine, Start, StopBegin, StopEnd, ReceiveResponse, ForeignSends,
       vars, queueVars, workerVars
  <2>2. \/ UNCHANGED worker
        \/ \A w \in Workers : worker'[w] \notin {"nonce", "send"}
    BY <1>1 DEF Mine, Start, StopBegin, StopEnd, ReceiveResponse, ForeignSends,
       vars, workerVars
  <2>3. \A tx \in accepted' : tx \in accepted \/ tx.owner \notin Requests
    BY <1>1, BatchSenderAssumption DEF Mine, Start, StopBegin, StopEnd, ReceiveResponse,
       ForeignSends, Accept, vars, nodeVars
  <2> QED
    BY <2>1, <2>2, <2>3, PackageStays
<1>2. ASSUME NEW r \in Requests, SubmitRequest(r) PROVE PackageInv'
  <2>1. r \notin submitted /\ submitted' = submitted \cup {r}
        /\ UNCHANGED <<accepted, worker, request, sent>>
    BY <1>2 DEF SubmitRequest, workerVars, nodeVars
  <2>2. requestChan' = requestChan \/ requestChan' = Append(requestChan, r)
    BY <1>2 DEF SubmitRequest
  <2>3. \A i \in DOMAIN requestChan' : \/ \E j \in DOMAIN requestChan : requestChan'[i] = requestChan[j]
                                       \/ requestChan'[i] \notin submitted
    <3>1. requestChan \in Seq(Requests)
      BY <1>t DEF TypeOK
    <3>2. /\ DOMAIN Append(requestChan, r) = DOMAIN requestChan \cup {Len(requestChan) + 1}
          /\ Append(requestChan, r)[Len(requestChan) + 1] = r
          /\ \A i \in DOMAIN requestChan : Append(requestChan, r)[i] = requestChan[i]
      BY <3>1
    <3> QED
      BY <2>1, <2>2, <3>2
  <2> QED
    BY <2>1, <2>3, PackageStays
<1>3. ASSUME NEW w \in Workers, TakeRequest(w) PROVE PackageInv'
  <2>1. requestChan \in Seq(Requests) /\ requestChan # <<>> /\ request \in [Workers -> Requests \cup {None}]
    BY <1>3, <1>t DEF TakeRequest, TypeOK
  <2>2. /\ request' = [request EXCEPT ![w] = Head(requestChan)]
        /\ requestChan' = Tail(requestChan)
        /\ \A v \in Workers \ {w} : worker'[v] = worker[v]
        /\ UNCHANGED <<submitted, accepted, sent>>
    BY <1>3, <1>t DEF TakeRequest, nodeVars, Goto, TypeOK
  <2>3. 1 \in DOMAIN requestChan /\ Head(requestChan) = requestChan[1]
    BY <2>1
  <2>4. \A i \in DOMAIN Tail(requestChan) : i + 1 \in DOMAIN requestChan
                                           /\ Tail(requestChan)[i] = requestChan[i + 1]
    BY <2>1, HeadTail
  <2> QED
    BY <2>1, <2>2, <2>3, <2>4, PackageStays
<1>4. ASSUME NEW w \in Workers,
             \/ WorkerStops(w) \/ GetNonce(w) \/ GetNonceFails(w) \/ PackageDone(w)
             \/ PushResponse(w) \/ PushResponseStopped(w) \/ DropResponse(w)
      PROVE  PackageInv'
  <2>1. /\ UNCHANGED <<submitted, accepted, requestChan>>
        /\ \A v \in Workers \ {w} : UNCHANGED <<worker[v], request[v], sent[v]>>
        /\ worker'[w] = "send" => worker[w] = "nonce" /\ request'[w] = request[w]
        /\ worker'[w] # "nonce"
    BY <1>4, <1>t DEF TypeOK, WorkerStops, GetNonce, GetNonceFails, PackageDone, PushResponse,
       PushResponseStopped, DropResponse, Respond, Goto, queueVars, nodeVars
  <2> QED
    BY <2>1, PackageStays
<1>5. ASSUME NEW w \in Workers, SendUpdate(w) \/ SendUpdateFails(w) PROVE PackageInv'
  <2>1. /\ worker[w] = "send" /\ UNCHANGED <<submitted, requestChan, request>>
        /\ worker'[w] # "nonce"
        /\ \A v \in Workers \ {w} : worker'[v] = worker[v] /\ sent'[v] = sent[v]
        /\ worker'[w] = "send" => sent'[w] = sent[w] + 1
        /\ \A tx \in accepted' : tx \in accepted \/ (tx.owner = request[w] /\ tx.index = sent[w] + 1)
        /\ sent[w] \in Nat
    <3>1. sent \in [Workers -> Nat] /\ worker \in [Workers -> Running \cup {"off", "done"}]
      BY <1>t DEF TypeOK
    <3>2. CASE SendUpdate(w)
      BY <3>1, <3>2 DEF SendUpdate, Accept, queueVars
    <3>3. CASE SendUpdateFails(w)
      BY <3>1, <3>3 DEF SendUpdateFails, Accept, Respond, Goto, queueVars
    <3> QED
      BY <1>5, <3>2, <3>3
  <2>2. /\ request[w] \in Requests /\ request[w] \in submitted
        /\ \A i \in DOMAIN requestChan : requestChan[i] # request[w]
        /\ \A v \in Workers : worker[v] \in Busy /\ request[v] = request[w] => v = w
    BY <2>1, <1>t, HeldAlone DEF RequestInv, Busy
  <2> SUFFICES ASSUME NEW tx \in accepted', tx.owner \in Requests
               PROVE  /\ tx.owner \in submitted
                      /\ \A i \in DOMAIN requestChan : requestChan[i] # tx.owner
                      /\ \A v \in Workers : request[v] = tx.owner =>
                            /\ worker'[v] # "nonce"
                            /\ worker'[v] = "send" => tx.index \in 1..sent'[v]
    BY <2>1 DEF PackageInv
  <2>3. CASE tx \in accepted
    <3>1. \A k, n \in Nat : k \in 1..n => k \in 1..(n + 1)
      OBVIOUS
    <3> QED
      BY <2>1, <2>3, <3>1 DEF PackageInv
  <2>4. CASE tx.owner = request[w] /\ tx.index = sent[w] + 1
    BY <2>1, <2>2, <2>4 DEF Busy
  <2> QED
    BY <2>1, <2>3, <2>4
<1> QED
  BY <1>1, <1>2, <1>3, <1>4, <1>5 DEF Next, Worker

\* The status of a request is read off where it is.
LEMMA StatusStays ==
    ASSUME NEW r,
           r \in submitted' <=> r \in submitted, r \in lost' <=> r \in lost,
           \A p \in Answers : p.req = r => p \in Answers',
           \A p \in Answers' : p.req = r => p \in Answers
    PROVE  Status(r)' = Status(r)
<1>1. /\ (\E p \in Answers : p.req = r /\ p.success) <=> (\E p \in Answers' : p.req = r /\ p.success)
      /\ (\E p \in Answers : p.req = r) <=> (\E p \in Answers' : p.req = r)
  OBVIOUS
<1> QED
  BY <1>1 DEF Status

\* Reading the queue of responses loses none.
LEMMA ReceiveAnswers == TypeOK /\ ReceiveResponse => Answers' = Answers
<1> SUFFICES ASSUME TypeOK, ReceiveResponse PROVE Answers' = Answers
  OBVIOUS
<1>1. responseChan \in Seq(Responses) /\ responseChan # <<>>
  BY DEF TypeOK, ReceiveResponse
<1>2. /\ received' = received \cup {Head(responseChan)}
      /\ responseChan' = Tail(responseChan)
  BY DEF ReceiveResponse
<1>3. {responseChan[i] : i \in DOMAIN responseChan}
        = {Head(responseChan)} \cup {Tail(responseChan)[i] : i \in DOMAIN Tail(responseChan)}
  <2> HIDE DEF Responses
  <2>1. /\ Head(responseChan) = responseChan[1] /\ Len(responseChan) \in Nat /\ Len(responseChan) > 0
        /\ DOMAIN responseChan = 1..Len(responseChan)
        /\ DOMAIN Tail(responseChan) = 1..(Len(responseChan) - 1)
        /\ \A i \in DOMAIN Tail(responseChan) : Tail(responseChan)[i] = responseChan[i + 1]
    BY <1>1, HeadTail
  <2>2. ASSUME NEW i \in DOMAIN responseChan
        PROVE  \/ responseChan[i] = Head(responseChan)
               \/ \E j \in DOMAIN Tail(responseChan) : responseChan[i] = Tail(responseChan)[j]
    <3>1. CASE i = 1
      BY <2>1, <3>1
    <3>2. CASE i # 1
      <4>1. i - 1 \in DOMAIN Tail(responseChan) /\ (i - 1) + 1 = i
        BY <2>1, <3>2
      <4> QED
        BY <2>1, <4>1
    <3> QED
      BY <3>1, <3>2
  <2>3. /\ 1 \in DOMAIN responseChan
        /\ \A i \in DOMAIN Tail(responseChan) : i + 1 \in DOMAIN responseChan
    BY <2>1
  <2>4. {responseChan[i] : i \in DOMAIN responseChan}
          \subseteq {Head(responseChan)} \cup {Tail(responseChan)[i] : i \in DOMAIN Tail(responseChan)}
    BY <2>2
  <2>5. {Head(responseChan)} \cup {Tail(responseChan)[i] : i \in DOMAIN Tail(responseChan)}
          \subseteq {responseChan[i] : i \in DOMAIN responseChan}
    BY <2>1, <2>3
  <2> QED
    BY <2>4, <2>5
<1> QED
  BY <1>2, <1>3 DEF Answers

\* A worker's response joins the others.
LEMMA PushAnswers ==
    ASSUME TypeOK, NEW w \in Workers, PushResponse(w)
    PROVE  Answers' = Answers \cup {[req |-> request[w], success |-> success[w]]}
<1> DEFINE x == [req |-> request[w], success |-> success[w]]
<1>1. responseChan \in Seq(Responses) /\ responseChan' = Append(responseChan, x)
      /\ received' = received
  BY DEF TypeOK, PushResponse
<1> HIDE DEF x
<1>2. /\ DOMAIN Append(responseChan, x) = DOMAIN responseChan \cup {Len(responseChan) + 1}
      /\ Append(responseChan, x)[Len(responseChan) + 1] = x
      /\ \A i \in DOMAIN responseChan : Append(responseChan, x)[i] = responseChan[i]
  BY <1>1
<1>3. {Append(responseChan, x)[i] : i \in DOMAIN Append(responseChan, x)}
        = {responseChan[i] : i \in DOMAIN responseChan} \cup {x}
  BY <1>2
<1> QED
  BY <1>1, <1>3 DEF Answers, x

\* A transaction of another signer is none of a request's.
LEMMA PackagesStay ==
    ASSUME accepted \subseteq accepted',
           \A tx \in accepted' : tx \in accepted \/ tx.owner \notin Requests
    PROVE  Packages' = Packages
BY DEF Packages

LEMMA ContractInit == Init => Contract!Init
<1> SUFFICES ASSUME Init PROVE Contract!Init
  OBVIOUS
<1>1. \A r \in Requests : Status(r) = "new"
  BY DEF Init, Status
<1>2. Phase = "open" /\ Statuses = [r \in Requests |-> "new"] /\ Packages = {}
  BY <1>1 DEF Init, Phase, Statuses, Packages
<1> QED
  BY <1>2 DEF Contract!Init

LEMMA ContractSubmit ==
    ASSUME IInv, NEW r \in Requests, SubmitRequest(r)
    PROVE  Contract!Submit(r)
<1>1. TypeOK /\ PlacesInv /\ r \notin submitted /\ stop # "joining"
  BY DEF IInv, SubmitRequest, MutexFree
<1>2. Phase' = Phase /\ Packages' = Packages
  BY DEF SubmitRequest, nodeVars, Phase, Packages
<1>3. /\ Answers' = Answers /\ submitted' = submitted \cup {r}
      /\ \/ stop = "no" /\ lost' = lost
         \/ lost' = lost \cup {r}
  BY DEF SubmitRequest, Answers, IsStopped
<1>4. ASSUME NEW s \in Requests \ {r} PROVE Status(s)' = Status(s)
  BY <1>3, StatusStays
<1>5. r \notin lost /\ \A p \in Answers : p.req # r
  BY <1>1, UnsubmittedNowhere
<1>6. Status(r) = "new"
  BY <1>1 DEF Status
<1>7. /\ lost' = lost => Status(r)' = "pending"
      /\ lost' = lost \cup {r} => Status(r)' = "lost"
  BY <1>3, <1>5 DEF Status
<1>8. \/ Phase = "open" /\ Statuses' = [Statuses EXCEPT ![r] = "pending"]
      \/ Statuses' = [Statuses EXCEPT ![r] = "lost"]
  BY <1>1, <1>3, <1>4, <1>7 DEF Statuses, Phase
<1>9. Phase # "stopping" /\ Statuses[r] = "new"
  BY <1>1, <1>6 DEF Phase, Statuses, TypeOK
<1> QED
  BY <1>2, <1>8, <1>9 DEF Contract!Submit

\* A busy worker's request is pending, and Stop has not returned.
LEMMA BusyPending ==
    ASSUME IInv, NEW w \in Workers, worker[w] \in Busy
    PROVE  /\ request[w] \in Requests /\ Status(request[w]) = "pending"
           /\ Phase # "closed"
<1>1. TypeOK /\ PlacesInv /\ request[w] \in Requests
  BY DEF IInv, RequestInv
<1>2. stop # "closed"
  BY DEF IInv, NoWorkerAfterStop, Busy, Running
<1>3. /\ request[w] \in submitted /\ request[w] \notin lost
      /\ \A p \in Answers : p.req # request[w]
  BY <1>1, HeldAlone
<1> QED
  BY <1>1, <1>2, <1>3 DEF Status, Phase, TypeOK

LEMMA ContractPublish ==
    ASSUME IInv, PackageInv, NEW w \in Workers, worker[w] = "send", ~Taken(nonce[w]),
           sent[w] < Updates[request[w]],
           Accept(nonce[w], request[w], sent[w] + 1),
           UNCHANGED queueVars
    PROVE  Contract!Publish(request[w])
<1> DEFINE r == request[w]
           tx == [nonce |-> nonce[w], owner |-> r, index |-> sent[w] + 1]
<1>1. /\ r \in Requests /\ Status(r) = "pending" /\ Phase # "closed"
  BY BusyPending DEF Busy
<1>2. /\ TypeOK /\ nonce[w] \in Nat /\ sent[w] \in Nat /\ Updates[r] \in Nat
  BY <1>1, BatchSenderAssumption DEF IInv, TypeOK
<1>3. /\ accepted' = accepted \cup {tx} /\ tx \notin accepted
      /\ \A t \in accepted : t.nonce # tx.nonce
  BY DEF Accept, Taken
<1>4. /\ Packages' = Packages \cup {tx} /\ tx \in Packages' \ Packages
      /\ \A t \in Packages : t.nonce # tx.nonce
  BY <1>1, <1>3 DEF Packages
<1>5. tx.owner = r /\ tx.index = sent[w] + 1 /\ tx.index \in 1..Updates[r]
  BY <1>2
<1>6. {t.index : t \in {u \in Packages : u.owner = r}} = 1..(tx.index - 1)
  <2>1. \A t \in Packages : t.owner = r => t.index \in 1..sent[w]
    BY <1>1 DEF PackageInv, Packages
  <2>2. ASSUME NEW i \in 1..sent[w]
        PROVE  \E t \in {u \in Packages : u.owner = r} : t.index = i
    <3>1. [nonce |-> nonce[w] - sent[w] + i - 1, owner |-> r, index |-> i] \in accepted
      BY DEF IInv, SentInv
    <3> QED
      BY <1>1, <3>1 DEF Packages
  <2>3. tx.index - 1 = sent[w]
    BY <1>2
  <2> HIDE DEF tx, r
  <2> QED
    BY <2>1, <2>2, <2>3
<1>7. Phase' = Phase /\ Statuses' = Statuses
  <2>1. Phase' = Phase /\ Answers' = Answers /\ submitted' = submitted /\ lost' = lost
    BY DEF queueVars, Phase, Answers
  <2> QED
    BY <2>1, StatusStays DEF Statuses
<1>8. Statuses[r] = "pending"
  BY <1>1 DEF Statuses
<1> HIDE DEF tx, r
<1>9. Contract!Publish(r)
  BY <1>1, <1>4, <1>5, <1>6, <1>7, <1>8 DEF Contract!Publish
<1> QED
  BY <1>9 DEF r

LEMMA ContractAnswer ==
    ASSUME IInv, NEW w \in Workers, NEW r \in Requests, r = request[w],
           PushResponse(w) \/ PushResponseStopped(w) \/ DropResponse(w)
    PROVE  Contract!Answer(r)
<1> DEFINE outcome == IF success[w] THEN "succeeded" ELSE "failed"
<1>1. TypeOK /\ PlacesInv /\ worker[w] = "respond" /\ success[w] \in BOOLEAN
  BY DEF IInv, TypeOK, PushResponse, PushResponseStopped, DropResponse
<1>2. Status(r) = "pending" /\ Phase # "closed"
  BY <1>1, BusyPending DEF Busy
<1>3. /\ r \in submitted /\ r \notin lost /\ \A p \in Answers : p.req # r
  BY <1>1, <1>2, HeldAlone DEF Busy
<1>4. Phase' = Phase /\ Packages' = Packages /\ submitted' = submitted
  BY DEF PushResponse, PushResponseStopped, DropResponse, nodeVars, Phase, Packages
<1>5. CASE PushResponse(w)
  <2>1. lost' = lost /\ Answers' = Answers \cup {[req |-> r, success |-> success[w]]}
    BY <1>1, <1>5, PushAnswers DEF PushResponse
  <2>2. ASSUME NEW s \in Requests \ {r} PROVE Status(s)' = Status(s)
    BY <1>4, <2>1, StatusStays
  <2>3. Status(r)' = outcome
    <3> DEFINE x == [req |-> r, success |-> success[w]]
    <3>1. x \in Answers' /\ x.req = r /\ x.success = success[w]
      BY <2>1
    <3>2. \A p \in Answers' : p.req = r => p = x
      BY <1>3, <2>1
    <3> HIDE DEF x
    <3>3. /\ \E p \in Answers' : p.req = r
          /\ (\E p \in Answers' : p.req = r /\ p.success) <=> success[w]
      BY <3>1, <3>2
    <3>4. r \in submitted' /\ r \notin lost'
      BY <1>3, <1>4, <2>1
    <3> QED
      BY <3>3, <3>4 DEF Status
  <2>4. outcome = "succeeded" => Contract!Whole(r)
    <3> SUFFICES ASSUME success[w] PROVE Contract!Whole(r)
      BY <1>5
    <3>1. Published(r, accepted)
      BY <1>1 DEF IInv, SuccessInv
    <3>2. Updates[r] \in Nat /\ Updates[r] > 0
      BY <1>2, <3>1, BatchSenderAssumption DEF Published
    <3>3. PICK first \in Nat : \A i \in 1..Updates[r] :
            [nonce |-> first + i - 1, owner |-> r, index |-> i] \in accepted
      BY <3>1 DEF Published
    <3>4. \A i \in 1..Updates[r] : [nonce |-> first + i - 1, owner |-> r, index |-> i] \in Packages
      BY <1>2, <3>3 DEF Packages
    <3>5. [nonce |-> first + 1 - 1, owner |-> r, index |-> 1] \in Packages
      BY <3>2, <3>4
    <3>6. first \in {t.nonce : t \in Packages}
      BY <3>5
    <3> QED
      BY <3>2, <3>4, <3>6 DEF Contract!Whole
  <2>5. Statuses' = [Statuses EXCEPT ![r] = outcome] /\ Statuses[r] = "pending"
    BY <1>2, <2>2, <2>3 DEF Statuses
  <2>6. outcome \in {"succeeded", "failed", "lost"}
    BY <1>1
  <2> HIDE DEF outcome
  <2> QED
    BY <1>2, <1>4, <2>4, <2>5, <2>6 DEF Contract!Answer, Contract!Outcomes
<1>6. CASE PushResponseStopped(w) \/ DropResponse(w)
  <2>1. lost' = lost \cup {r} /\ Answers' = Answers
    BY <1>6 DEF PushResponseStopped, DropResponse, Answers
  <2>2. ASSUME NEW s \in Requests \ {r} PROVE Status(s)' = Status(s)
    BY <1>4, <2>1, StatusStays
  <2>3. Status(r)' = "lost"
    BY <1>3, <1>4, <2>1 DEF Status
  <2>4. Statuses' = [Statuses EXCEPT ![r] = "lost"] /\ Statuses[r] = "pending"
    BY <1>2, <2>2, <2>3 DEF Statuses
  <2> QED
    BY <1>2, <1>4, <2>4 DEF Contract!Answer, Contract!Outcomes
<1> QED
  BY <1>5, <1>6

\* A step submits, publishes, answers, stops, or leaves the contract's view alone.
LEMMA ContractStep ==
    IInv /\ PackageInv /\ [Next]_vars => [Contract!Next]_(Contract!vars)
<1> SUFFICES ASSUME IInv, PackageInv, [Next]_vars PROVE [Contract!Next]_(Contract!vars)
  OBVIOUS
<1>t. TypeOK
  BY DEF IInv
<1>1. ASSUME NEW r \in Requests, SubmitRequest(r) PROVE Contract!Next
  BY <1>1, ContractSubmit DEF Contract!Next
<1>2. ASSUME NEW w \in Workers,
             PushResponse(w) \/ PushResponseStopped(w) \/ DropResponse(w)
      PROVE  Contract!Next
  <2>1. PICK r \in Requests : r = request[w]
    BY <1>2, BusyPending DEF Busy, PushResponse, PushResponseStopped, DropResponse
  <2> QED
    BY <1>2, <2>1, ContractAnswer DEF Contract!Next
<1>3. ASSUME NEW w \in Workers, SendUpdate(w) \/ SendUpdateFails(w), accepted' # accepted
      PROVE  Contract!Next
  <2>1. /\ worker[w] = "send" /\ ~Taken(nonce[w]) /\ sent[w] < Updates[request[w]]
        /\ Accept(nonce[w], request[w], sent[w] + 1)
        /\ UNCHANGED queueVars
    BY <1>3 DEF SendUpdate, SendUpdateFails
  <2>2. request[w] \in Requests
    BY <2>1, BusyPending DEF Busy
  <2> QED
    BY <2>1, <2>2, ContractPublish DEF Contract!Next
<1>4. CASE StopBegin \/ StopEnd
  <2>1. UNCHANGED <<submitted, lost, received, responseChan, accepted>>
    BY <1>4 DEF StopBegin, StopEnd, nodeVars
  <2>2. Packages' = Packages /\ Answers' = Answers
    BY <2>1 DEF Packages, Answers
  <2>3. Statuses' = Statuses
    BY <2>1, <2>2, StatusStays DEF Statuses
  <2>4. \/ Phase = "open" /\ Phase' = "stopping"
        \/ Phase = "stopping" /\ Phase' = "closed"
    BY <1>4 DEF StopBegin, StopEnd, Phase
  <2> QED
    BY <2>2, <2>3, <2>4 DEF Contract!Next, Contract!BeginStop, Contract!EndStop
<1>5. ASSUME UNCHANGED <<submitted, lost, stop>>, Answers' = Answers, Packages' = Packages
      PROVE  UNCHANGED Contract!vars
  <2>1. Statuses' = Statuses
    BY <1>5, StatusStays DEF Statuses
  <2>2. Phase' = Phase
    BY <1>5 DEF Phase
  <2> QED
    BY <1>5, <2>1, <2>2 DEF Contract!vars
<1>6. CASE \/ Mine \/ Start \/ ReceiveResponse \/ ForeignSends \/ UNCHANGED vars
           \/ \E w \in Workers : \/ TakeRequest(w) \/ WorkerStops(w) \/ GetNonce(w)
                                 \/ GetNonceFails(w) \/ PackageDone(w)
                                 \/ accepted' = accepted /\ (SendUpdate(w) \/ SendUpdateFails(w))
  <2>1. UNCHANGED <<submitted, lost, stop>>
    BY <1>6 DEF Mine, Start, ReceiveResponse, ForeignSends, TakeRequest, WorkerStops,
       GetNonce, GetNonceFails, SendUpdate, SendUpdateFails, PackageDone, vars, queueVars
  <2>2. Answers' = Answers
    <3>1. CASE ReceiveResponse
      BY <1>t, <3>1, ReceiveAnswers
    <3>2. CASE UNCHANGED <<received, responseChan>>
      BY <3>2 DEF Answers
    <3> QED
      BY <1>6, <3>1, <3>2 DEF Mine, Start, ForeignSends, TakeRequest, WorkerStops,
         GetNonce, GetNonceFails, SendUpdate, SendUpdateFails, PackageDone, vars, queueVars
  <2>3. Packages' = Packages
    <3>1. /\ accepted \subseteq accepted'
          /\ \A tx \in accepted' : tx \in accepted \/ tx.owner \notin Requests
      <4>1. CASE ForeignSends
        BY <4>1, BatchSenderAssumption DEF ForeignSends, Accept, nodeVars
      <4>2. CASE accepted' = accepted
        BY <4>2
      <4> QED
        BY <1>6, <4>1, <4>2 DEF Mine, Start, ReceiveResponse, TakeRequest, WorkerStops, GetNonce,
           GetNonceFails, PackageDone, vars, nodeVars
    <3> QED
      BY <3>1, PackagesStay
  <2> QED
    BY <1>5, <2>1, <2>2, <2>3
<1> QED
  BY <1>1, <1>2, <1>3, <1>4, <1>6 DEF Next, Worker

\* The sender implements RequestContract: each request gets at most one outcome
\* and keeps it, its updates go out once each and in order, a success is true,
\* and after Stop nothing more is published or answered (transaction.go:580-704).
THEOREM Refinement == Spec => ImplementsContract
<1>1. Init => PackageInv
  BY DEF Init, PackageInv
<1>2. Spec => Contract!Init /\ [][Contract!Next]_(Contract!vars)
  BY <1>1, PackageStep, ContractInit, ContractStep, Invariance, PTL DEF Spec
<1> QED
  BY <1>2 DEF ImplementsContract, Contract!Spec

=============================================================================
