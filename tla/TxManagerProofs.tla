-------------------------- MODULE TxManagerProofs --------------------------
(***************************************************************************)
(* Proofs about TxManager: the type invariant, the four safety invariants  *)
(* and the refinement of SendContract, for any number of attempts, any     *)
(* hashes, any confirmation depth and any abort threshold.                 *)
(***************************************************************************)
EXTENDS TxManager, TLAPS

\* The goroutines the WaitGroup counts are exactly the running ones, and a
\* Send past its deferred wg.Wait has none.
WaitGroupInv ==
    /\ \A a \in Attempts : a \in wg <=> pc[a] \in Running
    /\ send = "returned" => wg = {}

\* What a receipt read from the backend still says of the chain.
Sound(r) ==
    /\ r.tx \in published
    /\ r.epoch = epoch => included = r.tx /\ height = r.height
    /\ r.epoch <= epoch

\* Receipts are sound wherever they are held, and confirmed once past QueryTip.
ReceiptInv ==
    /\ included \in Hashes => included \in published
    /\ \A a \in Attempts :
          /\ pc[a] \in {"mark", "tip", "push"} => receipt[a] \in Receipts /\ Sound(receipt[a])
          /\ pc[a] = "push" => Confirmed(receipt[a].height, tip)
    /\ \A r \in receiptChan : Sound(r) /\ Confirmed(r.height, tip)
    /\ answer \in Receipts => Sound(answer) /\ Confirmed(answer.height, tip)

\* A goroutine past updateGasPrice has a transaction.
HashInv ==
    \A a \in Attempts : pc[a] \in Running \ {"gas"} => hash[a] \in Hashes

\* The counter never runs ahead of the answers it counts.
CountInv ==
    /\ nonceTooLowCount <= tooLow
    /\ \A a \in Attempts : pc[a] = "abort" => tooLow >= SafeAbortNonceTooLowCount
    /\ AbortJustified

\* Send has an answer exactly when it left its loop.
AnswerInv == send = "loop" <=> answer = NoReceipt

IInv ==
    /\ TypeOK
    /\ WaitGroupInv
    /\ ReceiptInv
    /\ HashInv
    /\ CountInv
    /\ AnswerInv
    /\ MinedIsWatched

-----------------------------------------------------------------------------
(* Preservation, one lemma per conjunct *)

\* Every step keeps the types.
LEMMA TypeStep ==
    TypeOK /\ HashInv /\ ReceiptInv /\ [Next]_vars => TypeOK'
<1> SUFFICES ASSUME TypeOK, HashInv, ReceiptInv, [Next]_vars PROVE TypeOK'
  OBVIOUS
<1> USE TxManagerAssumption, SafeAbortAssumption DEF TypeOK, HashInv, ReceiptInv, Receipts, NoReceipt, ErrorAnswer, Running, Watching, vars, sendStateVars, chainVars, goVars, sendVars
<1>1. CASE \E tx \in published \cup {Foreign} : Mine(tx)
  BY <1>1 DEF Mine
<1>2. CASE MineEmpty
  BY <1>2 DEF MineEmpty
<1>3. CASE Reorg
  BY <1>3 DEF Reorg
<1>4. CASE \E a \in Attempts : UpdateGasPrice(a)
  BY <1>4 DEF UpdateGasPrice, Goto
<1>5. CASE \E a \in Attempts : UpdateGasPriceCanceled(a)
  BY <1>5 DEF UpdateGasPriceCanceled, Exit, Goto
<1>6. CASE \E a \in Attempts : UpdateGasPriceFails(a)
  BY <1>6 DEF UpdateGasPriceFails, Exit, Goto, Cancel
<1>7. CASE \E a \in Attempts : SendTx(a)
  BY <1>7 DEF SendTx, Goto, SendErrors
<1>8. CASE \E a \in Attempts : HandleSendResult(a)
  BY <1>8 DEF HandleSendResult, ProcessSendError, Exit, Goto
<1>9. CASE \E a \in Attempts : CheckAbort(a)
  BY <1>9 DEF CheckAbort, Exit, Goto, ShouldAbortImmediately
<1>10. CASE \E a \in Attempts : Abort(a)
  BY <1>10 DEF Abort, Exit, Goto, Cancel
<1>11. CASE \E a \in Attempts : ReceiptFound(a)
  BY <1>11 DEF ReceiptFound, Goto
<1>12. CASE \E a \in Attempts : ReceiptAbsent(a)
  BY <1>12 DEF ReceiptAbsent, Goto
<1>13. CASE \E a \in Attempts : ReceiptFails(a)
  BY <1>13 DEF ReceiptFails, Goto
<1>14. CASE \E a \in Attempts : MarkMined(a)
  BY <1>14 DEF MarkMined, TxMined, Goto
<1>15. CASE \E a \in Attempts : MarkNotMined(a)
  BY <1>15 DEF MarkNotMined, TxNotMined, Goto
<1>16. CASE \E a \in Attempts : TipConfirms(a)
  BY <1>16 DEF TipConfirms, Goto
<1>17. CASE \E a \in Attempts : TipDoesNotConfirm(a)
  BY <1>17 DEF TipDoesNotConfirm, Goto
<1>18. CASE \E a \in Attempts : SelectDone(a)
  BY <1>18 DEF SelectDone, Exit, Goto
<1>19. CASE \E a \in Attempts : SelectTick(a)
  BY <1>19 DEF SelectTick, Goto
<1>20. CASE \E a \in Attempts : PushReceipt(a)
  BY <1>20 DEF PushReceipt, Exit, Goto
<1>21. CASE \E a \in Attempts : Resubmit(a)
  BY <1>21 DEF Resubmit, Launch, Goto
<1>22. CASE ReturnError
  BY <1>22 DEF ReturnError
<1>23. CASE ReturnReceipt
  BY <1>23 DEF ReturnReceipt
<1>24. CASE DeferredCancel
  BY <1>24 DEF DeferredCancel, Cancel
<1>25. CASE DeferredWait
  BY <1>25 DEF DeferredWait
<1>26. CASE CallerCancels
  BY <1>26 DEF CallerCancels
<1>27. CASE UNCHANGED vars
  BY <1>27
<1> QED
  BY <1>1, <1>2, <1>3, <1>4, <1>5, <1>6, <1>7, <1>8, <1>9, <1>10, <1>11, <1>12, <1>13, <1>14, <1>15, <1>16, <1>17, <1>18, <1>19, <1>20, <1>21, <1>22, <1>23, <1>24, <1>25, <1>26, <1>27 DEF Next, Chain, SendTxAsync, Send

\* Launch and Exit keep the WaitGroup and the program counters together, and
\* nothing is launched once Send left its loop.
LEMMA WaitGroupStep ==
    TypeOK /\ WaitGroupInv /\ [Next]_vars => WaitGroupInv'
<1> SUFFICES ASSUME TypeOK, WaitGroupInv, [Next]_vars PROVE WaitGroupInv'
  OBVIOUS
<1> USE TxManagerAssumption, SafeAbortAssumption DEF TypeOK, WaitGroupInv, Running, Watching, vars, sendStateVars, chainVars, goVars, sendVars
<1>1. CASE \E tx \in published \cup {Foreign} : Mine(tx)
  BY <1>1 DEF Mine
<1>2. CASE MineEmpty
  BY <1>2 DEF MineEmpty
<1>3. CASE Reorg
  BY <1>3 DEF Reorg
<1>4. CASE \E a \in Attempts : UpdateGasPrice(a)
  BY <1>4 DEF UpdateGasPrice, Goto
<1>5. CASE \E a \in Attempts : UpdateGasPriceCanceled(a)
  BY <1>5 DEF UpdateGasPriceCanceled, Exit, Goto
<1>6. CASE \E a \in Attempts : UpdateGasPriceFails(a)
  BY <1>6 DEF UpdateGasPriceFails, Exit, Goto, Cancel
<1>7. CASE \E a \in Attempts : SendTx(a)
  BY <1>7 DEF SendTx, Goto, SendErrors
<1>8. CASE \E a \in Attempts : HandleSendResult(a)
  BY <1>8 DEF HandleSendResult, ProcessSendError, Exit, Goto
<1>9. CASE \E a \in Attempts : CheckAbort(a)
  BY <1>9 DEF CheckAbort, Exit, Goto, ShouldAbortImmediately
<1>10. CASE \E a \in Attempts : Abort(a)
  BY <1>10 DEF Abort, Exit, Goto, Cancel
<1>11. CASE \E a \in Attempts : ReceiptFound(a)
  BY <1>11 DEF ReceiptFound, Goto
<1>12. CASE \E a \in Attempts : ReceiptAbsent(a)
  BY <1>12 DEF ReceiptAbsent, Goto
<1>13. CASE \E a \in Attempts : ReceiptFails(a)
  BY <1>13 DEF ReceiptFails, Goto
<1>14. CASE \E a \in Attempts : MarkMined(a)
  BY <1>14 DEF MarkMined, TxMined, Goto
<1>15. CASE \E a \in Attempts : MarkNotMined(a)
  BY <1>15 DEF MarkNotMined, TxNotMined, Goto
<1>16. CASE \E a \in Attempts : TipConfirms(a)
  BY <1>16 DEF TipConfirms, Goto
<1>17. CASE \E a \in Attempts : TipDoesNotConfirm(a)
  BY <1>17 DEF TipDoesNotConfirm, Goto
<1>18. CASE \E a \in Attempts : SelectDone(a)
  BY <1>18 DEF SelectDone, Exit, Goto
<1>19. CASE \E a \in Attempts : SelectTick(a)
  BY <1>19 DEF SelectTick, Goto
<1>20. CASE \E a \in Attempts : PushReceipt(a)
  BY <1>20 DEF PushReceipt, Exit, Goto
<1>21. CASE \E a \in Attempts : Resubmit(a)
  BY <1>21 DEF Resubmit, Launch, Goto
<1>22. CASE ReturnError
  BY <1>22 DEF ReturnError
<1>23. CASE ReturnReceipt
  BY <1>23 DEF ReturnReceipt
<1>24. CASE DeferredCancel
  BY <1>24 DEF DeferredCancel, Cancel
<1>25. CASE DeferredWait
  BY <1>25 DEF DeferredWait
<1>26. CASE CallerCancels
  BY <1>26 DEF CallerCancels
<1>27. CASE UNCHANGED vars
  BY <1>27
<1> QED
  BY <1>1, <1>2, <1>3, <1>4, <1>5, <1>6, <1>7, <1>8, <1>9, <1>10, <1>11, <1>12, <1>13, <1>14, <1>15, <1>16, <1>17, <1>18, <1>19, <1>20, <1>21, <1>22, <1>23, <1>24, <1>25, <1>26, <1>27 DEF Next, Chain, SendTxAsync, Send

\* Only updateGasPrice sets the hash, and it sets one.
LEMMA HashStep ==
    TypeOK /\ HashInv /\ [Next]_vars => HashInv'
<1> SUFFICES ASSUME TypeOK, HashInv, [Next]_vars PROVE HashInv'
  OBVIOUS
<1> USE TxManagerAssumption, SafeAbortAssumption DEF TypeOK, HashInv, Running, Watching, vars, sendStateVars, chainVars, goVars, sendVars
<1>1. CASE \E tx \in published \cup {Foreign} : Mine(tx)
  BY <1>1 DEF Mine
<1>2. CASE MineEmpty
  BY <1>2 DEF MineEmpty
<1>3. CASE Reorg
  BY <1>3 DEF Reorg
<1>4. CASE \E a \in Attempts : UpdateGasPrice(a)
  BY <1>4 DEF UpdateGasPrice, Goto
<1>5. CASE \E a \in Attempts : UpdateGasPriceCanceled(a)
  BY <1>5 DEF UpdateGasPriceCanceled, Exit, Goto
<1>6. CASE \E a \in Attempts : UpdateGasPriceFails(a)
  BY <1>6 DEF UpdateGasPriceFails, Exit, Goto, Cancel
<1>7. CASE \E a \in Attempts : SendTx(a)
  BY <1>7 DEF SendTx, Goto, SendErrors
<1>8. CASE \E a \in Attempts : HandleSendResult(a)
  BY <1>8 DEF HandleSendResult, ProcessSendError, Exit, Goto
<1>9. CASE \E a \in Attempts : CheckAbort(a)
  BY <1>9 DEF CheckAbort, Exit, Goto, ShouldAbortImmediately
<1>10. CASE \E a \in Attempts : Abort(a)
  BY <1>10 DEF Abort, Exit, Goto, Cancel
<1>11. CASE \E a \in Attempts : ReceiptFound(a)
  BY <1>11 DEF ReceiptFound, Goto
<1>12. CASE \E a \in Attempts : ReceiptAbsent(a)
  BY <1>12 DEF ReceiptAbsent, Goto
<1>13. CASE \E a \in Attempts : ReceiptFails(a)
  BY <1>13 DEF ReceiptFails, Goto
<1>14. CASE \E a \in Attempts : MarkMined(a)
  BY <1>14 DEF MarkMined, TxMined, Goto
<1>15. CASE \E a \in Attempts : MarkNotMined(a)
  BY <1>15 DEF MarkNotMined, TxNotMined, Goto
<1>16. CASE \E a \in Attempts : TipConfirms(a)
  BY <1>16 DEF TipConfirms, Goto
<1>17. CASE \E a \in Attempts : TipDoesNotConfirm(a)
  BY <1>17 DEF TipDoesNotConfirm, Goto
<1>18. CASE \E a \in Attempts : SelectDone(a)
  BY <1>18 DEF SelectDone, Exit, Goto
<1>19. CASE \E a \in Attempts : SelectTick(a)
  BY <1>19 DEF SelectTick, Goto
<1>20. CASE \E a \in Attempts : PushReceipt(a)
  BY <1>20 DEF PushReceipt, Exit, Goto
<1>21. CASE \E a \in Attempts : Resubmit(a)
  BY <1>21 DEF Resubmit, Launch, Goto
<1>22. CASE ReturnError
  BY <1>22 DEF ReturnError
<1>23. CASE ReturnReceipt
  BY <1>23 DEF ReturnReceipt
<1>24. CASE DeferredCancel
  BY <1>24 DEF DeferredCancel, Cancel
<1>25. CASE DeferredWait
  BY <1>25 DEF DeferredWait
<1>26. CASE CallerCancels
  BY <1>26 DEF CallerCancels
<1>27. CASE UNCHANGED vars
  BY <1>27
<1> QED
  BY <1>1, <1>2, <1>3, <1>4, <1>5, <1>6, <1>7, <1>8, <1>9, <1>10, <1>11, <1>12, <1>13, <1>14, <1>15, <1>16, <1>17, <1>18, <1>19, <1>20, <1>21, <1>22, <1>23, <1>24, <1>25, <1>26, <1>27 DEF Next, Chain, SendTxAsync, Send

\* The counter and the abort decision follow the processed answers.
LEMMA CountStep ==
    TypeOK /\ CountInv /\ [Next]_vars => CountInv'
<1> SUFFICES ASSUME TypeOK, CountInv, [Next]_vars PROVE CountInv'
  OBVIOUS
<1> USE TxManagerAssumption, SafeAbortAssumption DEF TypeOK, CountInv, AbortJustified, Running, Watching, vars, sendStateVars, chainVars, goVars, sendVars
<1>1. CASE \E tx \in published \cup {Foreign} : Mine(tx)
  BY <1>1 DEF Mine
<1>2. CASE MineEmpty
  BY <1>2 DEF MineEmpty
<1>3. CASE Reorg
  BY <1>3 DEF Reorg
<1>4. CASE \E a \in Attempts : UpdateGasPrice(a)
  BY <1>4 DEF UpdateGasPrice, Goto
<1>5. CASE \E a \in Attempts : UpdateGasPriceCanceled(a)
  BY <1>5 DEF UpdateGasPriceCanceled, Exit, Goto
<1>6. CASE \E a \in Attempts : UpdateGasPriceFails(a)
  BY <1>6 DEF UpdateGasPriceFails, Exit, Goto, Cancel
<1>7. CASE \E a \in Attempts : SendTx(a)
  BY <1>7 DEF SendTx, Goto, SendErrors
<1>8. CASE \E a \in Attempts : HandleSendResult(a)
  BY <1>8 DEF HandleSendResult, ProcessSendError, Exit, Goto
<1>9. CASE \E a \in Attempts : CheckAbort(a)
  BY <1>9 DEF CheckAbort, Exit, Goto, ShouldAbortImmediately
<1>10. CASE \E a \in Attempts : Abort(a)
  BY <1>10 DEF Abort, Exit, Goto, Cancel
<1>11. CASE \E a \in Attempts : ReceiptFound(a)
  BY <1>11 DEF ReceiptFound, Goto
<1>12. CASE \E a \in Attempts : ReceiptAbsent(a)
  BY <1>12 DEF ReceiptAbsent, Goto
<1>13. CASE \E a \in Attempts : ReceiptFails(a)
  BY <1>13 DEF ReceiptFails, Goto
<1>14. CASE \E a \in Attempts : MarkMined(a)
  BY <1>14 DEF MarkMined, TxMined, Goto
<1>15. CASE \E a \in Attempts : MarkNotMined(a)
  BY <1>15 DEF MarkNotMined, TxNotMined, Goto
<1>16. CASE \E a \in Attempts : TipConfirms(a)
  BY <1>16 DEF TipConfirms, Goto
<1>17. CASE \E a \in Attempts : TipDoesNotConfirm(a)
  BY <1>17 DEF TipDoesNotConfirm, Goto
<1>18. CASE \E a \in Attempts : SelectDone(a)
  BY <1>18 DEF SelectDone, Exit, Goto
<1>19. CASE \E a \in Attempts : SelectTick(a)
  BY <1>19 DEF SelectTick, Goto
<1>20. CASE \E a \in Attempts : PushReceipt(a)
  BY <1>20 DEF PushReceipt, Exit, Goto
<1>21. CASE \E a \in Attempts : Resubmit(a)
  BY <1>21 DEF Resubmit, Launch, Goto
<1>22. CASE ReturnError
  BY <1>22 DEF ReturnError
<1>23. CASE ReturnReceipt
  BY <1>23 DEF ReturnReceipt
<1>24. CASE DeferredCancel
  BY <1>24 DEF DeferredCancel, Cancel
<1>25. CASE DeferredWait
  BY <1>25 DEF DeferredWait
<1>26. CASE CallerCancels
  BY <1>26 DEF CallerCancels
<1>27. CASE UNCHANGED vars
  BY <1>27
<1> QED
  BY <1>1, <1>2, <1>3, <1>4, <1>5, <1>6, <1>7, <1>8, <1>9, <1>10, <1>11, <1>12, <1>13, <1>14, <1>15, <1>16, <1>17, <1>18, <1>19, <1>20, <1>21, <1>22, <1>23, <1>24, <1>25, <1>26, <1>27 DEF Next, Chain, SendTxAsync, Send

\* The answer is given on leaving the loop and never again.
LEMMA AnswerStep ==
    TypeOK /\ AnswerInv /\ [Next]_vars => AnswerInv'
<1> SUFFICES ASSUME TypeOK, AnswerInv, [Next]_vars PROVE AnswerInv'
  OBVIOUS
<1> USE TxManagerAssumption, SafeAbortAssumption DEF TypeOK, AnswerInv, Receipts, NoReceipt, ErrorAnswer, vars, sendStateVars, chainVars, goVars, sendVars
<1>1. CASE \E tx \in published \cup {Foreign} : Mine(tx)
  BY <1>1 DEF Mine
<1>2. CASE MineEmpty
  BY <1>2 DEF MineEmpty
<1>3. CASE Reorg
  BY <1>3 DEF Reorg
<1>4. CASE \E a \in Attempts : UpdateGasPrice(a)
  BY <1>4 DEF UpdateGasPrice, Goto
<1>5. CASE \E a \in Attempts : UpdateGasPriceCanceled(a)
  BY <1>5 DEF UpdateGasPriceCanceled, Exit, Goto
<1>6. CASE \E a \in Attempts : UpdateGasPriceFails(a)
  BY <1>6 DEF UpdateGasPriceFails, Exit, Goto, Cancel
<1>7. CASE \E a \in Attempts : SendTx(a)
  BY <1>7 DEF SendTx, Goto, SendErrors
<1>8. CASE \E a \in Attempts : HandleSendResult(a)
  BY <1>8 DEF HandleSendResult, ProcessSendError, Exit, Goto
<1>9. CASE \E a \in Attempts : CheckAbort(a)
  BY <1>9 DEF CheckAbort, Exit, Goto, ShouldAbortImmediately
<1>10. CASE \E a \in Attempts : Abort(a)
  BY <1>10 DEF Abort, Exit, Goto, Cancel
<1>11. CASE \E a \in Attempts : ReceiptFound(a)
  BY <1>11 DEF ReceiptFound, Goto
<1>12. CASE \E a \in Attempts : ReceiptAbsent(a)
  BY <1>12 DEF ReceiptAbsent, Goto
<1>13. CASE \E a \in Attempts : ReceiptFails(a)
  BY <1>13 DEF ReceiptFails, Goto
<1>14. CASE \E a \in Attempts : MarkMined(a)
  BY <1>14 DEF MarkMined, TxMined, Goto
<1>15. CASE \E a \in Attempts : MarkNotMined(a)
  BY <1>15 DEF MarkNotMined, TxNotMined, Goto
<1>16. CASE \E a \in Attempts : TipConfirms(a)
  BY <1>16 DEF TipConfirms, Goto
<1>17. CASE \E a \in Attempts : TipDoesNotConfirm(a)
  BY <1>17 DEF TipDoesNotConfirm, Goto
<1>18. CASE \E a \in Attempts : SelectDone(a)
  BY <1>18 DEF SelectDone, Exit, Goto
<1>19. CASE \E a \in Attempts : SelectTick(a)
  BY <1>19 DEF SelectTick, Goto
<1>20. CASE \E a \in Attempts : PushReceipt(a)
  BY <1>20 DEF PushReceipt, Exit, Goto
<1>21. CASE \E a \in Attempts : Resubmit(a)
  BY <1>21 DEF Resubmit, Launch, Goto
<1>22. CASE ReturnError
  BY <1>22 DEF ReturnError
<1>23. CASE ReturnReceipt
  BY <1>23 DEF ReturnReceipt
<1>24. CASE DeferredCancel
  BY <1>24 DEF DeferredCancel, Cancel
<1>25. CASE DeferredWait
  BY <1>25 DEF DeferredWait
<1>26. CASE CallerCancels
  BY <1>26 DEF CallerCancels
<1>27. CASE UNCHANGED vars
  BY <1>27
<1> QED
  BY <1>1, <1>2, <1>3, <1>4, <1>5, <1>6, <1>7, <1>8, <1>9, <1>10, <1>11, <1>12, <1>13, <1>14, <1>15, <1>16, <1>17, <1>18, <1>19, <1>20, <1>21, <1>22, <1>23, <1>24, <1>25, <1>26, <1>27 DEF Next, Chain, SendTxAsync, Send

\* A watcher leaves only behind a receipt or a done context.
LEMMA WatchStep ==
    TypeOK /\ HashInv /\ MinedIsWatched /\ [Next]_vars => MinedIsWatched'
<1> SUFFICES ASSUME TypeOK, HashInv, MinedIsWatched, [Next]_vars PROVE MinedIsWatched'
  OBVIOUS
<1> USE TxManagerAssumption, SafeAbortAssumption DEF TypeOK, HashInv, MinedIsWatched, Running, Watching, Canceled, vars, sendStateVars, chainVars, goVars, sendVars
<1>1. CASE \E tx \in published \cup {Foreign} : Mine(tx)
  BY <1>1 DEF Mine
<1>2. CASE MineEmpty
  BY <1>2 DEF MineEmpty
<1>3. CASE Reorg
  BY <1>3 DEF Reorg
<1>4. CASE \E a \in Attempts : UpdateGasPrice(a)
  BY <1>4 DEF UpdateGasPrice, Goto
<1>5. CASE \E a \in Attempts : UpdateGasPriceCanceled(a)
  BY <1>5 DEF UpdateGasPriceCanceled, Exit, Goto
<1>6. CASE \E a \in Attempts : UpdateGasPriceFails(a)
  BY <1>6 DEF UpdateGasPriceFails, Exit, Goto, Cancel
<1>7. CASE \E a \in Attempts : SendTx(a)
  BY <1>7 DEF SendTx, Goto, SendErrors
<1>8. CASE \E a \in Attempts : HandleSendResult(a)
  BY <1>8 DEF HandleSendResult, ProcessSendError, Exit, Goto
<1>9. CASE \E a \in Attempts : CheckAbort(a)
  BY <1>9 DEF CheckAbort, Exit, Goto, ShouldAbortImmediately
<1>10. CASE \E a \in Attempts : Abort(a)
  BY <1>10 DEF Abort, Exit, Goto, Cancel
<1>11. CASE \E a \in Attempts : ReceiptFound(a)
  BY <1>11 DEF ReceiptFound, Goto
<1>12. CASE \E a \in Attempts : ReceiptAbsent(a)
  BY <1>12 DEF ReceiptAbsent, Goto
<1>13. CASE \E a \in Attempts : ReceiptFails(a)
  BY <1>13 DEF ReceiptFails, Goto
<1>14. CASE \E a \in Attempts : MarkMined(a)
  BY <1>14 DEF MarkMined, TxMined, Goto
<1>15. CASE \E a \in Attempts : MarkNotMined(a)
  BY <1>15 DEF MarkNotMined, TxNotMined, Goto
<1>16. CASE \E a \in Attempts : TipConfirms(a)
  BY <1>16 DEF TipConfirms, Goto
<1>17. CASE \E a \in Attempts : TipDoesNotConfirm(a)
  BY <1>17 DEF TipDoesNotConfirm, Goto
<1>18. CASE \E a \in Attempts : SelectDone(a)
  BY <1>18 DEF SelectDone, Exit, Goto
<1>19. CASE \E a \in Attempts : SelectTick(a)
  BY <1>19 DEF SelectTick, Goto
<1>20. CASE \E a \in Attempts : PushReceipt(a)
  BY <1>20 DEF PushReceipt, Exit, Goto
<1>21. CASE \E a \in Attempts : Resubmit(a)
  BY <1>21 DEF Resubmit, Launch, Goto
<1>22. CASE ReturnError
  BY <1>22 DEF ReturnError
<1>23. CASE ReturnReceipt
  BY <1>23 DEF ReturnReceipt
<1>24. CASE DeferredCancel
  BY <1>24 DEF DeferredCancel, Cancel
<1>25. CASE DeferredWait
  BY <1>25 DEF DeferredWait
<1>26. CASE CallerCancels
  BY <1>26 DEF CallerCancels
<1>27. CASE UNCHANGED vars
  BY <1>27
<1> QED
  BY <1>1, <1>2, <1>3, <1>4, <1>5, <1>6, <1>7, <1>8, <1>9, <1>10, <1>11, <1>12, <1>13, <1>14, <1>15, <1>16, <1>17, <1>18, <1>19, <1>20, <1>21, <1>22, <1>23, <1>24, <1>25, <1>26, <1>27 DEF Next, Chain, SendTxAsync, Send

\* Receipts are read from the chain as it is, and outdated by reorgs only.
LEMMA ReceiptStep ==
    TypeOK /\ HashInv /\ ReceiptInv /\ [Next]_vars => ReceiptInv'
<1> SUFFICES ASSUME TypeOK, HashInv, ReceiptInv, [Next]_vars PROVE ReceiptInv'
  OBVIOUS
<1> USE TxManagerAssumption, SafeAbortAssumption DEF TypeOK, HashInv, ReceiptInv, Sound, Receipts, NoReceipt, ErrorAnswer, Confirmed, Running, Watching, vars, sendStateVars, chainVars, goVars, sendVars
<1>1. CASE \E tx \in published \cup {Foreign} : Mine(tx)
  BY <1>1 DEF Mine
<1>2. CASE MineEmpty
  BY <1>2 DEF MineEmpty
<1>3. CASE Reorg
  BY <1>3 DEF Reorg
<1>4. CASE \E a \in Attempts : UpdateGasPrice(a)
  BY <1>4 DEF UpdateGasPrice, Goto
<1>5. CASE \E a \in Attempts : UpdateGasPriceCanceled(a)
  BY <1>5 DEF UpdateGasPriceCanceled, Exit, Goto
<1>6. CASE \E a \in Attempts : UpdateGasPriceFails(a)
  BY <1>6 DEF UpdateGasPriceFails, Exit, Goto, Cancel
<1>7. CASE \E a \in Attempts : SendTx(a)
  BY <1>7 DEF SendTx, Goto, SendErrors
<1>8. CASE \E a \in Attempts : HandleSendResult(a)
  BY <1>8 DEF HandleSendResult, ProcessSendError, Exit, Goto
<1>9. CASE \E a \in Attempts : CheckAbort(a)
  BY <1>9 DEF CheckAbort, Exit, Goto, ShouldAbortImmediately
<1>10. CASE \E a \in Attempts : Abort(a)
  BY <1>10 DEF Abort, Exit, Goto, Cancel
<1>11. CASE \E a \in Attempts : ReceiptFound(a)
  BY <1>11 DEF ReceiptFound, Goto
<1>12. CASE \E a \in Attempts : ReceiptAbsent(a)
  BY <1>12 DEF ReceiptAbsent, Goto
<1>13. CASE \E a \in Attempts : ReceiptFails(a)
  BY <1>13 DEF ReceiptFails, Goto
<1>14. CASE \E a \in Attempts : MarkMined(a)
  BY <1>14 DEF MarkMined, TxMined, Goto
<1>15. CASE \E a \in Attempts : MarkNotMined(a)
  BY <1>15 DEF MarkNotMined, TxNotMined, Goto
<1>16. CASE \E a \in Attempts : TipConfirms(a)
  BY <1>16 DEF TipConfirms, Goto
<1>17. CASE \E a \in Attempts : TipDoesNotConfirm(a)
  BY <1>17 DEF TipDoesNotConfirm, Goto
<1>18. CASE \E a \in Attempts : SelectDone(a)
  BY <1>18 DEF SelectDone, Exit, Goto
<1>19. CASE \E a \in Attempts : SelectTick(a)
  BY <1>19 DEF SelectTick, Goto
<1>20. CASE \E a \in Attempts : PushReceipt(a)
  BY <1>20 DEF PushReceipt, Exit, Goto
<1>21. CASE \E a \in Attempts : Resubmit(a)
  BY <1>21 DEF Resubmit, Launch, Goto
<1>22. CASE ReturnError
  BY <1>22 DEF ReturnError
<1>23. CASE ReturnReceipt
  BY <1>23 DEF ReturnReceipt
<1>24. CASE DeferredCancel
  BY <1>24 DEF DeferredCancel, Cancel
<1>25. CASE DeferredWait
  BY <1>25 DEF DeferredWait
<1>26. CASE CallerCancels
  BY <1>26 DEF CallerCancels
<1>27. CASE UNCHANGED vars
  BY <1>27
<1> QED
  BY <1>1, <1>2, <1>3, <1>4, <1>5, <1>6, <1>7, <1>8, <1>9, <1>10, <1>11, <1>12, <1>13, <1>14, <1>15, <1>16, <1>17, <1>18, <1>19, <1>20, <1>21, <1>22, <1>23, <1>24, <1>25, <1>26, <1>27 DEF Next, Chain, SendTxAsync, Send

-----------------------------------------------------------------------------
(* The inductive invariant and what follows from it *)

LEMMA InitIInv == Init => IInv
<1> SUFFICES ASSUME Init PROVE IInv
  OBVIOUS
<1> USE TxManagerAssumption, SafeAbortAssumption DEF Init, NewSendState
<1>1. TypeOK
  BY DEF TypeOK, Running, Watching, SendErrors, NoReceipt
<1>2. WaitGroupInv /\ HashInv
  BY DEF WaitGroupInv, HashInv, Running, Watching
<1>3. ReceiptInv
  BY DEF ReceiptInv, Receipts, NoReceipt
<1>4. CountInv /\ AnswerInv
  BY DEF CountInv, AbortJustified, AnswerInv
<1>5. MinedIsWatched
  BY DEF MinedIsWatched
<1> QED
  BY <1>1, <1>2, <1>3, <1>4, <1>5 DEF IInv

LEMMA NextIInv == IInv /\ [Next]_vars => IInv'
BY TypeStep, WaitGroupStep, HashStep, CountStep, AnswerStep, WatchStep, ReceiptStep DEF IInv

\* Every reachable state of a Send call satisfies the inductive invariant.
THEOREM Invariance == Spec => []IInv
BY InitIInv, NextIInv, PTL DEF Spec

\* The type invariant of Send, its goroutines and SendState, for any number of
\* attempts.
THEOREM TypeCorrect == Spec => []TypeOK
BY Invariance, PTL DEF IInv

\* No sendTxAsync goroutine is running when Send has returned: the WaitGroup
\* holds exactly the running goroutines and Send waits until it is empty.
THEOREM Joined == Spec => []NothingOutlivesSend
<1>1. IInv => NothingOutlivesSend
  BY DEF IInv, TypeOK, WaitGroupInv, NothingOutlivesSend
<1> QED
  BY <1>1, Invariance, PTL

\* A returned receipt had its confirmations, and is on the chain unless a reorg
\* followed its reading, for every NumConfirmations.
THEOREM Confirmation == Spec => []ReturnedReceiptConfirmed
<1>1. IInv => ReturnedReceiptConfirmed
  <2> SUFFICES ASSUME IInv, answer.tx \in Hashes
               PROVE  answer \in Receipts
    BY DEF IInv, ReceiptInv, Sound, Confirmed, ReturnedReceiptConfirmed
  <2> QED
    BY TxManagerAssumption DEF IInv, TypeOK, NoReceipt, ErrorAnswer
<1> QED
  BY <1>1, Invariance, PTL

\* Whenever the ticker holds resubmission back, somebody is still watching the
\* mined transaction or Send is on its way out.
THEOREM Watched == Spec => []MinedIsWatched
BY Invariance, PTL DEF IInv

\* Send aborts over the nonce only after SafeAbortNonceTooLowCount answers.
THEOREM AbortThreshold == Spec => []AbortJustified
<1>1. IInv => AbortJustified
  BY DEF IInv, CountInv
<1> QED
  BY <1>1, Invariance, PTL

-----------------------------------------------------------------------------
(* Refinement *)

LEMMA ContractInit == Init => Contract!Init
BY DEF Init, NoReceipt, Contract!Init

\* A step publishes, settles, returns, or leaves the contract's view alone.
LEMMA ContractStep == IInv /\ [Next]_vars => [Contract!Next]_(Contract!vars)
<1> SUFFICES ASSUME IInv, [Next]_vars PROVE [Contract!Next]_(Contract!vars)
  OBVIOUS
<1> USE DEF Contract!vars
<1>1. CASE \E a \in Attempts : SendTx(a)
  <2> PICK a \in Attempts : SendTx(a)
    BY <1>1
  <2>1. send # "returned"
    BY DEF SendTx, IInv, WaitGroupInv, Running
  <2>2. hash[a] \in Hashes
    BY DEF SendTx, IInv, HashInv, Running
  <2>3. published' = published \/ published' = published \cup {hash[a]}
    BY DEF SendTx
  <2>4. UNCHANGED <<send, answer>>
    BY DEF SendTx, sendVars
  <2> QED
    BY <2>1, <2>2, <2>3, <2>4 DEF Contract!Next, Contract!Publish
<1>2. CASE ReturnError
  BY <1>2 DEF ReturnError, IInv, AnswerInv, NoReceipt, ErrorAnswer,
     Contract!Next, Contract!Settle
<1>3. CASE ReturnReceipt
  <2>1. PICK r \in receiptChan : answer' = r
    BY <1>3 DEF ReturnReceipt
  <2>2. r.tx \in published /\ answer = NoReceipt
    BY <1>3 DEF ReturnReceipt, IInv, ReceiptInv, Sound, AnswerInv
  <2> QED
    BY <1>3, <2>1, <2>2 DEF ReturnReceipt, NoReceipt, Contract!Next, Contract!Settle
<1>4. CASE DeferredWait
  <2>1. answer # NoReceipt
    BY <1>4 DEF DeferredWait, IInv, AnswerInv
  <2>2. answer.tx # None
    BY <2>1, TxManagerAssumption DEF IInv, TypeOK, Receipts, NoReceipt, ErrorAnswer
  <2> QED
    BY <1>4, <2>2 DEF DeferredWait, Contract!Next, Contract!Return
<1>5. CASE DeferredCancel
  BY <1>5 DEF DeferredCancel
<1>6. CASE \/ Chain \/ CallerCancels \/ UNCHANGED vars
           \/ \E a \in Attempts : Resubmit(a)
  BY <1>6 DEF Chain, Mine, MineEmpty, Reorg, CallerCancels, Resubmit, vars, sendVars
<1>7. CASE \E a \in Attempts : SendTxAsync(a) /\ ~SendTx(a)
  BY <1>7 DEF SendTxAsync, sendVars, UpdateGasPrice, UpdateGasPriceCanceled,
     UpdateGasPriceFails, HandleSendResult, CheckAbort, Abort, ReceiptFound,
     ReceiptAbsent, ReceiptFails, MarkMined, MarkNotMined, TipConfirms,
     TipDoesNotConfirm, SelectDone, SelectTick, PushReceipt
<1> QED
  BY <1>1, <1>2, <1>3, <1>4, <1>5, <1>6, <1>7 DEF Next, Send

\* Send implements SendContract: one standing outcome, taken from what was
\* published, and no publication after the return.
THEOREM Refinement == Spec => ImplementsContract
<1>1. Spec => Contract!Init /\ [][Contract!Next]_(Contract!vars)
  BY ContractInit, ContractStep, Invariance, PTL DEF Spec
<1> QED
  BY <1>1 DEF ImplementsContract, Contract!Spec

=============================================================================
