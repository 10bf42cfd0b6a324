----------------------------- MODULE SendState -----------------------------
(***************************************************************************)
(* The state shared by the publishing goroutines of one Send call:         *)
(* txmgr/send_state.go.  Every method takes the struct's RWMutex for its   *)
(* whole body, so each method is one atomic action (or, for the two        *)
(* read-only methods, one state predicate).                                *)
(***************************************************************************)
EXTENDS Naturals

CONSTANTS
    Hashes,                     \* transaction hashes updateGasPrice may yield
    SafeAbortNonceTooLowCount   \* Config.SafeAbortNonceTooLowCount

\* NewSendState panics on zero.
ASSUME SafeAbortAssumption == SafeAbortNonceTooLowCount \in Nat \ {0}

VARIABLES
    minedTxs,           \* map[common.Hash]struct{}: the hashes last seen mined
    nonceTooLowCount    \* uint64: "nonce too low" answers since the last reset

sendStateVars == <<minedTxs, nonceTooLowCount>>

\* What sendTx may answer: success, core.ErrNonceTooLow, "context canceled"
\* or any other error.
SendErrors == {"nil", "nonceTooLow", "canceled", "other"}

NewSendState ==
    /\ minedTxs = {}
    /\ nonceTooLowCount = 0

\* Bug form: every failed send counts against the nonce.
ProcessSendErrorCountsAll(err) ==
    /\ nonceTooLowCount' = IF err = "nil" THEN nonceTooLowCount ELSE nonceTooLowCount + 1
    /\ UNCHANGED minedTxs

ProcessSendError(err) ==
    /\ nonceTooLowCount' =
          IF err = "nonceTooLow" THEN nonceTooLowCount + 1 ELSE nonceTooLowCount
    /\ UNCHANGED minedTxs

TxMined(h) ==
    /\ minedTxs' = minedTxs \cup {h}
    /\ UNCHANGED nonceTooLowCount

\* Bug form: the count goes down by one instead of starting over.
TxNotMinedDecrements(h) ==
    /\ minedTxs' = minedTxs \ {h}
    /\ nonceTooLowCount' =
          IF h \in minedTxs /\ minedTxs \ {h} = {} THEN nonceTooLowCount - 1 ELSE nonceTooLowCount

\* A hash that leaves the mined set last forgets the "nonce too low" answers,
\* which the reorged transaction itself may have caused.
TxNotMined(h) ==
    /\ minedTxs' = minedTxs \ {h}
    /\ nonceTooLowCount' =
          IF h \in minedTxs /\ minedTxs \ {h} = {} THEN 0 ELSE nonceTooLowCount

ShouldAbortImmediately ==
    /\ minedTxs = {}
    /\ nonceTooLowCount >= SafeAbortNonceTooLowCount

IsWaitingForConfirmation == minedTxs # {}

=============================================================================
