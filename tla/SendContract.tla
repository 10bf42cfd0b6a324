---------------------------- MODULE SendContract ----------------------------
(***************************************************************************)
(* What a caller of TxManager.Send may rely on, without goroutines,        *)
(* tickers, channels or polling: transactions reach the pool while the     *)
(* call is open, the call settles on one outcome that then stands, and     *)
(* closes only with an outcome.                                            *)
(***************************************************************************)
CONSTANTS
    Txs,    \* the transactions the call may publish
    Failed, \* the outcome of a call that returns an error
    None    \* no outcome yet

VARIABLES
    pool,     \* the transactions published so far
    open,     \* the call has not returned
    outcome   \* None, Failed or the transaction of the receipt

vars == <<pool, open, outcome>>

Init ==
    /\ pool = {}
    /\ open = TRUE
    /\ outcome = None

Publish ==
    /\ open
    /\ \E tx \in Txs : pool' = pool \cup {tx}
    /\ UNCHANGED <<open, outcome>>

Settle ==
    /\ open
    /\ outcome = None
    /\ outcome' \in pool \cup {Failed}
    /\ UNCHANGED <<pool, open>>

Return ==
    /\ open
    /\ outcome # None
    /\ open' = FALSE
    /\ UNCHANGED <<pool, outcome>>

Next == Publish \/ Settle \/ Return

Spec == Init /\ [][Next]_vars

=============================================================================
