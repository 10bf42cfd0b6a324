------------------------------- MODULE AttackTx -------------------------------
(***************************************************************************)
(* The table attack_tx (database/worker/attack_tx.go) and the calls that   *)
(* change it, each one SQL statement.  The serializer "bytes" stores a     *)
(* hash as a hex string; QueryAttackTxByHash compares with that string and *)
(* every other call that takes a hash or an address with its raw bytes.    *)
(*                                                                         *)
(* Nothing under src/ but the tests of the replayer calls it, so a caller  *)
(* may make any call.                                                      *)
(***************************************************************************)
EXTENDS Naturals, FiniteSets, FiniteSetsExt

CONSTANTS
    Guids,        \* bound: the row identifiers that uuid.New gives
    TxHashes,     \* transaction hashes
    Blocks,       \* block numbers of the transactions, NoBlock among them
    NoBlock,      \* the nil *big.Int
    Messages,     \* error messages, "" among them
    MaxClock      \* bound: the number of times rows are stored

\* A message may be empty.
ASSUME MessagesAssumption == "" \in Messages
ASSUME MaxClockAssumption == MaxClock \in Nat

VARIABLE table    \* rows, which of their guids were given out, the clock, the last call

StatusPending == 0
StatusProcessing == 1
StatusSuccess == 2
StatusFailed == 3
StatusSkipped == 4
Statuses == StatusPending..StatusSkipped

Hex(hash) == <<"hex", hash>>      \* the bytes serializer, and Hash.String
Bytes(hash) == <<"bytes", hash>>  \* Hash.Bytes

TableInit ==
    table = [rows |-> <<>>, guids |-> {}, clock |-> 0, call |-> [by |-> "none"]]

CreateAttackTxFromRPC(txHash, block) ==
    [txHash |-> Hex(txHash), block |-> block, status |-> StatusPending, message |-> "",
     created |-> table.clock]

\* Without a block number.
BatchCreateAttackTxFromHashes(txHashes) ==
    {CreateAttackTxFromRPC(h, NoBlock) : h \in txHashes}

\* What it accepts of a block number is more than what the table does.
ValidateAttackTx(tx) == tx.block # NoBlock

\* The constraints of the table: a block number that is positive.
Insertable(tx) == tx.block # NoBlock /\ tx.block # 0

Called(rows, call) ==
    table' = [table EXCEPT !.rows = rows, !.call = call]

\* One insert: all of the rows or none.  Rows with a hash that is there already
\* are stored again.
StoreAttackTx(txs) ==
    /\ table.clock < MaxClock
    /\ Cardinality(Guids \ table.guids) >= Cardinality(txs)
    /\ LET call == [by |-> "store"]
       IN  IF txs # {} /\ \A tx \in txs : Insertable(tx)
           THEN \E guid \in [txs -> Guids \ table.guids] :
                   /\ \A t, u \in txs : guid[t] = guid[u] => t = u
                   /\ table' = [rows |-> [g \in {guid[t] : t \in txs} \cup DOMAIN table.rows |->
                                             IF g \in DOMAIN table.rows THEN table.rows[g]
                                             ELSE CHOOSE t \in txs : guid[t] = g],
                                guids |-> table.guids \cup {guid[t] : t \in txs},
                                clock |-> table.clock + 1, call |-> call]
           ELSE Called(table.rows, call)

StoreFromRPC ==
    \E hashes \in SUBSET TxHashes, block \in Blocks :
        LET txs == {CreateAttackTxFromRPC(h, block) : h \in hashes}
        IN  (\A tx \in txs : ValidateAttackTx(tx)) /\ StoreAttackTx(txs)

StoreFromHashes ==
    \E hashes \in SUBSET TxHashes : StoreAttackTx(BatchCreateAttackTxFromHashes(hashes))

\* The rows with the updates applied to those of the guids.
Updates(guids, status, message) ==
    [g \in DOMAIN table.rows |->
        LET row == table.rows[g]
        IN  IF g \notin guids THEN row
            ELSE [row EXCEPT !.status = status,
                             !.message = IF message = "" THEN @ ELSE message]]

\* Bug form: the message is written whatever it is.
UpdateAttackTxStatusClears(guid, status, message) ==
    Called([g \in DOMAIN table.rows |->
               IF g # guid THEN table.rows[g]
               ELSE [table.rows[g] EXCEPT !.status = status, !.message = message]],
           [by |-> "guid", guids |-> {guid}])

\* Any status follows any other; an empty message leaves the one that is there.
UpdateAttackTxStatus(guid, status, message) ==
    Called(Updates({guid}, status, message), [by |-> "guid", guids |-> {guid}])

MarkAsProcessing(guid) == UpdateAttackTxStatus(guid, StatusProcessing, "")
MarkAsSuccess(guid) == UpdateAttackTxStatus(guid, StatusSuccess, "")
MarkAsFailed(guid, message) == UpdateAttackTxStatus(guid, StatusFailed, message)
MarkAsSkipped(guid, reason) == UpdateAttackTxStatus(guid, StatusSkipped, reason)

BatchUpdateStatus(guids, status) ==
    Called(Updates(guids, status, ""), [by |-> "guid", guids |-> guids])

HaveHash(hashes) == {g \in DOMAIN table.rows : table.rows[g].txHash \in {Bytes(h) : h \in hashes}}

\* UpdateAttackTxByHash, the marks by hash and BatchUpdateByHashes.
UpdateAttackTxByHash(hashes, status, message) ==
    Called(Updates(HaveHash(hashes), status, message),
           [by |-> "hash", hashes |-> hashes, deletes |-> FALSE])

Without(guids) == [g \in DOMAIN table.rows \ guids |-> table.rows[g]]

DeleteAttackTx(guid) == Called(Without({guid}), [by |-> "guid", guids |-> {guid}])

DeleteAttackTxByHash(hash) ==
    Called(Without(HaveHash({hash})), [by |-> "hash", hashes |-> {hash}, deletes |-> TRUE])

CleanupOldRecords(olderThan) ==
    Called(Without({g \in DOMAIN table.rows : table.rows[g].created < olderThan}),
           [by |-> "age", olderThan |-> olderThan])

ByGUID ==
    \E g \in Guids :
        \/ MarkAsProcessing(g) \/ MarkAsSuccess(g) \/ DeleteAttackTx(g)
        \/ UpdateAttackTxStatus(g, StatusPending, "")
        \/ \E message \in Messages : MarkAsFailed(g, message) \/ MarkAsSkipped(g, message)

ByHash ==
    \E h \in TxHashes :
        \/ DeleteAttackTxByHash(h)
        \/ \E status \in {StatusProcessing, StatusSuccess} : UpdateAttackTxByHash({h}, status, "")
        \/ \E message \in Messages : UpdateAttackTxByHash({h}, StatusFailed, message)

InBatches ==
    \E status \in Statuses :
        \/ \E guids \in SUBSET Guids : BatchUpdateStatus(guids, status)
        \/ \E hashes \in SUBSET TxHashes : UpdateAttackTxByHash(hashes, status, "")

Cleanup == \E olderThan \in 0..MaxClock : CleanupOldRecords(olderThan)

TableNext == StoreFromRPC \/ StoreFromHashes \/ ByGUID \/ ByHash \/ InBatches \/ Cleanup

TableSpec == TableInit /\ [][TableNext]_table

-----------------------------------------------------------------------------
(* Properties. *)

TableTypeOK ==
    /\ DOMAIN table.rows \subseteq table.guids /\ table.guids \subseteq Guids
    /\ table.clock \in 0..MaxClock
    /\ \A g \in DOMAIN table.rows :
          /\ table.rows[g].txHash \in {Hex(h) : h \in TxHashes}
          /\ table.rows[g].block \in Blocks \ {NoBlock, 0}
          /\ table.rows[g].status \in Statuses /\ table.rows[g].message \in Messages
          /\ table.rows[g].created \in 0..MaxClock

Names(call, g) ==
    \/ call.by = "guid" /\ g \in call.guids
    \/ call.by = "hash" /\ table.rows[g].txHash \in {Hex(h) : h \in call.hashes}

\* A row changes or goes only by a call that names its guid or its hash, or goes
\* by its age; the other rows, those that were stored for the same hash among
\* them, stay as they are (attack_tx.go:358-429).  And whatever status a row gets
\* afterwards, it keeps the message of a failure, or a later one
\* (attack_tx.go:365-375).
CallsReachTheirRows ==
    [][\A g \in DOMAIN table.rows :
         LET call == table'.call
         IN  IF g \in DOMAIN table'.rows
             THEN table'.rows[g] # table.rows[g] =>
                    /\ Names(call, g)
                    /\ table.rows[g].message # "" => table'.rows[g].message # ""
             ELSE Names(call, g) \/ (call.by = "age" /\ table.rows[g].created < call.olderThan)]_table

\* What attack_tx.go:392 says of DeleteAttackTxByHash: it deletes "by transaction
\* hash".  So no row that was stored for that hash is left.
HashDeletesRows ==
    [][\A g \in DOMAIN table.rows :
         LET call == table'.call
         IN  call.by = "hash" /\ call.deletes /\ Names(call, g)
                => g \notin DOMAIN table'.rows]_table
=============================================================================
