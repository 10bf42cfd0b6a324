---------------------------- MODULE AttackTxProofs ----------------------------
(***************************************************************************)
(* The table attack_tx for any number of rows, hashes and calls: its types *)
(* and that a call reaches only the rows it names.                         *)
(***************************************************************************)
EXTENDS AttackTx, TLAPS

Row == [txHash : {Hex(h) : h \in TxHashes}, block : Blocks \ {NoBlock, 0}, status : Statuses,
        message : Messages, created : 0..MaxClock]

\* The table is a record, each row one of Row, and no row has the hash that the
\* calls by hash look for.
IInv ==
    /\ table = [rows |-> table.rows, guids |-> table.guids, clock |-> table.clock,
                call |-> table.call]
    /\ table.rows \in [DOMAIN table.rows -> Row]
    /\ TableTypeOK

-----------------------------------------------------------------------------
(* What the calls do to the rows *)

LEMMA HashReachesNone ==
    ASSUME IInv, NEW hashes
    PROVE  HaveHash(hashes) = {}
<1>1. \A h, k : Hex(h) # Bytes(k)
    BY DEF Hex, Bytes
<1> QED
    BY <1>1 DEF HaveHash, IInv, Row

\* A call that leaves the guids alone and gives some rows.
LEMMA CalledTable ==
    ASSUME IInv, NEW rows, NEW call, Called(rows, call)
    PROVE  /\ table' = [rows |-> rows, guids |-> table.guids, clock |-> table.clock,
                        call |-> call]
           /\ table'.rows = rows /\ table'.call = call
           /\ table'.guids = table.guids /\ table'.clock = table.clock
<1>1. table = [rows |-> table.rows, guids |-> table.guids, clock |-> table.clock,
               call |-> table.call]
    BY DEF IInv
<1> QED
    BY <1>1 DEF Called

LEMMA UpdatesRows ==
    ASSUME IInv, NEW guids, NEW status \in Statuses, NEW message \in Messages
    PROVE  LET rows == Updates(guids, status, message)
           IN  /\ DOMAIN rows = DOMAIN table.rows
               /\ rows \in [DOMAIN rows -> Row]
               /\ \A g \in DOMAIN table.rows :
                     /\ g \notin guids => rows[g] = table.rows[g]
                     /\ table.rows[g].message # "" => rows[g].message # ""
                     /\ rows[g].created = table.rows[g].created
                     /\ rows[g].block = table.rows[g].block
<1> DEFINE rows == Updates(guids, status, message)
<1>1. DOMAIN rows = DOMAIN table.rows
    BY DEF Updates
<1>2. ASSUME NEW g \in DOMAIN table.rows
      PROVE  /\ rows[g] \in Row
             /\ g \notin guids => rows[g] = table.rows[g]
             /\ table.rows[g].message # "" => rows[g].message # ""
             /\ rows[g].created = table.rows[g].created
             /\ rows[g].block = table.rows[g].block
    <2>1. table.rows[g] \in Row
        BY <1>2 DEF IInv
    <2>2. CASE g \in guids
        <3>1. rows[g] = [table.rows[g] EXCEPT !.status = status,
                             !.message = IF message = "" THEN @ ELSE message]
            BY <1>2, <2>2 DEF Updates
        <3> QED
            BY <2>1, <2>2, <3>1 DEF Row
    <2>3. CASE g \notin guids
        BY <1>2, <2>1, <2>3 DEF Updates
    <2> QED
        BY <2>2, <2>3
<1>3. rows = [g \in DOMAIN rows |-> rows[g]]
    BY DEF Updates
<1> QED
    BY <1>1, <1>2, <1>3

LEMMA WithoutRows ==
    ASSUME IInv, NEW guids
    PROVE  /\ DOMAIN Without(guids) = DOMAIN table.rows \ guids
           /\ Without(guids) \in [DOMAIN Without(guids) -> Row]
           /\ \A g \in DOMAIN table.rows \ guids : Without(guids)[g] = table.rows[g]
<1>1. \A g \in DOMAIN table.rows : table.rows[g] \in Row
    BY DEF IInv
<1> QED
    BY <1>1 DEF Without

-----------------------------------------------------------------------------
(* The calls *)

\* What CallsReachTheirRows says of one step.
Reached ==
    \A g \in DOMAIN table.rows :
        LET call == table'.call
        IN  IF g \in DOMAIN table'.rows
            THEN table'.rows[g] # table.rows[g] =>
                   /\ Names(call, g)
                   /\ table.rows[g].message # "" => table'.rows[g].message # ""
            ELSE Names(call, g) \/ (call.by = "age" /\ table.rows[g].created < call.olderThan)

\* Rows of the table's guids that keep blocks, types and all.
LEMMA CalledKeeps ==
    ASSUME IInv, NEW rows, NEW call, Called(rows, call),
           DOMAIN rows \subseteq DOMAIN table.rows, rows \in [DOMAIN rows -> Row]
    PROVE  IInv'
<1>1. /\ table' = [rows |-> rows, guids |-> table.guids, clock |-> table.clock,
                   call |-> call]
      /\ table'.rows = rows /\ table'.call = call
      /\ table'.guids = table.guids /\ table'.clock = table.clock
    BY CalledTable
<1>2. TableTypeOK'
    <2>1. \A g \in DOMAIN rows : rows[g] \in Row
        OBVIOUS
    <2> QED
        BY <1>1, <2>1 DEF IInv, TableTypeOK, Row
<1> QED
    BY <1>1, <1>2 DEF IInv

LEMMA UpdateStep ==
    ASSUME IInv, NEW guids, NEW status \in Statuses, NEW message \in Messages,
           Called(Updates(guids, status, message), [by |-> "guid", guids |-> guids])
    PROVE  IInv' /\ Reached
<1> DEFINE rows == Updates(guids, status, message)
           call == [by |-> "guid", guids |-> guids]
<1>1. /\ DOMAIN rows = DOMAIN table.rows
      /\ rows \in [DOMAIN rows -> Row]
      /\ \A g \in DOMAIN table.rows :
            /\ g \notin guids => rows[g] = table.rows[g]
            /\ table.rows[g].message # "" => rows[g].message # ""
    BY UpdatesRows
<1>2. Called(rows, call)
    OBVIOUS
<1>3. table'.rows = rows /\ table'.call = call
    BY <1>2, CalledTable
<1>4. call.by = "guid" /\ call.guids = guids
    OBVIOUS
<1> HIDE DEF rows, call
<1>5. IInv'
    BY <1>1, <1>2, CalledKeeps
<1>6. Reached
    BY <1>1, <1>3, <1>4 DEF Reached, Names
<1> QED
    BY <1>5, <1>6

LEMMA HashUpdateStep ==
    ASSUME IInv, NEW hashes, NEW status \in Statuses, NEW message \in Messages,
           UpdateAttackTxByHash(hashes, status, message)
    PROVE  IInv' /\ Reached
<1> DEFINE rows == Updates(HaveHash(hashes), status, message)
           call == [by |-> "hash", hashes |-> hashes, deletes |-> FALSE]
<1>1. HaveHash(hashes) = {}
    BY HashReachesNone
<1>2. /\ DOMAIN rows = DOMAIN table.rows
      /\ rows \in [DOMAIN rows -> Row]
      /\ \A g \in DOMAIN table.rows : g \notin HaveHash(hashes) => rows[g] = table.rows[g]
    BY UpdatesRows
<1>3. Called(rows, call)
    BY DEF UpdateAttackTxByHash
<1>4. table'.rows = rows /\ table'.call = call
    BY <1>3, CalledTable
<1> HIDE DEF rows
<1>5. IInv'
    BY <1>2, <1>3, CalledKeeps
<1>6. Reached
    BY <1>1, <1>2, <1>4 DEF Reached
<1> QED
    BY <1>5, <1>6

LEMMA DeleteStep ==
    ASSUME IInv, NEW guids, NEW call, Called(Without(guids), call),
           \A g \in guids \cap DOMAIN table.rows :
               \/ call.by = "guid" /\ g \in call.guids
               \/ call.by = "age" /\ table.rows[g].created < call.olderThan
    PROVE  IInv' /\ Reached
<1> DEFINE rows == Without(guids)
<1>1. /\ DOMAIN rows = DOMAIN table.rows \ guids
      /\ rows \in [DOMAIN rows -> Row]
      /\ \A g \in DOMAIN table.rows \ guids : rows[g] = table.rows[g]
    BY WithoutRows
<1>2. table'.rows = rows /\ table'.call = call
    BY CalledTable
<1> HIDE DEF rows
<1>3. IInv'
    BY <1>1, CalledKeeps DEF rows
<1>4. Reached
    BY <1>1, <1>2 DEF Reached, Names
<1> QED
    BY <1>3, <1>4

\* A store that fails changes no row; one that succeeds adds rows under guids
\* that no row has.
LEMMA StoreStep ==
    ASSUME IInv, NEW txs, StoreAttackTx(txs),
           \A tx \in txs : Insertable(tx) => tx \in Row
    PROVE  IInv' /\ Reached
<1>1. CASE Called(table.rows, [by |-> "store"])
    <2>1. table'.rows = table.rows
        BY <1>1, CalledTable
    <2>2. IInv'
        BY <1>1, CalledKeeps DEF IInv
    <2> QED
        BY <2>1, <2>2 DEF Reached
<1>2. ASSUME NEW guid \in [txs -> Guids \ table.guids],
             table.clock < MaxClock, \A tx \in txs : Insertable(tx),
             NEW rows,
             rows = [g \in {guid[t] : t \in txs} \cup DOMAIN table.rows |->
                        IF g \in DOMAIN table.rows THEN table.rows[g]
                        ELSE CHOOSE t \in txs : guid[t] = g],
             table' = [rows |-> rows, guids |-> table.guids \cup {guid[t] : t \in txs},
                       clock |-> table.clock + 1, call |-> [by |-> "store"]]
      PROVE  IInv' /\ Reached
    <2> DEFINE given == {guid[t] : t \in txs}
    <2>1. /\ table'.rows = rows
          /\ table'.guids = table.guids \cup given
          /\ table'.clock = table.clock + 1
          /\ table'.call = [by |-> "store"]
        BY <1>2
    <2>2. given \subseteq Guids
        BY <1>2
    <2>3. /\ DOMAIN rows = given \cup DOMAIN table.rows
          /\ \A g \in DOMAIN table.rows : rows[g] = table.rows[g]
          /\ \A g \in given \ DOMAIN table.rows : rows[g] \in txs
        BY <1>2
    <2>4. \A g \in DOMAIN rows : rows[g] \in Row
        BY <1>2, <2>3 DEF IInv
    <2>5. rows \in [DOMAIN rows -> Row]
        BY <1>2, <2>4
    <2>6. table.clock + 1 \in 0..MaxClock
        <3>1. table.clock \in 0..MaxClock
            BY DEF IInv, TableTypeOK
        <3>2. \A n \in 0..MaxClock : n < MaxClock => n + 1 \in 0..MaxClock
            BY MaxClockAssumption
        <3>3. table.clock < MaxClock
            BY <1>2
        <3> QED
            BY <3>1, <3>2, <3>3
    <2>7. IInv'
        <3>1. TableTypeOK'
            BY <2>1, <2>2, <2>3, <2>4, <2>6 DEF IInv, TableTypeOK, Row
        <3> QED
            BY <1>2, <2>1, <2>5, <3>1 DEF IInv
    <2>8. Reached
        BY <2>1, <2>3 DEF Reached
    <2> QED
        BY <2>7, <2>8
<1>3. Called(table.rows, [by |-> "store"])
        \/ \E guid \in [txs -> Guids \ table.guids] :
          /\ table' = [rows |-> [g \in {guid[t] : t \in txs} \cup DOMAIN table.rows |->
                                    IF g \in DOMAIN table.rows THEN table.rows[g]
                                    ELSE CHOOSE t \in txs : guid[t] = g],
                       guids |-> table.guids \cup {guid[t] : t \in txs},
                       clock |-> table.clock + 1, call |-> [by |-> "store"]]
           /\ table.clock < MaxClock /\ \A tx \in txs : Insertable(tx)
    BY DEF StoreAttackTx
<1> QED
    BY <1>1, <1>2, <1>3 DEF StoreAttackTx

\* What a transaction becomes, when the table takes it, is a row.
LEMMA CreatedIsRow ==
    ASSUME IInv, NEW hash \in TxHashes, NEW block \in Blocks
    PROVE  Insertable(CreateAttackTxFromRPC(hash, block))
             => CreateAttackTxFromRPC(hash, block) \in Row
<1>1. StatusPending \in Statuses
    BY DEF StatusPending, StatusSkipped, Statuses
<1>2. table.clock \in 0..MaxClock
    BY DEF IInv, TableTypeOK
<1> QED
    BY <1>1, <1>2, MessagesAssumption DEF CreateAttackTxFromRPC, Insertable, Row

-----------------------------------------------------------------------------
(* The invariant *)

LEMMA InitIInv == TableInit => IInv
<1> SUFFICES ASSUME TableInit PROVE IInv
    OBVIOUS
<1>1. DOMAIN table.rows = {} /\ table.rows = [g \in {} |-> g]
    BY DEF TableInit
<1>2. table.guids = {} /\ table.clock = 0
    BY DEF TableInit
<1> QED
    BY <1>1, <1>2, MaxClockAssumption DEF TableInit, IInv, TableTypeOK

LEMMA NextStep == ASSUME IInv, TableNext PROVE IInv' /\ Reached
<1>1. CASE StoreFromRPC
    <2>1. PICK hashes \in SUBSET TxHashes, block \in Blocks :
            StoreAttackTx({CreateAttackTxFromRPC(h, block) : h \in hashes})
        BY <1>1 DEF StoreFromRPC
    <2> QED
        BY <2>1, CreatedIsRow, StoreStep
<1>2. CASE StoreFromHashes
    <2>1. PICK hashes \in SUBSET TxHashes :
            StoreAttackTx({CreateAttackTxFromRPC(h, NoBlock) : h \in hashes})
        BY <1>2 DEF StoreFromHashes, BatchCreateAttackTxFromHashes
    <2>2. \A h \in hashes : ~Insertable(CreateAttackTxFromRPC(h, NoBlock))
        BY DEF Insertable, CreateAttackTxFromRPC
    <2> QED
        BY <2>1, <2>2, StoreStep
<1>3. ASSUME NEW status \in Statuses, NEW message \in Messages, NEW g,
             UpdateAttackTxStatus(g, status, message)
      PROVE  IInv' /\ Reached
    BY <1>3, UpdateStep DEF UpdateAttackTxStatus
<1>4. {StatusPending, StatusProcessing, StatusSuccess, StatusFailed, StatusSkipped}
        \subseteq Statuses
    BY DEF StatusPending, StatusProcessing, StatusSuccess, StatusFailed, StatusSkipped, Statuses
<1>5. /\ "" \in Messages
      /\ {StatusPending, StatusProcessing, StatusSuccess, StatusFailed, StatusSkipped}
           \subseteq Statuses
    BY <1>4, MessagesAssumption
<1>6. CASE ByGUID
    <2>1. PICK g \in Guids :
            \/ MarkAsProcessing(g) \/ MarkAsSuccess(g) \/ DeleteAttackTx(g)
            \/ UpdateAttackTxStatus(g, StatusPending, "")
            \/ \E message \in Messages : MarkAsFailed(g, message) \/ MarkAsSkipped(g, message)
        BY <1>6 DEF ByGUID
    <2>2. CASE DeleteAttackTx(g)
        <3> DEFINE call == [by |-> "guid", guids |-> {g}]
        <3>1. Called(Without({g}), call)
            BY <2>2 DEF DeleteAttackTx
        <3>2. \A h \in {g} \cap DOMAIN table.rows : call.by = "guid" /\ h \in call.guids
            OBVIOUS
        <3> HIDE DEF call
        <3> QED
            BY <3>1, <3>2, DeleteStep
    <2>3. CASE MarkAsProcessing(g) \/ MarkAsSuccess(g) \/ UpdateAttackTxStatus(g, StatusPending, "")
        BY <1>3, <1>5, <2>3 DEF MarkAsProcessing, MarkAsSuccess
    <2>4. CASE \E message \in Messages : MarkAsFailed(g, message) \/ MarkAsSkipped(g, message)
        BY <1>3, <1>5, <2>4 DEF MarkAsFailed, MarkAsSkipped
    <2> QED
        BY <2>1, <2>2, <2>3, <2>4
<1>7. CASE ByHash
    <2>1. PICK h \in TxHashes :
            \/ DeleteAttackTxByHash(h)
            \/ \E status \in {StatusProcessing, StatusSuccess} :
                  UpdateAttackTxByHash({h}, status, "")
            \/ \E message \in Messages : UpdateAttackTxByHash({h}, StatusFailed, message)
        BY <1>7 DEF ByHash
    <2>2. CASE DeleteAttackTxByHash(h)
        <3>1. HaveHash({h}) = {}
            BY HashReachesNone
        <3> QED
            BY <2>2, <3>1, DeleteStep DEF DeleteAttackTxByHash
    <2>3. ASSUME NEW status \in Statuses, NEW message \in Messages,
                 UpdateAttackTxByHash({h}, status, message)
          PROVE  IInv' /\ Reached
        BY <2>3, HashUpdateStep
    <2> QED
        BY <1>5, <2>1, <2>2, <2>3
<1>8. CASE InBatches
    <2>1. PICK status \in Statuses :
            \/ \E guids \in SUBSET Guids : BatchUpdateStatus(guids, status)
            \/ \E hashes \in SUBSET TxHashes : UpdateAttackTxByHash(hashes, status, "")
        BY <1>8 DEF InBatches
    <2>2. ASSUME NEW guids, BatchUpdateStatus(guids, status) PROVE IInv' /\ Reached
        BY <1>5, <2>2, UpdateStep DEF BatchUpdateStatus
    <2> QED
        BY <1>5, <2>1, <2>2, HashUpdateStep
<1>9. CASE Cleanup
    <2>1. PICK olderThan \in 0..MaxClock : CleanupOldRecords(olderThan)
        BY <1>9 DEF Cleanup
    <2> DEFINE old == {g \in DOMAIN table.rows : table.rows[g].created < olderThan}
               call == [by |-> "age", olderThan |-> olderThan]
    <2>2. Called(Without(old), call)
        BY <2>1 DEF CleanupOldRecords
    <2>3. \A g \in old : call.by = "age" /\ table.rows[g].created < call.olderThan
        OBVIOUS
    <2> HIDE DEF old, call
    <2> QED
        BY <2>2, <2>3, DeleteStep
<1> QED
    BY <1>1, <1>2, <1>6, <1>7, <1>8, <1>9 DEF TableNext

\* The inductive invariant of the table holds of every behaviour.
THEOREM TableInvariance == TableSpec => []IInv
<1>1. IInv /\ [TableNext]_table => IInv'
    BY NextStep DEF IInv, TableTypeOK
<1> QED
    BY <1>1, InitIInv, PTL DEF TableSpec

\* The rows keep their types.
THEOREM TableTypes == TableSpec => []TableTypeOK
<1>1. IInv => TableTypeOK
    BY DEF IInv
<1> QED
    BY <1>1, TableInvariance, PTL

\* A call changes or removes only rows that it names or that are old enough, and
\* the message of a failure stays: for any rows, hashes, blocks and messages
\* (attack_tx.go:358-429).
THEOREM OthersKept == TableSpec => CallsReachTheirRows
<1>1. IInv /\ [TableNext]_table => [Reached]_table
    BY NextStep
<1> QED
    BY <1>1, TableInvariance, PTL DEF TableSpec, CallsReachTheirRows, Reached
=============================================================================
