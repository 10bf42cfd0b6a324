------------------------- MODULE SynchronizerProofs -------------------------
(***************************************************************************)
(* What the synchronizer keeps for any chain, however it reorganises, for  *)
(* any range of headers, and any number of crashes and failed answers.     *)
(***************************************************************************)
EXTENDS Synchronizer, SequenceTheorems, TLAPS

Headers == Blocks \cup {ZeroHeader}

\* A range starts above the header traversed last, stays within BlockStep, and
\* its headers have the numbers that were asked for.
FetchInv ==
    syncer = "fetch" =>
        /\ lastTraversed \in Blocks
        /\ NextHeight <= endHeight /\ endHeight <= Len(lastTraversed) + BlockStep
        /\ Len(lastTraversed) + Len(fetched) <= endHeight
        /\ \A i \in 1..Len(fetched) :
              fetched[i] # ZeroHeader => Len(fetched[i]) = Len(lastTraversed) + i

\* A batch starts with a block, no higher than the header traversed last.
\* The table block_headers stays empty.
BatchInv ==
    /\ blockHeaders = {}
    /\ syncer \in {"process", "parse"} => headers # <<>>
    /\ syncer = "down" => headers = <<>>
    /\ headers # <<>> =>
          /\ Head(headers) \in Blocks
          /\ lastTraversed \in Blocks => Len(Head(headers)) <= Len(lastTraversed)

\* A block that the node has answered is on the chain, or a reorg took it away.
SeenOn(b, c, gone) == b \in Blocks => b \in gone \/ IsPrefix(b, c)
Seen(b) == SeenOn(b, chain, abandoned)

SeenInv ==
    /\ \A i \in 1..Len(fetched) : Seen(fetched[i])
    /\ headers # <<>> => Seen(Head(headers))

\* The rows of this run are those of the batch, or lie below it; and none is
\* above the header traversed last.
RowsInv ==
    \A row \in rows :
        /\ row.run <= run
        /\ row.run = run /\ syncer # "down" =>
              /\ lastTraversed \in Blocks => Len(row.block) <= Len(lastTraversed)
              /\ headers # <<>> =>
                    row.block = Head(headers) \/ Len(row.block) < Len(Head(headers))

\* As long as no range was mixed, what this run stored and what it stores next
\* is on the branch of the header traversed last; and a range that is a branch
\* so far is one from its first header on.
BranchInv ==
    /\ ~mixed /\ syncer # "down" =>
          \/ /\ lastTraversed \in Blocks
             /\ \A row \in rows : row.run = run => IsPrefix(row.block, lastTraversed)
             /\ headers # <<>> => IsPrefix(Head(headers), lastTraversed)
          \/ headers = <<>> /\ \A row \in rows : row.run # run
    /\ syncer = "fetch" /\ IsBranch(fetched) =>
          \A i \in 1..Len(fetched) : fetched[1] # ZeroHeader => IsPrefix(fetched[1], fetched[i])

\* The parser of the storage that is done stored it.
ParseInv ==
    syncer = "parse" /\ parse["storage"] = "done" =>
        \E row \in rows : row.block = Head(headers) /\ row.run = run

\* What words there are, read for a block and with some blocks gone, can be put
\* into a row of that block.
Fit(ws, block, gone) ==
    \A i \in DOMAIN ws : ws[i] # ZeroHeader =>
        /\ block \in gone \/ IsPrefix(block, ws[i])
        /\ \A j \in DOMAIN ws : i < j /\ ws[j] # ZeroHeader =>
              ws[i] \in gone \/ IsPrefix(ws[i], ws[j])

\* The words read so far were read for the batch in hand, each from the node.
WordsInv ==
    words # <<>> =>
        /\ syncer = "parse" /\ parse["storage"] = "running"
        /\ Fit(words, Head(headers), abandoned)
        /\ \A i \in DOMAIN words : Seen(words[i])

IInv ==
    /\ TypeOK /\ FetchInv /\ BatchInv /\ SeenInv /\ RowsInv /\ BranchInv /\ ParseInv
    /\ WordsInv /\ OneBlockPerHeight /\ OneBranch /\ RowsMatchLabel

-----------------------------------------------------------------------------
(* Blocks and their prefixes *)

\* A prefix is a shorter block with the same marks.
LEMMA PrefixMarks ==
    ASSUME NEW a \in Blocks, NEW b \in Blocks
    PROVE  IsPrefix(a, b) <=> Len(a) <= Len(b) /\ \A i \in 1..Len(a) : a[i] = b[i]
<1>1. SubSeq(a, 1, Len(a)) = a
    BY SubSeqFull DEF Blocks
<1>2. CASE Len(a) <= Len(b)
    <2> DEFINE c == SubSeq(b, 1, Len(a))
    <2>1. /\ Len(a) \in Nat /\ Len(b) \in Nat
          /\ \A i \in 1..Len(a) : b[i] \in Nat
        BY <1>2 DEF Blocks
    <2>2. c \in Seq(Nat) /\ Len(c) = Len(a) /\ \A i \in 1..Len(a) : c[i] = b[i]
        BY <2>1, SubSeqProperties
    <2> HIDE DEF c
    <2>3. a = c <=> \A i \in 1..Len(a) : a[i] = c[i]
        BY <2>2, SeqEqual DEF Blocks
    <2> QED
        BY <1>1, <1>2, <2>2, <2>3 DEF IsPrefix, c
<1>3. CASE ~(Len(a) <= Len(b))
    BY <1>3 DEF IsPrefix
<1> QED
    BY <1>2, <1>3

\* The block that a block has at some height.
LEMMA Cut ==
    ASSUME NEW b \in Blocks, NEW n \in 0..Len(b)
    PROVE  /\ SubSeq(b, 1, n) \in Blocks
           /\ Len(SubSeq(b, 1, n)) = n
           /\ IsPrefix(SubSeq(b, 1, n), b)
<1>1. n \in Int /\ \A i \in 1..n : b[i] \in Nat
    BY DEF Blocks
<1> DEFINE c == SubSeq(b, 1, n)
<1>2. c \in Seq(Nat) /\ Len(c) = n /\ \A i \in 1..n : c[i] = b[i]
    BY <1>1, SubSeqProperties
<1> HIDE DEF c
<1>3. IsPrefix(c, b)
    BY <1>2, PrefixMarks DEF Blocks
<1> QED
    BY <1>2, <1>3 DEF c, Blocks

\* A block on another is the one the other has at its height.
LEMMA PrefixIsCut ==
    ASSUME NEW a \in Blocks, NEW b \in Blocks, IsPrefix(a, b)
    PROVE  a = SubSeq(b, 1, Len(a)) /\ Len(a) \in 0..Len(b)
BY SubSeqFull DEF IsPrefix, Blocks

LEMMA PrefixOrder ==
    ASSUME NEW a \in Blocks, NEW b \in Blocks
    PROVE  /\ IsPrefix(a, a)
           /\ \A c \in Blocks : IsPrefix(a, b) /\ IsPrefix(b, c) => IsPrefix(a, c)
           /\ \A c \in Blocks : IsPrefix(a, c) /\ IsPrefix(b, c)
                                  => IsPrefix(a, b) \/ IsPrefix(b, a)
           /\ \A c \in Blocks : IsPrefix(a, c) /\ IsPrefix(b, c) /\ Len(a) <= Len(b)
                                  => IsPrefix(a, b)
<1>1. Len(a) \in Nat /\ Len(b) \in Nat /\ \A c \in Blocks : Len(c) \in Nat
    BY DEF Blocks
<1>2. ASSUME NEW c \in Blocks, IsPrefix(a, b), IsPrefix(b, c) PROVE IsPrefix(a, c)
    BY <1>1, <1>2, PrefixMarks
<1>3. ASSUME NEW c \in Blocks, IsPrefix(a, c), IsPrefix(b, c), Len(a) <= Len(b)
      PROVE  IsPrefix(a, b)
    BY <1>1, <1>3, PrefixMarks
<1>4. ASSUME NEW c \in Blocks, IsPrefix(a, c), IsPrefix(b, c), Len(b) <= Len(a)
      PROVE  IsPrefix(b, a)
    BY <1>1, <1>4, PrefixMarks
<1>5. IsPrefix(a, a)
    BY <1>1, PrefixMarks
<1> QED
    BY <1>1, <1>2, <1>3, <1>4, <1>5

\* Mining extends the chain.
LEMMA Mined ==
    ASSUME NEW a \in Blocks, NEW n \in Nat
    PROVE  Append(a, n) \in Blocks /\ IsPrefix(a, Append(a, n))
<1>1. /\ Append(a, n) \in Blocks /\ Len(Append(a, n)) = Len(a) + 1 /\ Len(a) \in Nat
      /\ \A i \in 1..Len(a) : Append(a, n)[i] = a[i]
    BY AppendProperties DEF Blocks
<1> DEFINE b == Append(a, n)
<1> HIDE DEF b
<1>2. b \in Blocks /\ Len(a) <= Len(b) /\ \A i \in 1..Len(a) : a[i] = b[i]
    BY <1>1 DEF b
<1>3. IsPrefix(a, b)
    BY <1>2, PrefixMarks
<1> QED
    BY <1>2, <1>3 DEF b

\* A header extends its parent.
LEMMA Parent ==
    ASSUME NEW h \in Blocks, Len(h) > 0
    PROVE  Front(h) \in Blocks /\ Len(Front(h)) = Len(h) - 1 /\ IsPrefix(Front(h), h)
<1>1. Len(h) - 1 \in 0..Len(h)
    BY DEF Blocks
<1> QED
    BY <1>1, Cut DEF Front
-----------------------------------------------------------------------------
(* Types *)

\* What a process that goes down leaves.
LEMMA DownTypes ==
    ASSUME TypeOK, GoDown, UNCHANGED <<chainVars, tableVars, run, mixed>>, faults' \in Nat
    PROVE  TypeOK'
<1> USE SynchronizerAssumption
<1>1. fetched' \in Seq(Headers) /\ headers' \in Seq(Headers) /\ words' \in Seq(Headers)
    BY EmptySeq DEF GoDown
<1>2. Len(fetched') <= BlockStep /\ Len(headers') <= BlockStep /\ Len(words') <= StorageReads
    BY EmptySeq DEF GoDown
<1>3. parse' \in [Parsers -> {"running", "done", "failed"}]
    BY DEF GoDown
<1> QED
    BY <1>1, <1>2, <1>3 DEF TypeOK, GoDown, chainVars, tableVars, Headers, Words

\* The end of a range is above what was traversed, and within BlockStep.
LEMMA ClampBounds ==
    ASSUME NEW s \in Nat, NEW e \in Nat, s <= e
    PROVE  /\ Clamp(s, e, BlockStep) \in Nat
           /\ s <= Clamp(s, e, BlockStep) /\ Clamp(s, e, BlockStep) <= e
           /\ Clamp(s, e, BlockStep) <= s - 1 + BlockStep
BY SynchronizerAssumption DEF Clamp

\* A nil header and one without a number are no blocks.
LEMMA NoBlocks == NoHeader \notin Blocks /\ ZeroHeader \notin Blocks /\ NoHeader # ZeroHeader
BY SynchronizerAssumption DEF Blocks

LEMMA InitIInv == Init => IInv
<1> SUFFICES ASSUME Init PROVE IInv
    OBVIOUS
<1> USE SynchronizerAssumption
<1>1. chain \in Blocks
    <2>1. \A n \in 1..StartingHeight : 0 \in Nat
        OBVIOUS
    <2>2. [n \in 1..StartingHeight |-> 0] \in Seq(Nat)
        BY <2>1, IsASeq
    <2> QED
        BY <2>2 DEF Init, Blocks
<1>2. /\ fetched \in Seq(Headers) /\ headers \in Seq(Headers) /\ words \in Seq(Headers)
      /\ Len(fetched) = 0 /\ Len(headers) = 0 /\ Len(words) = 0
    BY EmptySeq DEF Init
<1>3. TypeOK
    <2>1. /\ protected \in BOOLEAN /\ addressList \in BOOLEAN /\ mixed \in BOOLEAN
        BY DEF Init
    <2>2. parse \in [Parsers -> {"running", "done", "failed"}]
        BY DEF Init
    <2>3. /\ fetched \in Seq(Headers) /\ Len(fetched) <= BlockStep
          /\ headers \in Seq(Headers) /\ Len(headers) <= BlockStep
          /\ words \in Seq(Headers) /\ Len(words) <= StorageReads
        BY <1>2
    <2>4. /\ forks \in Nat /\ run \in Nat /\ faults \in Nat /\ endHeight \in Nat
          /\ abandoned \subseteq Blocks /\ blockHeaders \subseteq Blocks /\ rows \subseteq Rows
          /\ protectedTxs \subseteq Blocks
          /\ syncer \in {"down", "idle", "fetch", "process", "parse"}
          /\ lastTraversed \in Blocks \cup {NoHeader, ZeroHeader}
        BY DEF Init
    <2> QED
        BY <1>1, <2>1, <2>2, <2>3, <2>4 DEF TypeOK, Headers, Words
<1>4. FetchInv /\ BatchInv /\ ParseInv /\ BranchInv /\ RowsInv /\ WordsInv
    BY DEF Init, FetchInv, BatchInv, ParseInv, BranchInv, RowsInv, WordsInv
<1>5. SeenInv
    BY <1>2 DEF Init, SeenInv
<1>6. OneBlockPerHeight /\ OneBranch /\ RowsMatchLabel
    BY DEF Init, OneBlockPerHeight, OneBranch, RowsMatchLabel
<1> QED
    BY <1>3, <1>4, <1>5, <1>6 DEF IInv

\* The parser of transactions finds none, and stores none.
LEMMA ParseTxKeeps == ParseTx => UNCHANGED <<chainVars, tableVars>>
BY DEF ParseTx, TransactionsToAtBlock, chainVars, tableVars

LEMMA NextTypeOK == IInv /\ [Next]_vars => TypeOK'
<1> SUFFICES ASSUME IInv, [Next]_vars PROVE TypeOK'
    OBVIOUS
<1> USE SynchronizerAssumption
<1>0. TypeOK /\ FetchInv /\ BatchInv
    BY DEF IInv
<1>1. CASE Mine
    <2>1. chain' \in Blocks
        BY <1>0, <1>1, Mined DEF Mine, TypeOK
    <2> QED
        BY <1>0, <1>1, <2>1 DEF Mine, TypeOK, tableVars, traversalVars, batchVars
<1>2. CASE Reorg
    <2> USE <1>0, <1>2 DEF Reorg, Block
    <2>1. Len(chain) \in Nat /\ chain \in Blocks
        BY DEF TypeOK, Blocks
    <2>2. chain' \in Blocks
        BY <2>1, Cut
    <2>3. \A n \in 1..(Len(chain) - 1) : \A m \in (n + 1)..Len(chain) : Block(m) \in Blocks
        BY <2>1, Cut
    <2>4. abandoned' \subseteq Blocks
        BY <2>1, <2>3 DEF TypeOK
    <2> QED
        BY <2>2, <2>4 DEF TypeOK, tableVars, traversalVars, batchVars
<1>3. CASE ProtectAddress
    BY <1>0, <1>3 DEF ProtectAddress, TypeOK, chainVars, traversalVars, batchVars
<1>4. CASE NewSynchronizer
    <2>1. lastTraversed' \in Blocks \cup {NoHeader, ZeroHeader}
        <3>1. FromHeader = NoHeader \/ FromHeader = Block(StartingHeight)
            BY <1>0 DEF FromHeader, BatchInv
        <3>2. StartingHeight \in 0..Len(chain) /\ chain \in Blocks
            BY <1>0, <1>4 DEF NewSynchronizer, TypeOK, Blocks
        <3>3. Block(StartingHeight) \in Blocks
            BY <3>2, Cut DEF Block
        <3> QED
            BY <1>4, <3>1, <3>3 DEF NewSynchronizer
    <2>2. mixed' = FALSE /\ run' = run + 1 /\ syncer' = "idle"
        BY <1>4 DEF NewSynchronizer
    <2>3. UNCHANGED <<chain, forks, abandoned, protected, blockHeaders, protectedTxs, rows, faults,
                      endHeight, fetched, headers, addressList, parse, words>>
        BY <1>4 DEF NewSynchronizer, chainVars, tableVars, batchVars
    <2>4. mixed' \in BOOLEAN
        BY <2>2
    <2>5. run' \in Nat /\ syncer' \in {"down", "idle", "fetch", "process", "parse"}
        BY <1>0, <2>2 DEF TypeOK
    <2> QED
        BY <1>0, <2>1, <2>3, <2>4, <2>5 DEF TypeOK
<1>5. CASE Crash
    BY <1>0, <1>5, DownTypes DEF Crash, Fault, TypeOK
<1>6. CASE NextHeadersPanics
    BY <1>0, <1>6, DownTypes DEF NextHeadersPanics, TypeOK
<1>7. CASE NextHeadersAtHead
    BY <1>0, <1>7 DEF NextHeadersAtHead, ToProcessBatch, TypeOK, chainVars, tableVars,
                      traversalVars, batchVars
<1>8. CASE NextHeadersFetches
    <2>1. lastTraversed \in Blocks /\ Len(lastTraversed) \in Nat /\ Len(chain) \in Nat
        BY <1>0, <1>8 DEF NextHeadersFetches, HasLastTraversed, TypeOK, Blocks
    <2>2. NextHeight \in Nat /\ Len(chain) - BlockConfirmationDepth \in Nat
          /\ NextHeight <= Len(chain) - BlockConfirmationDepth
        BY <1>8, <2>1 DEF NextHeadersFetches, NextHeight, BlockConfirmationDepth
    <2>3. endHeight' \in Nat
        BY <1>8, <2>2, ClampBounds DEF NextHeadersFetches
    <2>4. fetched' \in Seq(Headers) /\ Len(fetched') <= BlockStep
        BY <1>8, EmptySeq DEF NextHeadersFetches
    <2> QED
        BY <1>0, <1>8, <2>3, <2>4 DEF NextHeadersFetches, TypeOK, Headers, chainVars, tableVars,
                                      batchVars
<1>9. ASSUME syncer = "fetch", FetchHeight <= endHeight, NEW h \in Headers, AnswerHeader(h),
             UNCHANGED <<chainVars, tableVars, run, syncer, lastTraversed, endHeight, mixed,
                         batchVars>>,
             faults' \in Nat
      PROVE  TypeOK'
    <2>1. fetched \in Seq(Headers) /\ Len(fetched) \in Nat
        BY <1>0 DEF TypeOK, Headers
    <2>2. Len(lastTraversed) \in Nat /\ endHeight \in Nat
        BY <1>0, <1>9 DEF FetchInv, TypeOK, Blocks
    <2>3. Len(fetched) + 1 <= BlockStep
        BY <1>0, <1>9, <2>1, <2>2 DEF FetchInv, FetchHeight, NextHeight
    <2>4. fetched' \in Seq(Headers) /\ Len(fetched') = Len(fetched) + 1
        BY <1>9, <2>1, AppendProperties DEF AnswerHeader
    <2> QED
        BY <1>0, <1>9, <2>3, <2>4 DEF TypeOK, Headers, chainVars, tableVars, batchVars
<1>10. CASE FetchHeader
    <2>1. FetchHeight \in 0..Len(chain) /\ chain \in Blocks
        BY <1>0, <1>10 DEF FetchHeader, FetchHeight, NextHeight, TypeOK, FetchInv, Blocks
    <2>2. Block(FetchHeight) \in Headers
        BY <2>1, Cut DEF Block, Headers
    <2>3. faults' \in Nat
        BY <1>0, <1>10 DEF FetchHeader, TypeOK
    <2> QED
        BY <1>9, <1>10, <2>2, <2>3 DEF FetchHeader
<1>11. CASE FetchElementFails
    <2>1. faults' \in Nat
        BY <1>0, <1>11 DEF FetchElementFails, Fault, TypeOK
    <2> QED
        BY <1>9, <1>11, <2>1 DEF FetchElementFails, Headers
<1>12. CASE FetchFails
    BY <1>0, <1>12, EmptySeq DEF FetchFails, LeaveNextHeaders, Fault, TypeOK, chainVars, tableVars,
                                 batchVars
<1>13. CASE HeadersMismatch
    BY <1>0, <1>13, EmptySeq DEF HeadersMismatch, LeaveNextHeaders, TypeOK, chainVars, tableVars,
                                 batchVars
<1>14. CASE HeadersAdvance
    <2>1. fetched \in Seq(Headers) /\ fetched # <<>>
        BY <1>0, <1>14 DEF HeadersAdvance, FetchedAll, FetchHeight, NextHeight, FetchInv, TypeOK,
                           Headers, Blocks
    <2>2. Last(fetched) \in Headers
        BY <2>1 DEF Last
    <2>3. fetched' \in Seq(Headers) /\ Len(fetched') <= BlockStep
        BY <1>14, EmptySeq DEF HeadersAdvance, Advance, LeaveNextHeaders
    <2> QED
        BY <1>0, <1>14, <2>2, <2>3 DEF HeadersAdvance, Advance, LeaveNextHeaders, TypeOK,
                Headers, chainVars, tableVars
<1>15. CASE QueryAddressListFails
    BY <1>0, <1>15 DEF QueryAddressListFails, Fault, TypeOK, chainVars, tableVars, traversalVars,
                       batchVars
<1>16. CASE StartParsers
    BY <1>0, <1>16 DEF StartParsers, TypeOK, chainVars, tableVars, traversalVars
<1>17. CASE ParseTransactions
    <2>1. CASE ParseTxPanics
        BY <1>0, <2>1, DownTypes DEF ParseTxPanics, TypeOK
    <2>2. CASE ParseTx \/ ParseTxFails
        <3>1. faults' \in Nat
            BY <1>0, <2>2 DEF ParseTx, ParseTxFails, Fault, TypeOK
        <3>2. parse' \in [Parsers -> {"running", "done", "failed"}]
            BY <1>0, <2>2 DEF ParseTx, ParseTxFails, Finish, TypeOK
        <3>3. UNCHANGED <<chain, forks, abandoned, protected, blockHeaders, protectedTxs, rows, run,
                          syncer, lastTraversed, endHeight, fetched, mixed, headers, addressList,
                          words>>
            BY <2>2, ParseTxKeeps DEF ParseTx, ParseTxFails, chainVars, tableVars, traversalVars
        <3> QED
            BY <1>0, <3>1, <3>2, <3>3 DEF TypeOK
    <2> QED
        BY <1>17, <2>1, <2>2 DEF ParseTransactions
<1>18. CASE ParseStorages
    <2>1. words \in Seq(Headers) /\ Len(words) \in Nat /\ chain \in Headers
        BY <1>0 DEF TypeOK, Headers, Words
    <2>2. words' \in Seq(Headers) /\ Len(words') <= StorageReads
        <3>1. CASE words' = <<>>
            BY <3>1, EmptySeq
        <3>2. CASE ReadWord
            <4>1. PICK w \in Headers : words' = Append(words, w)
                BY <2>1, <3>2 DEF ReadWord, Headers
            <4> QED
                BY <2>1, <3>2, <4>1, AppendProperties DEF ReadWord, Reading
        <3> QED
            BY <1>18, <3>1, <3>2 DEF ParseStorages, ParseStorage, ParseStorageFails
    <2>3. rows' \subseteq Rows
        <3>1. CASE ParseStorage
            <4>1. Head(headers) \in Blocks
                BY <1>0, <3>1 DEF ParseStorage, ReadAll, Parsing, BatchInv
            <4>2. [block |-> Head(headers), words |-> words, run |-> run] \in Rows
                BY <1>0, <4>1 DEF Rows, TypeOK
            <4> QED
                BY <1>0, <3>1, <4>2 DEF ParseStorage, TypeOK
        <3> QED
            BY <1>0, <1>18, <3>1 DEF ParseStorages, ReadWord, ParseStorageFails, tableVars, TypeOK
    <2>4. faults' \in Nat
        BY <1>0, <1>18 DEF ParseStorages, ReadWord, ParseStorage, ParseStorageFails, Fault, TypeOK
    <2>5. parse' \in [Parsers -> {"running", "done", "failed"}]
        BY <1>0, <1>18 DEF ParseStorages, ReadWord, ParseStorage, ParseStorageFails, Finish, TypeOK
    <2>6. UNCHANGED <<chain, forks, abandoned, protected, blockHeaders, protectedTxs, run, syncer,
                      lastTraversed, endHeight, fetched, mixed, headers, addressList>>
        BY <1>18 DEF ParseStorages, ReadWord, ParseStorage, ParseStorageFails, chainVars, tableVars,
                     traversalVars
    <2> QED
        BY <1>0, <2>2, <2>3, <2>4, <2>5, <2>6 DEF TypeOK, Headers, Words
<1>19. CASE BatchEnds
    <2>1. headers' \in Seq(Headers) /\ Len(headers') <= BlockStep
        BY <1>0, <1>19, EmptySeq DEF BatchEnds, TypeOK, Headers
    <2> QED
        BY <1>0, <1>19, <2>1 DEF BatchEnds, LeaveProcessBatch, TypeOK, Headers, chainVars,
                                 tableVars, traversalVars
<1>20. CASE UNCHANGED vars
    BY <1>0, <1>20 DEF vars, TypeOK
<1> QED
    BY <1>1, <1>2, <1>3, <1>4, <1>5, <1>6, <1>7, <1>8, <1>10, <1>11, <1>12, <1>13, <1>14, <1>15,
       <1>16, <1>17, <1>18, <1>19, <1>20
    DEF Next, NextHeaders
-----------------------------------------------------------------------------
(* Which action touches what *)

WhatChanges ==
    /\ ParseStorage \/ rows' = rows
    /\ NewSynchronizer \/ run' = run
    /\ NewSynchronizer \/ HeadersAdvance \/ mixed' = mixed
    /\ Mine \/ Reorg \/ UNCHANGED <<chain, abandoned>>
    /\ HeadersAdvance \/ headers' = headers \/ headers' = <<>>
    /\ NewSynchronizer \/ HeadersAdvance \/ lastTraversed' = lastTraversed \/ syncer' = "down"
    /\ FetchHeader \/ FetchElementFails \/ fetched' = fetched \/ fetched' = <<>>
    /\ syncer' = "fetch" =>
          \/ NextHeadersFetches \/ FetchHeader \/ FetchElementFails
          \/ UNCHANGED <<syncer, lastTraversed, endHeight, fetched>>
    /\ syncer' = "parse" =>
          \/ StartParsers \/ ParseTx \/ ParseTxFails \/ ParseStorages
          \/ UNCHANGED <<syncer, headers, parse, run>>
    /\ syncer' = "down" /\ syncer # "down" => headers' = <<>> /\ UNCHANGED <<rows, run, mixed>>
    /\ syncer = "down" /\ syncer' # "down" => NewSynchronizer
    /\ syncer = "down" /\ syncer' = "down" => UNCHANGED <<headers, rows, run, mixed>>
    /\ blockHeaders' = blockHeaders
    /\ \/ ReadWord \/ BatchEnds \/ words' = <<>>
       \/ /\ words' = words
          /\ syncer = "parse" =>
                UNCHANGED <<syncer, headers>> /\ (ParseTx \/ ParseTxFails \/ parse' = parse)

LEMMA Frame == Next \/ UNCHANGED vars => WhatChanges
<1> USE DEF WhatChanges, chainVars, tableVars, batchVars, traversalVars
<1>1. Mine \/ Reorg \/ ProtectAddress => WhatChanges
    BY DEF Mine, Reorg, ProtectAddress
<1>2. NewSynchronizer => WhatChanges
    BY DEF NewSynchronizer
<1>3. Crash \/ NextHeadersPanics \/ ParseTxPanics => WhatChanges
    BY DEF Crash, NextHeadersPanics, ParseTxPanics, Parsing, GoDown
<1>4. NextHeadersAtHead => WhatChanges
    BY DEF NextHeadersAtHead, ToProcessBatch
<1>5. NextHeadersFetches => WhatChanges
    BY DEF NextHeadersFetches
<1>6. FetchHeader \/ FetchElementFails => WhatChanges
    BY DEF FetchHeader, FetchElementFails
<1>7. FetchFails \/ HeadersMismatch => WhatChanges
    BY DEF FetchFails, HeadersMismatch, FetchedAll, LeaveNextHeaders
<1>8. HeadersAdvance => WhatChanges
    BY DEF HeadersAdvance, Advance, FetchedAll, LeaveNextHeaders
<1>9. QueryAddressListFails \/ StartParsers => WhatChanges
    BY DEF QueryAddressListFails, StartParsers
<1>10. ParseTx \/ ParseTxFails => WhatChanges
    BY ParseTxKeeps DEF ParseTx, ParseTxFails, Parsing
<1>11. ParseStorages => WhatChanges
    BY DEF ParseStorages, ReadWord, Reading, ParseStorage, ParseStorageFails, ReadAll, Parsing
<1>12. BatchEnds => WhatChanges
    BY DEF BatchEnds, LeaveProcessBatch
<1>13. UNCHANGED vars => WhatChanges
    BY DEF vars
<1> QED
    BY <1>1, <1>2, <1>3, <1>4, <1>5, <1>6, <1>7, <1>8, <1>9, <1>10, <1>11, <1>12, <1>13
    DEF Next, NextHeaders, ParseTransactions
-----------------------------------------------------------------------------
(* Every step keeps every part of the invariant *)

\* What the types say of the lengths.
LEMMA Lengths ==
    ASSUME TypeOK
    PROVE  /\ chain \in Blocks /\ Len(chain) \in Nat /\ abandoned \subseteq Blocks
           /\ fetched \in Seq(Headers) /\ Len(fetched) \in Nat
           /\ headers \in Seq(Headers) /\ Len(headers) \in Nat
           /\ lastTraversed \in Blocks => Len(lastTraversed) \in Nat
           /\ endHeight \in Nat
           /\ \A b \in Blocks : Len(b) \in Nat
BY DEF TypeOK, Blocks, Headers

LEMMA NextFetchInv == IInv /\ Next /\ WhatChanges => FetchInv'
<1> SUFFICES ASSUME IInv, Next, WhatChanges, syncer' = "fetch" PROVE FetchInv'
    BY DEF FetchInv
<1>0. TypeOK /\ FetchInv
    BY DEF IInv
<1>1. CASE NextHeadersFetches
    <2>1. lastTraversed \in Blocks
        BY <1>0, <1>1 DEF NextHeadersFetches, HasLastTraversed, TypeOK
    <2>2. Len(lastTraversed) \in Nat /\ Len(chain) \in Nat
        BY <1>0, <2>1, Lengths
    <2> DEFINE e == Clamp(NextHeight, Len(chain) - BlockConfirmationDepth, BlockStep)
    <2>3. e \in Nat /\ NextHeight <= e /\ e <= NextHeight - 1 + BlockStep
        BY <1>1, <2>2, ClampBounds DEF NextHeadersFetches, NextHeight, BlockConfirmationDepth
    <2>4. lastTraversed' = lastTraversed /\ endHeight' = e /\ fetched' = <<>>
        BY <1>1 DEF NextHeadersFetches
    <2> HIDE DEF e
    <2> QED
        BY <2>1, <2>2, <2>3, <2>4, EmptySeq, SynchronizerAssumption DEF FetchInv, NextHeight
<1>2. CASE FetchHeader \/ FetchElementFails
    <2>1. PICK h \in Headers : /\ fetched' = Append(fetched, h)
                               /\ h # ZeroHeader => Len(h) = FetchHeight
        <3>1. CASE FetchHeader
            <4>1. FetchHeight \in 0..Len(chain)
                BY <1>0, <3>1, Lengths DEF FetchHeader, FetchHeight, NextHeight, FetchInv
            <4>2. Block(FetchHeight) \in Blocks /\ Len(Block(FetchHeight)) = FetchHeight
                BY <1>0, <4>1, Cut, Lengths DEF Block
            <4> QED
                BY <3>1, <4>2 DEF FetchHeader, AnswerHeader, Headers
        <3>2. CASE FetchElementFails
            BY <3>2 DEF FetchElementFails, AnswerHeader, Headers
        <3> QED
            BY <1>2, <3>1, <3>2
    <2>2. /\ syncer = "fetch" /\ FetchHeight <= endHeight
          /\ UNCHANGED <<lastTraversed, endHeight>>
        BY <1>2 DEF FetchHeader, FetchElementFails
    <2>3. /\ lastTraversed \in Blocks /\ Len(lastTraversed) \in Nat /\ Len(fetched) \in Nat
          /\ fetched \in Seq(Headers) /\ endHeight \in Nat
        BY <1>0, <2>2, Lengths DEF FetchInv
    <2>4. /\ Len(fetched') = Len(fetched) + 1 /\ fetched'[Len(fetched) + 1] = h
          /\ \A i \in 1..Len(fetched) : fetched'[i] = fetched[i]
        BY <2>1, <2>3, AppendProperties
    <2>5. \A i \in 1..Len(fetched') :
              fetched'[i] # ZeroHeader => Len(fetched'[i]) = Len(lastTraversed) + i
        <3> SUFFICES ASSUME NEW i \in 1..Len(fetched'), fetched'[i] # ZeroHeader
                     PROVE  Len(fetched'[i]) = Len(lastTraversed) + i
            OBVIOUS
        <3>1. CASE i \in 1..Len(fetched)
            BY <1>0, <2>2, <2>4, <3>1 DEF FetchInv
        <3>2. CASE i = Len(fetched) + 1
            BY <2>1, <2>3, <2>4, <3>2 DEF FetchHeight, NextHeight
        <3> QED
            BY <2>3, <2>4, <3>1, <3>2
    <2> QED
        BY <1>0, <2>2, <2>3, <2>4, <2>5 DEF FetchInv, FetchHeight, NextHeight
<1>3. CASE UNCHANGED <<syncer, lastTraversed, endHeight, fetched>>
    BY <1>0, <1>3 DEF FetchInv, NextHeight
<1> QED
    BY <1>1, <1>2, <1>3 DEF WhatChanges

\* What an advance of the traversal starts from.
LEMMA Advanced ==
    ASSUME IInv, HeadersAdvance
    PROVE  /\ headers' = fetched /\ fetched # <<>> /\ fetched \in Seq(Headers)
           /\ Head(headers') = fetched[1] /\ fetched[1] \in Blocks
           /\ lastTraversed \in Blocks /\ Front(fetched[1]) = lastTraversed
           /\ Len(fetched[1]) = Len(lastTraversed) + 1
           /\ lastTraversed' = fetched[Len(fetched)] /\ Len(fetched) \in Nat \ {0}
           /\ lastTraversed' \in Blocks =>
                 Len(lastTraversed') = Len(lastTraversed) + Len(fetched)
           /\ UNCHANGED <<rows, run, chain, abandoned>> /\ syncer = "fetch" /\ syncer' = "process"
           /\ mixed' = (mixed \/ ~IsBranch(fetched))
<1>0. TypeOK /\ FetchInv
    BY DEF IInv
<1>1. /\ headers' = fetched /\ lastTraversed' = Last(fetched) /\ Extends(fetched[1])
      /\ UNCHANGED <<rows, run, chain, abandoned>> /\ syncer = "fetch" /\ syncer' = "process"
      /\ FetchHeight > endHeight /\ mixed' = (mixed \/ ~IsBranch(fetched))
    BY DEF HeadersAdvance, Advance, FetchedAll, LeaveNextHeaders, chainVars, tableVars
<1>2. fetched \in Seq(Headers) /\ Len(fetched) \in Nat \ {0} /\ lastTraversed \in Blocks
    BY <1>0, <1>1, Lengths DEF FetchInv, FetchHeight, NextHeight
<1>3. fetched[1] \in Headers /\ fetched[Len(fetched)] \in Headers
    BY <1>2
<1>4. fetched[1] \in Blocks /\ Front(fetched[1]) = lastTraversed /\ fetched[1] # ZeroHeader
    BY <1>1, <1>3 DEF Extends, Headers
<1>5. /\ Len(fetched[1]) = Len(lastTraversed) + 1
      /\ fetched[Len(fetched)] \in Blocks =>
            Len(fetched[Len(fetched)]) = Len(lastTraversed) + Len(fetched)
    BY <1>0, <1>1, <1>2, <1>4, NoBlocks DEF FetchInv
<1> QED
    BY <1>1, <1>2, <1>4, <1>5 DEF Last

LEMMA NextBatchInv == IInv /\ Next /\ WhatChanges => BatchInv'
<1> SUFFICES ASSUME IInv, Next, WhatChanges PROVE BatchInv'
    OBVIOUS
<1>0. TypeOK /\ BatchInv
    BY DEF IInv
<1>1. blockHeaders' = {}
    BY <1>0 DEF BatchInv, WhatChanges
<1>2. syncer' = "down" => headers' = <<>>
    BY <1>0 DEF BatchInv, WhatChanges
<1>3. CASE HeadersAdvance
    <2>1. headers' # <<>> /\ Head(headers') \in Blocks /\ syncer' = "process"
        BY <1>3, Advanced
    <2>2. lastTraversed' \in Blocks => Len(Head(headers')) <= Len(lastTraversed')
        BY <1>0, <1>3, Advanced, Lengths
    <2> QED
        BY <1>1, <2>1, <2>2 DEF BatchInv
<1>4. CASE ~HeadersAdvance
    <2>1. syncer' \in {"process", "parse"} => headers' # <<>>
        <3>1. CASE NextHeadersAtHead
            BY <1>0, <3>1 DEF NextHeadersAtHead, ToProcessBatch, batchVars
        <3>2. CASE StartParsers
            BY <1>0, <3>2 DEF StartParsers, BatchInv
        <3>3. CASE ParseTransactions \/ ParseStorages
            BY <1>0, <3>3 DEF ParseTransactions, ParseTx, ParseTxFails, ParseTxPanics,
                  ParseStorages, ReadWord, Reading, ParseStorage, ParseStorageFails, ReadAll,
                  Parsing, GoDown, BatchInv
        <3>4. CASE Mine \/ Reorg \/ ProtectAddress
            BY <1>0, <3>4 DEF Mine, Reorg, ProtectAddress, batchVars, BatchInv
        <3>5. CASE NewSynchronizer \/ Crash \/ NextHeadersPanics \/ NextHeadersFetches
            BY <3>5 DEF NewSynchronizer, Crash, NextHeadersPanics, NextHeadersFetches, GoDown
        <3>6. CASE FetchHeader \/ FetchElementFails \/ FetchFails \/ HeadersMismatch
            BY <3>6 DEF FetchHeader, FetchElementFails, FetchFails, HeadersMismatch,
                        LeaveNextHeaders
        <3>7. CASE QueryAddressListFails \/ BatchEnds
            BY <3>7 DEF QueryAddressListFails, BatchEnds, LeaveProcessBatch
        <3> QED
            BY <1>4, <3>1, <3>2, <3>3, <3>4, <3>5, <3>6, <3>7 DEF Next, NextHeaders
    <2>2. CASE headers' = <<>>
        BY <1>1, <1>2, <2>1, <2>2 DEF BatchInv
    <2>3. CASE headers' # <<>>
        <3>1. headers' = headers
            BY <1>4, <2>3 DEF WhatChanges
        <3>2. lastTraversed' = lastTraversed
            BY <1>0, <1>2, <1>4, <2>3, <3>1 DEF WhatChanges, NewSynchronizer, BatchInv
        <3> QED
            BY <1>0, <1>1, <1>2, <2>1, <3>1, <3>2 DEF BatchInv
    <2> QED
        BY <2>2, <2>3
<1> QED
    BY <1>3, <1>4

\* A block that was seen stays seen: mining leaves it where it is, and a reorg
\* that takes it off the chain takes note of it.
LEMMA StaysSeen ==
    ASSUME TypeOK, Mine \/ Reorg \/ UNCHANGED <<chain, abandoned>>, NEW b, Seen(b)
    PROVE  SeenOn(b, chain', abandoned')
<1> SUFFICES ASSUME b \in Blocks, b \notin abandoned
             PROVE  b \in abandoned' \/ IsPrefix(b, chain')
    <2>1. Reorg \/ UNCHANGED abandoned
        BY DEF Mine
    <2>2. abandoned \subseteq abandoned'
        BY <2>1 DEF Reorg
    <2> QED
        BY <2>2 DEF Seen, SeenOn
<1>0. chain \in Blocks /\ Len(chain) \in Nat /\ Len(b) \in Nat
    BY Lengths
<1>1. IsPrefix(b, chain)
    BY DEF Seen, SeenOn
<1>2. CASE Mine
    <2>1. forks \in Nat /\ chain' = Append(chain, forks)
        BY <1>2 DEF Mine, TypeOK
    <2>2. chain' \in Blocks /\ IsPrefix(chain, chain')
        BY <1>0, <2>1, Mined
    <2> QED
        BY <1>0, <1>1, <2>2, PrefixOrder
<1>3. CASE Reorg
    <2>1. PICK n \in 1..(Len(chain) - 1) :
              /\ chain' = Block(n)
              /\ abandoned' = abandoned \cup {Block(m) : m \in (n + 1)..Len(chain)}
        BY <1>3 DEF Reorg
    <2>2. b = Block(Len(b)) /\ Len(b) \in 0..Len(chain)
        BY <1>0, <1>1, PrefixIsCut DEF Block
    <2>3. CASE Len(b) > n
        <3>1. Len(b) \in (n + 1)..Len(chain)
            BY <1>0, <2>2, <2>3
        <3> QED
            BY <2>1, <2>2, <3>1
    <2>4. CASE Len(b) <= n
        <3>1. chain' \in Blocks /\ Len(chain') = n /\ IsPrefix(chain', chain)
            BY <1>0, <2>1, Cut DEF Block
        <3> QED
            BY <1>0, <1>1, <2>4, <3>1, PrefixOrder
    <2> QED
        BY <1>0, <2>3, <2>4
<1>4. CASE UNCHANGED <<chain, abandoned>>
    BY <1>1, <1>4
<1> QED
    BY <1>2, <1>3, <1>4
LEMMA NextSeenInv == IInv /\ Next /\ WhatChanges => SeenInv'
<1> SUFFICES ASSUME IInv, Next, WhatChanges PROVE SeenInv'
    OBVIOUS
<1>0. TypeOK /\ FetchInv /\ SeenInv
    BY DEF IInv
<1>1. Mine \/ Reorg \/ UNCHANGED <<chain, abandoned>>
    BY DEF WhatChanges
<1>2. \A i \in 1..Len(fetched') : SeenOn(fetched'[i], chain', abandoned')
    <2>1. CASE FetchHeader \/ FetchElementFails
        <3>1. /\ fetched \in Seq(Headers) /\ Len(fetched) \in Nat
              /\ UNCHANGED <<chain, abandoned>> /\ syncer = "fetch"
            BY <1>0, <2>1, Lengths DEF FetchHeader, FetchElementFails, chainVars
        <3>2. PICK h \in Headers : fetched' = Append(fetched, h) /\ Seen(h)
            <4>1. CASE FetchHeader
                <5>1. FetchHeight \in 0..Len(chain)
                    BY <1>0, <4>1, Lengths
                    DEF FetchHeader, FetchHeight, NextHeight, FetchInv
                <5>2. Block(FetchHeight) \in Headers /\ IsPrefix(Block(FetchHeight), chain)
                    BY <1>0, <5>1, Cut, Lengths DEF Block, Headers
                <5> QED
                    BY <4>1, <5>2 DEF FetchHeader, AnswerHeader, Seen, SeenOn
            <4>2. CASE FetchElementFails
                BY <4>2, NoBlocks DEF FetchElementFails, AnswerHeader, Headers, Seen, SeenOn
            <4> QED
                BY <2>1, <4>1, <4>2
        <3>3. /\ Len(fetched') = Len(fetched) + 1 /\ fetched'[Len(fetched) + 1] = h
              /\ \A i \in 1..Len(fetched) : fetched'[i] = fetched[i]
            BY <3>1, <3>2, AppendProperties
        <3> SUFFICES ASSUME NEW i \in 1..Len(fetched') PROVE SeenOn(fetched'[i], chain', abandoned')
            OBVIOUS
        <3>4. Seen(fetched'[i])
            BY <1>0, <3>1, <3>2, <3>3 DEF SeenInv
        <3> QED
            BY <3>1, <3>4 DEF Seen
    <2>2. CASE fetched' = fetched
        BY <1>0, <1>1, <2>2, StaysSeen DEF SeenInv
    <2>3. CASE fetched' = <<>>
        BY <2>3, EmptySeq
    <2> QED
        BY <2>1, <2>2, <2>3 DEF WhatChanges
<1>3. headers' # <<>> => SeenOn(Head(headers'), chain', abandoned')
    <2>1. CASE HeadersAdvance
        BY <1>0, <2>1, Advanced DEF SeenInv, Seen
    <2>2. CASE headers' = headers
        BY <1>0, <1>1, <2>2, StaysSeen DEF SeenInv
    <2> QED
        BY <2>1, <2>2 DEF WhatChanges
<1> QED
    BY <1>2, <1>3 DEF SeenInv, Seen

LEMMA NextRowsInv == IInv /\ Next /\ WhatChanges => RowsInv' /\ OneBlockPerHeight'
<1> SUFFICES ASSUME IInv, Next, WhatChanges PROVE RowsInv' /\ OneBlockPerHeight'
    OBVIOUS
<1>0. TypeOK /\ FetchInv /\ BatchInv /\ RowsInv /\ OneBlockPerHeight
    BY DEF IInv
<1>1. /\ \A row \in rows : row.run \in Nat /\ row.block \in Blocks /\ Len(row.block) \in Nat
      /\ run \in Nat
    BY <1>0, Lengths DEF TypeOK, Rows
<1>2. CASE ParseStorage
    <2>1. /\ UNCHANGED <<run, syncer, lastTraversed, headers>> /\ syncer = "parse"
          /\ rows' = rows \cup {[block |-> Head(headers), words |-> words, run |-> run]}
        BY <1>2 DEF ParseStorage, ReadAll, Parsing, traversalVars
    <2>2. headers # <<>> /\ Head(headers) \in Blocks
        BY <1>0, <2>1 DEF BatchInv
    <2>3. \A row \in rows' : row \in rows \/ (row.block = Head(headers) /\ row.run = run)
        BY <2>1
    <2>4. RowsInv'
        BY <1>0, <1>1, <2>1, <2>2, <2>3 DEF RowsInv, BatchInv
    <2>5. \A row \in rows' : row.run = run =>
              row.block = Head(headers) \/ Len(row.block) < Len(Head(headers))
        BY <1>0, <2>1, <2>2, <2>3 DEF RowsInv
    <2>6. ASSUME NEW a \in rows', NEW b \in rows', a.run = b.run, Len(a.block) = Len(b.block)
          PROVE  a.block = b.block
        <3>1. CASE a \in rows /\ b \in rows
            BY <1>0, <2>6, <3>1 DEF OneBlockPerHeight
        <3>2. CASE a.run = run /\ (a.block = Head(headers) \/ b.block = Head(headers))
            <4>1. /\ a.block = Head(headers) \/ Len(a.block) < Len(Head(headers))
                  /\ b.block = Head(headers) \/ Len(b.block) < Len(Head(headers))
                BY <2>5, <2>6, <3>2
            <4>2. Len(Head(headers)) \in Nat
                BY <1>0, <2>2, Lengths
            <4>3. CASE a.block = Head(headers)
                BY <2>6, <4>1, <4>2, <4>3
            <4>4. CASE b.block = Head(headers)
                BY <2>6, <4>1, <4>2, <4>4
            <4> QED
                BY <3>2, <4>3, <4>4
        <3> QED
            BY <2>3, <2>6, <3>1, <3>2
    <2> QED
        BY <2>4, <2>6 DEF OneBlockPerHeight
<1>3. CASE NewSynchronizer
    <2>1. run' = run + 1 /\ rows' = rows
        BY <1>3 DEF NewSynchronizer, tableVars
    <2>2. \A row \in rows : row.run <= run /\ row.run # run + 1
        BY <1>0, <1>1 DEF RowsInv
    <2> QED
        BY <1>0, <1>1, <2>1, <2>2 DEF RowsInv, OneBlockPerHeight
<1>4. CASE HeadersAdvance
    <2>1. \A row \in rows : row.run = run => Len(row.block) <= Len(lastTraversed)
        BY <1>0, <1>4, Advanced DEF RowsInv
    <2>2. Len(lastTraversed) \in Nat
        BY <1>0, <1>4, Advanced, Lengths
    <2>3. \A row \in rows : row.run = run =>
              /\ lastTraversed' \in Blocks => Len(row.block) <= Len(lastTraversed')
              /\ Len(row.block) < Len(Head(headers'))
        BY <1>1, <1>4, <2>1, <2>2, Advanced
    <2>4. rows' = rows /\ run' = run
        BY <1>4, Advanced
    <2> QED
        BY <1>0, <2>3, <2>4 DEF RowsInv, OneBlockPerHeight
<1>5. CASE ~ParseStorage /\ ~NewSynchronizer /\ ~HeadersAdvance
    <2>1. /\ rows' = rows /\ run' = run
          /\ headers' = headers \/ headers' = <<>>
          /\ lastTraversed' = lastTraversed \/ syncer' = "down"
          /\ syncer = "down" => syncer' = "down"
        BY <1>5 DEF WhatChanges
    <2> QED
        BY <1>0, <2>1 DEF RowsInv, OneBlockPerHeight
<1> QED
    BY <1>2, <1>3, <1>4, <1>5

LEMMA NextParseInv == IInv /\ Next /\ WhatChanges => ParseInv'
<1> SUFFICES ASSUME IInv, Next, WhatChanges, syncer' = "parse", parse'["storage"] = "done"
             PROVE  \E row \in rows' : row.block = Head(headers') /\ row.run = run'
    BY DEF ParseInv
<1>0. TypeOK /\ ParseInv
    BY DEF IInv
<1>1. CASE ParseStorage
    <2> DEFINE row == [block |-> Head(headers), words |-> words, run |-> run]
    <2>1. row \in rows' /\ row.block = Head(headers) /\ row.run = run
        BY <1>1 DEF ParseStorage
    <2>2. headers' = headers /\ run' = run
        BY <1>1 DEF ParseStorage
    <2> QED
        BY <2>1, <2>2, Zenon
<1>2. ASSUME ~ParseStorage, syncer = "parse", UNCHANGED <<headers, run>>, parse["storage"] = "done"
      PROVE  \E row \in rows' : row.block = Head(headers') /\ row.run = run'
    BY <1>0, <1>2 DEF ParseInv, WhatChanges
<1>3. CASE StartParsers
    BY <1>3 DEF StartParsers, Parsers
<1>4. CASE ParseTx \/ ParseTxFails
    <2>1. parse'["storage"] = parse["storage"]
        BY <1>0, <1>4 DEF ParseTx, ParseTxFails, Finish, TypeOK, Parsers
    <2> QED
        BY <1>2, <1>4, <2>1 DEF ParseTx, ParseTxFails, ParseStorage, ReadAll, Parsing
<1>5. CASE ParseStorageFails
    BY <1>0, <1>5 DEF ParseStorageFails, Finish, TypeOK, Parsers
<1>6. CASE ReadWord
    BY <1>6 DEF ReadWord, Reading, Parsing
<1>7. CASE UNCHANGED <<syncer, headers, parse, run>> /\ ~ParseStorage
    BY <1>2, <1>7
<1> QED
    BY <1>1, <1>3, <1>4, <1>5, <1>6, <1>7 DEF WhatChanges, ParseStorages

\* Reading another word keeps those there are: the node's latest block descends
\* from what was read before, unless that is gone.
LEMMA NextWordsInv == IInv /\ Next /\ WhatChanges => WordsInv'
<1> SUFFICES ASSUME IInv, Next, WhatChanges, words' # <<>> PROVE WordsInv'
    BY DEF WordsInv
<1>0. TypeOK /\ BatchInv /\ SeenInv /\ WordsInv
    BY DEF IInv
<1>1. CASE ReadWord
    <2>1. /\ syncer = "parse" /\ parse["storage"] = "running"
          /\ UNCHANGED <<syncer, parse, headers, chain, abandoned>>
        BY <1>1 DEF ReadWord, Reading, Parsing, chainVars
    <2>2. chain \in Blocks /\ words \in Seq(Headers) /\ Len(words) \in Nat
          /\ headers # <<>> /\ Head(headers) \in Blocks /\ Seen(Head(headers))
        BY <1>0, <2>1 DEF TypeOK, Headers, Words, BatchInv, SeenInv
    <2>3. PICK w \in {chain, ZeroHeader} : words' = Append(words, w)
        BY <1>1 DEF ReadWord
    <2> DEFINE n == Len(words)
    <2>4. /\ words' \in Seq(Headers) /\ Len(words') = n + 1 /\ words'[n + 1] = w /\ n \in Nat
          /\ \A i \in 1..n : words'[i] = words[i]
        BY <2>2, <2>3, AppendProperties DEF Headers
    <2>5. DOMAIN words' = 1..(n + 1) /\ DOMAIN words = 1..n
        BY <2>2, <2>4
    <2>6. Seen(w) /\ (w # ZeroHeader => Head(headers) \in abandoned \/ IsPrefix(Head(headers), w))
        <3>1. IsPrefix(chain, chain)
            BY <2>2, PrefixOrder
        <3> QED
            BY <2>2, <3>1, NoBlocks DEF Seen, SeenOn
    <2>7. \A i \in 1..n : /\ Seen(words[i]) /\ words[i] \in Headers
                          /\ words[i] # ZeroHeader =>
                                Head(headers) \in abandoned \/ IsPrefix(Head(headers), words[i])
        <3>1. n > 0 => words # <<>>
            BY <2>2, EmptySeq
        <3> QED
            BY <1>0, <2>2, <2>4, <2>5, <3>1 DEF WordsInv, Fit
    <2> HIDE DEF n
    <2>8. \A i \in 1..(n + 1) :
              /\ Seen(words'[i])
              /\ words'[i] # ZeroHeader =>
                    Head(headers) \in abandoned \/ IsPrefix(Head(headers), words'[i])
        BY <2>4, <2>6, <2>7
    <2>9. ASSUME NEW i \in 1..(n + 1), NEW j \in 1..(n + 1), i < j,
                 words'[i] # ZeroHeader, words'[j] # ZeroHeader
          PROVE  words'[i] \in abandoned \/ IsPrefix(words'[i], words'[j])
        <3>1. i \in 1..n /\ words'[i] = words[i]
            BY <2>4, <2>9
        <3>2. CASE j \in 1..n
            <4>1. words # <<>>
                BY <2>2, <3>2, EmptySeq DEF n
            <4>2. Fit(words, Head(headers), abandoned)
                BY <1>0, <4>1 DEF WordsInv
            <4> QED
                BY <2>4, <2>5, <2>9, <3>1, <3>2, <4>2 DEF Fit
        <3>3. CASE j = n + 1
            <4>1. words'[j] = chain
                BY <2>4, <2>9, <3>3
            <4>2. Seen(words[i]) /\ words[i] \in Blocks
                BY <2>7, <2>9, <3>1 DEF Headers
            <4> QED
                BY <3>1, <4>1, <4>2 DEF Seen, SeenOn
        <3> QED
            BY <2>4, <3>2, <3>3
    <2>10. Fit(words', Head(headers'), abandoned')
        BY <2>1, <2>5, <2>8, <2>9 DEF Fit
    <2> QED
        BY <2>1, <2>5, <2>8, <2>10 DEF WordsInv, Seen
<1>2. ASSUME words' = words, syncer = "parse", UNCHANGED <<syncer, headers>>,
             ParseTx \/ ParseTxFails \/ parse' = parse
      PROVE  WordsInv'
    <2>1. words # <<>> /\ Fit(words, Head(headers), abandoned) /\ parse["storage"] = "running"
          /\ \A i \in DOMAIN words : Seen(words[i])
        BY <1>0, <1>2 DEF WordsInv
    <2>2. parse'["storage"] = "running"
        BY <1>0, <1>2, <2>1 DEF ParseTx, ParseTxFails, Finish, TypeOK, Parsers
    <2>3. abandoned \subseteq abandoned'
        BY DEF WhatChanges, Mine, Reorg
    <2>4. Fit(words', Head(headers'), abandoned')
        BY <1>2, <2>1, <2>3 DEF Fit
    <2>5. \A i \in DOMAIN words' : SeenOn(words'[i], chain', abandoned')
        BY <1>0, <1>2, <2>1, StaysSeen DEF WhatChanges
    <2> QED
        BY <1>2, <2>2, <2>4, <2>5 DEF WordsInv, Seen
<1>3. CASE BatchEnds
    <2>1. words' = words /\ parse["storage"] # "running"
        BY <1>3 DEF BatchEnds, LeaveProcessBatch, Parsers
    <2> QED
        BY <1>0, <2>1 DEF WordsInv
<1>4. CASE words' = words /\ syncer # "parse"
    BY <1>0, <1>4 DEF WordsInv
<1> QED
    BY <1>1, <1>2, <1>3, <1>4 DEF WhatChanges

LEMMA NextRowsMatchLabel == IInv /\ Next /\ WhatChanges => RowsMatchLabel'
<1> SUFFICES ASSUME IInv, Next, WhatChanges PROVE RowsMatchLabel'
    OBVIOUS
<1>0. TypeOK /\ BatchInv /\ SeenInv /\ WordsInv /\ RowsMatchLabel
    BY DEF IInv
<1>1. abandoned \subseteq abandoned'
    BY DEF WhatChanges, Mine, Reorg
<1>2. CASE ParseStorage
    <2> DEFINE new == [block |-> Head(headers), words |-> words, run |-> run]
    <2>1. rows' = rows \cup {new} /\ new.block = Head(headers) /\ new.words = words
        BY <1>2 DEF ParseStorage
    <2>2. Fit(words, Head(headers), abandoned)
        <3>1. CASE words = <<>>
            BY <3>1 DEF Fit
        <3>2. CASE words # <<>>
            BY <1>0, <3>2 DEF WordsInv
        <3> QED
            BY <3>1, <3>2
    <2>3. Fit(new.words, new.block, abandoned')
        BY <1>1, <2>1, <2>2 DEF Fit
    <2>4. \A row \in rows : Fit(row.words, row.block, abandoned')
        BY <1>0, <1>1 DEF RowsMatchLabel, Fit
    <2> HIDE DEF new
    <2>5. \A row \in rows' : Fit(row.words, row.block, abandoned')
        BY <2>1, <2>3, <2>4
    <2> QED
        BY <2>5 DEF RowsMatchLabel, Fit
<1>3. CASE rows' = rows
    BY <1>0, <1>1, <1>3 DEF RowsMatchLabel
<1> QED
    BY <1>2, <1>3 DEF WhatChanges
\* A range that is a branch lies on its first header.
LEMMA NextRangeBranch ==
    ASSUME IInv, Next, WhatChanges, FetchInv', syncer' = "fetch", IsBranch(fetched')
    PROVE  \A i \in 1..Len(fetched') :
               fetched'[1] # ZeroHeader => IsPrefix(fetched'[1], fetched'[i])
<1>0. TypeOK /\ FetchInv /\ BranchInv
    BY DEF IInv
<1>1. CASE FetchHeader \/ FetchElementFails
    <2>1. /\ fetched \in Seq(Headers) /\ Len(fetched) \in Nat /\ syncer = "fetch"
          /\ UNCHANGED lastTraversed /\ lastTraversed \in Blocks /\ Len(lastTraversed) \in Nat
        BY <1>0, <1>1, Lengths DEF FetchHeader, FetchElementFails, FetchInv
    <2>2. PICK h \in Headers : fetched' = Append(fetched, h)
        <3>1. CASE FetchHeader
            <4>1. FetchHeight \in 0..Len(chain)
                BY <1>0, <3>1, Lengths DEF FetchHeader, FetchHeight, NextHeight, FetchInv
            <4>2. Block(FetchHeight) \in Headers
                BY <1>0, <4>1, Cut, Lengths DEF Block, Headers
            <4> QED
                BY <3>1, <4>2 DEF FetchHeader, AnswerHeader
        <3>2. CASE FetchElementFails
            BY <3>2 DEF FetchElementFails, AnswerHeader, Headers
        <3> QED
            BY <1>1, <3>1, <3>2
    <2> DEFINE n == Len(fetched)
    <2>3. /\ fetched' \in Seq(Headers) /\ Len(fetched') = n + 1 /\ fetched'[n + 1] = h
          /\ \A i \in 1..n : fetched'[i] = fetched[i]
        BY <2>1, <2>2, AppendProperties
    <2>4. n \in Nat /\ \A i \in 2..(n + 1) : fetched'[i] # ZeroHeader /\ Front(fetched'[i]) = fetched'[i - 1]
        BY <2>1, <2>3 DEF IsBranch
    <2>5. h # ZeroHeader => h \in Blocks /\ Len(h) > 0
        <3>1. h # ZeroHeader => Len(h) = Len(lastTraversed) + n + 1
            BY <2>1, <2>3, <2>4 DEF FetchInv
        <3> QED
            BY <2>1, <2>4, <3>1 DEF Headers
    <2> HIDE DEF n
    <2>6. \A i \in 1..n : fetched[1] # ZeroHeader => IsPrefix(fetched[1], fetched[i])
        <3>1. \A i \in 2..n : fetched[i] # ZeroHeader /\ Front(fetched[i]) = fetched[i - 1]
            <4> SUFFICES ASSUME NEW i \in 2..n
                         PROVE  fetched[i] # ZeroHeader /\ Front(fetched[i]) = fetched[i - 1]
                OBVIOUS
            <4>1. i \in 2..(n + 1) /\ i \in 1..n /\ i - 1 \in 1..n
                BY <2>4
            <4> QED
                BY <2>3, <2>4, <4>1
        <3> QED
            BY <1>0, <2>1, <3>1 DEF BranchInv, IsBranch, n
    <2> SUFFICES ASSUME NEW i \in 1..(n + 1), fetched'[1] # ZeroHeader
                 PROVE  IsPrefix(fetched'[1], fetched'[i])
        BY <2>3
    <2>7. CASE i \in 1..n
        <3>1. 1 \in 1..n
            BY <2>4, <2>7
        <3> QED
            BY <2>3, <2>6, <2>7, <3>1
    <2>8. CASE i = n + 1 /\ n = 0
        <3>1. h \in Blocks /\ fetched'[1] = h /\ fetched'[i] = h
            BY <2>3, <2>5, <2>8
        <3> QED
            BY <3>1, PrefixOrder
    <2>9. CASE i = n + 1 /\ n > 0
        <3>1. n + 1 \in 2..(n + 1) /\ 1 \in 1..n /\ n \in 1..n /\ (n + 1) - 1 = n
            BY <2>4, <2>9
        <3>2. h # ZeroHeader /\ Front(h) = fetched[n] /\ fetched'[1] = fetched[1]
            BY <2>3, <2>4, <3>1
        <3>3. fetched[n] \in Blocks /\ IsPrefix(fetched[n], h)
            BY <2>5, <3>2, Parent
        <3>4. fetched[1] \in Blocks /\ IsPrefix(fetched[1], fetched[n])
            BY <2>1, <2>6, <3>1, <3>2 DEF Headers, n
        <3> QED
            BY <2>3, <2>5, <2>9, <3>2, <3>3, <3>4, PrefixOrder
    <2> QED
        BY <2>4, <2>7, <2>8, <2>9
<1>2. CASE fetched' = <<>>
    BY <1>2, EmptySeq
<1>3. CASE syncer = "fetch" /\ fetched' = fetched
    BY <1>0, <1>3 DEF BranchInv
<1> QED
    BY <1>1, <1>2, <1>3 DEF WhatChanges, NextHeadersFetches

\* What a run stored and stores next is on the branch of the traversal.
OnTheBranch ==
    \/ /\ lastTraversed \in Blocks
       /\ \A row \in rows : row.run = run => IsPrefix(row.block, lastTraversed)
       /\ headers # <<>> => IsPrefix(Head(headers), lastTraversed)
    \/ headers = <<>> /\ \A row \in rows : row.run # run

LEMMA NextOnTheBranch ==
    ASSUME IInv, Next, WhatChanges, ~mixed', syncer' # "down"
    PROVE  OnTheBranch'
<1>0. TypeOK /\ BatchInv /\ RowsInv /\ BranchInv
    BY DEF IInv
<1>1. CASE NewSynchronizer
    <2>1. /\ run' = run + 1 /\ rows' = rows /\ headers' = headers /\ syncer = "down"
        BY <1>1 DEF NewSynchronizer, tableVars, batchVars
    <2>2. \A row \in rows : row.run \in Nat /\ row.run <= run
        BY <1>0 DEF TypeOK, Rows, RowsInv
    <2>3. run \in Nat
        BY <1>0 DEF TypeOK
    <2> QED
        BY <1>0, <2>1, <2>2, <2>3 DEF BatchInv, OnTheBranch
<1>2. CASE HeadersAdvance
    <2> DEFINE n == Len(fetched)
    <2>1. /\ headers' = fetched /\ fetched # <<>> /\ Head(headers') = fetched[1]
          /\ fetched[1] \in Blocks /\ lastTraversed \in Blocks /\ n \in Nat \ {0}
          /\ Front(fetched[1]) = lastTraversed /\ Len(fetched[1]) = Len(lastTraversed) + 1
          /\ lastTraversed' = fetched[n] /\ rows' = rows /\ run' = run
          /\ fetched \in Seq(Headers) /\ syncer = "fetch" /\ mixed' = (mixed \/ ~IsBranch(fetched))
        BY <1>2, Advanced
    <2>2. ~mixed /\ IsBranch(fetched)
        BY <2>1
    <2>3. OnTheBranch
        BY <1>0, <2>1, <2>2 DEF BranchInv, OnTheBranch
    <2>4. fetched[n] \in Blocks
        <3>1. CASE n = 1
            BY <2>1, <3>1
        <3>2. CASE n # 1
            BY <2>1, <2>2, <3>2 DEF IsBranch, Headers
        <3> QED
            BY <3>1, <3>2
    <2>5. IsPrefix(fetched[1], fetched[n])
        BY <1>0, <2>1, <2>2, NoBlocks DEF BranchInv
    <2>6. IsPrefix(lastTraversed, fetched[1])
        <3>1. Len(lastTraversed) \in Nat
            BY <1>0, <2>1, Lengths
        <3> QED
            BY <2>1, <3>1, Parent
    <2> HIDE DEF n
    <2>7. \A row \in rows : row.run = run => IsPrefix(row.block, fetched[n])
        <3> SUFFICES ASSUME NEW row \in rows, row.run = run
                     PROVE  IsPrefix(row.block, fetched[n])
            OBVIOUS
        <3>1. row.block \in Blocks
            BY <1>0 DEF TypeOK, Rows
        <3>2. IsPrefix(row.block, lastTraversed)
            BY <2>3 DEF OnTheBranch
        <3>3. IsPrefix(row.block, fetched[1])
            BY <2>1, <2>6, <3>1, <3>2, PrefixOrder
        <3> QED
            BY <2>1, <2>4, <2>5, <3>1, <3>3, PrefixOrder
    <2> QED
        BY <2>1, <2>4, <2>5, <2>7 DEF OnTheBranch
<1>3. CASE ~NewSynchronizer /\ ~HeadersAdvance
    <2>1. /\ run' = run /\ mixed' = mixed /\ lastTraversed' = lastTraversed
          /\ headers' = headers \/ headers' = <<>>
          /\ syncer # "down"
        BY <1>3 DEF WhatChanges
    <2>2. OnTheBranch
        BY <1>0, <2>1 DEF BranchInv, OnTheBranch
    <2>3. CASE rows' = rows
        BY <2>1, <2>2, <2>3 DEF OnTheBranch
    <2>4. CASE ParseStorage
        <3>1. syncer = "parse" /\ headers' = headers
            BY <2>4 DEF ParseStorage, ReadAll, Parsing
        <3>2. headers # <<>>
            BY <1>0, <3>1 DEF BatchInv
        <3>3. rows' = rows \cup {[block |-> Head(headers), words |-> words, run |-> run]}
            BY <2>4 DEF ParseStorage
        <3>4. \A row \in rows' : row \in rows \/ row.block = Head(headers)
            BY <3>3
        <3>5. /\ lastTraversed \in Blocks /\ IsPrefix(Head(headers), lastTraversed)
              /\ \A row \in rows : row.run = run => IsPrefix(row.block, lastTraversed)
            BY <2>2, <3>2 DEF OnTheBranch
        <3> QED
            BY <2>1, <3>1, <3>4, <3>5 DEF OnTheBranch
    <2> QED
        BY <2>3, <2>4 DEF WhatChanges
<1> QED
    BY <1>1, <1>2, <1>3

LEMMA NextBranchInv == IInv /\ Next /\ WhatChanges /\ FetchInv' => BranchInv'
<1> SUFFICES ASSUME IInv, Next, WhatChanges, FetchInv' PROVE BranchInv'
    OBVIOUS
<1>1. ~mixed' /\ syncer' # "down" => OnTheBranch'
    BY NextOnTheBranch
<1>2. syncer' = "fetch" /\ IsBranch(fetched') =>
          \A i \in 1..Len(fetched') :
              fetched'[1] # ZeroHeader => IsPrefix(fetched'[1], fetched'[i])
    BY NextRangeBranch
<1> QED
    BY <1>1, <1>2 DEF BranchInv, OnTheBranch, IsBranch

\* Two rows on the branch of the traversal are on one branch.
LEMMA NextOneBranch == IInv /\ Next /\ WhatChanges /\ TypeOK' => OneBranch'
<1> SUFFICES ASSUME IInv, Next, WhatChanges, TypeOK', ~mixed',
                    NEW a \in rows', NEW b \in rows', a.run = run', b.run = run'
             PROVE  IsPrefix(a.block, b.block) \/ IsPrefix(b.block, a.block)
    BY DEF OneBranch
<1>1. CASE syncer' = "down"
    <2>1. UNCHANGED <<rows, run, mixed>>
        BY <1>1 DEF WhatChanges
    <2> QED
        BY <2>1 DEF IInv, OneBranch
<1>2. CASE syncer' # "down"
    <2>1. /\ lastTraversed' \in Blocks /\ a.block \in Blocks /\ b.block \in Blocks
          /\ IsPrefix(a.block, lastTraversed') /\ IsPrefix(b.block, lastTraversed')
        BY <1>2, NextOnTheBranch DEF OnTheBranch, TypeOK, Rows
    <2> QED
        BY <2>1, PrefixOrder
<1> QED
    BY <1>1, <1>2

-----------------------------------------------------------------------------
(* The theorems *)

\* The inductive invariant of the synchronizer holds of every behaviour.
THEOREM Invariance == Spec => []IInv
<1>1. IInv /\ [Next]_vars => IInv'
    <2> SUFFICES ASSUME IInv, [Next]_vars PROVE IInv'
        OBVIOUS
    <2>1. CASE Next
        <3>1. WhatChanges /\ TypeOK'
            BY <2>1, Frame, NextTypeOK
        <3>2. FetchInv' /\ BatchInv' /\ SeenInv' /\ ParseInv' /\ WordsInv' /\ RowsMatchLabel'
            BY <2>1, <3>1, NextFetchInv, NextBatchInv, NextSeenInv, NextParseInv, NextWordsInv,
               NextRowsMatchLabel
        <3>3. RowsInv' /\ OneBlockPerHeight'
            BY <2>1, <3>1, NextRowsInv
        <3>4. BranchInv' /\ OneBranch'
            BY <2>1, <3>1, <3>2, NextBranchInv, NextOneBranch
        <3> QED
            BY <3>1, <3>2, <3>3, <3>4 DEF IInv
    <2>2. CASE UNCHANGED vars
        BY <2>2 DEF vars, IInv, TypeOK, FetchInv, NextHeight, BatchInv, SeenInv, Seen, SeenOn,
                RowsInv, BranchInv, IsBranch, ParseInv, WordsInv, Fit, OneBlockPerHeight,
                OneBranch, RowsMatchLabel
    <2> QED
        BY <2>1, <2>2
<1> QED
    BY <1>1, InitIInv, PTL DEF Spec

\* Every variable keeps its type, and a range stays within BlockStep headers.
THEOREM TypeCorrect == Spec => []TypeOK
<1>1. IInv => TypeOK
    BY DEF IInv
<1> QED
    BY <1>1, Invariance, PTL

\* A run of the process labels the rows of a height with one block, for any
\* chain, however often it reorganises (header_traversal.go:60-91).
THEOREM BlockPerHeight == Spec => []OneBlockPerHeight
<1>1. IInv => OneBlockPerHeight
    BY DEF IInv
<1> QED
    BY <1>1, Invariance, PTL

\* As long as a run fetched only branches, all its rows lie on one branch: the
\* check of the first parent carries over (header_traversal.go:85-91).
THEOREM Branch == Spec => []OneBranch
<1>1. IInv => OneBranch
    BY DEF IInv
<1> QED
    BY <1>1, Invariance, PTL

\* However blocks and reorgs come between the reads a row is put together from:
\* every word is that of its block or of a descendant, unless a reorg took the
\* block away, and a later word is that of the block of an earlier one or of a
\* descendant, unless a reorg took that one away (synchronizer.go:216-261,
\* storage/utils/scan.go:15-30).
THEOREM StorageOfDescendant == Spec => []RowsMatchLabel
<1>1. IInv => RowsMatchLabel
    BY DEF IInv
<1> QED
    BY <1>1, Invariance, PTL

\* A batch that is let go of, other than by the end of the process.
LetGo ==
    (headers # <<>> /\ headers' = <<>> /\ syncer' # "down")
        => \E row \in rows : row.block = Head(headers) /\ row.run = run

\* Only the end of processBatch lets go of a batch, and only when neither of
\* its parsers failed.
LEMMA StepLetsGo == IInv /\ [Next]_vars => [LetGo]_vars
<1> SUFFICES ASSUME IInv, Next, headers # <<>>, headers' = <<>>, syncer' # "down"
             PROVE  \E row \in rows : row.block = Head(headers) /\ row.run = run
    BY DEF LetGo
<1>1. BatchEnds
    <2>1. ~HeadersAdvance
        BY Advanced
    <2>2. ~(Mine \/ Reorg \/ ProtectAddress \/ NewSynchronizer)
        BY DEF Mine, Reorg, ProtectAddress, NewSynchronizer, batchVars
    <2>3. ~(Crash \/ NextHeadersPanics \/ ParseTxPanics)
        BY DEF Crash, NextHeadersPanics, ParseTxPanics, GoDown
    <2>4. ~(NextHeadersAtHead \/ NextHeadersFetches \/ FetchHeader \/ FetchElementFails)
        BY DEF NextHeadersAtHead, NextHeadersFetches, FetchHeader, FetchElementFails, batchVars
    <2>5. ~(FetchFails \/ HeadersMismatch \/ QueryAddressListFails \/ StartParsers)
        BY DEF FetchFails, HeadersMismatch, QueryAddressListFails, StartParsers, batchVars
    <2>6. ~(ParseTx \/ ParseTxFails \/ ParseStorages)
        BY DEF ParseTx, ParseTxFails, ParseStorages, ReadWord, ParseStorage, ParseStorageFails
    <2> QED
        BY <2>1, <2>2, <2>3, <2>4, <2>5, <2>6 DEF Next, NextHeaders, ParseTransactions
<1>2. parse["storage"] = "done" /\ syncer = "parse"
    BY <1>1 DEF BatchEnds, IInv, TypeOK, Parsers
<1> QED
    BY <1>2 DEF IInv, ParseInv

\* A batch that the process lets go of while it lives has its first block's
\* storage stored by this run, however often it was retried and however many
\* reads and inserts failed before (synchronizer.go:86-95, 148-172).
THEOREM LetsGoWhenStored == Spec => LetGoWhenStored
<1>1. IInv /\ [Next]_vars => [LetGo]_vars
    BY StepLetsGo
<1> QED
    BY <1>1, Invariance, PTL DEF Spec, LetGoWhenStored, LetGo
-----------------------------------------------------------------------------
(* Refinement *)

LEMMA ContractInit == Init => Contract!Init
BY DEF Init, Contract!Init, InHand

\* The traversal takes a block above the one in hand and above all rows of the run.
LEMMA AdvanceTakes == IInv /\ HeadersAdvance => Contract!Take
<1> SUFFICES ASSUME IInv, HeadersAdvance PROVE Contract!Take
    OBVIOUS
<1>1. /\ headers' # <<>> /\ InHand' = fetched[1] /\ fetched[1] \in Blocks
      /\ lastTraversed \in Blocks /\ Len(fetched[1]) = Len(lastTraversed) + 1
      /\ syncer = "fetch" /\ syncer' = "process" /\ UNCHANGED <<rows, run>>
    BY Advanced DEF InHand
<1>2. TypeOK /\ BatchInv /\ RowsInv /\ Len(lastTraversed) \in Nat
      /\ \A b \in Blocks : Len(b) \in Nat
    BY <1>1, Lengths DEF IInv
<1>3. InHand # NoHeader => Len(InHand) < Len(fetched[1])
    <2> SUFFICES ASSUME headers # <<>> PROVE Len(Head(headers)) < Len(fetched[1])
        BY DEF InHand
    <2>1. Head(headers) \in Blocks /\ Len(Head(headers)) <= Len(lastTraversed)
        BY <1>1, <1>2 DEF BatchInv
    <2> QED
        BY <1>1, <1>2, <2>1
<1>4. ASSUME NEW row \in rows, row.run = run PROVE Len(row.block) < Len(fetched[1])
    <2>1. row.block \in Blocks
        BY <1>2 DEF TypeOK, Rows
    <2>2. Len(row.block) <= Len(lastTraversed)
        BY <1>1, <1>2, <1>4 DEF RowsInv
    <2> QED
        BY <1>1, <1>2, <2>1, <2>2
<1>5. UNCHANGED <<run, abandoned, rows>> /\ (syncer' # "down") = (syncer # "down")
    BY <1>1, Advanced
<1>6. InHand' # NoHeader
    BY <1>1, NoBlocks
<1> QED
    BY <1>1, <1>3, <1>4, <1>5, <1>6 DEF Contract!Take, Contract!RowsOf

\* The storage parser stores what belongs to the block in hand.
LEMMA ParseStoragePuts == IInv /\ ParseStorage => Contract!Put
<1> SUFFICES ASSUME IInv, ParseStorage PROVE Contract!Put
    OBVIOUS
<1>1. syncer = "parse" /\ UNCHANGED <<syncer, headers, run, abandoned>>
    BY DEF ParseStorage, ReadAll, Parsing, chainVars
<1>2. headers # <<>> /\ InHand = Head(headers) /\ Head(headers) \in Blocks
    BY <1>1 DEF IInv, BatchInv, InHand
<1>3. InHand # NoHeader /\ InHand' = InHand
    BY <1>1, <1>2, NoBlocks DEF InHand
<1> DEFINE row == [block |-> Head(headers), words |-> words, run |-> run]
<1>4. rows' = rows \cup {row} /\ row \in rows'
    BY DEF ParseStorage
<1>5. ASSUME InHand \notin abandoned, NEW i \in DOMAIN words, words[i] # ZeroHeader
      PROVE  SubSeq(words[i], 1, Len(InHand)) = InHand
    <2>1. words \in Seq(Headers) /\ words # <<>>
        BY <1>5 DEF IInv, TypeOK, Words, Headers
    <2>2. words[i] \in Blocks
        BY <1>5, <2>1 DEF Headers
    <2>3. IsPrefix(InHand, words[i])
        BY <1>2, <1>5, <2>1 DEF IInv, WordsInv, Fit
    <2> QED
        BY <1>2, <2>2, <2>3, PrefixIsCut
<1>6. row.block = InHand /\ row.run = run /\ row.words = words
    BY <1>2
<1> HIDE DEF row
<1> QED
    BY <1>1, <1>3, <1>4, <1>5, <1>6 DEF Contract!Put

\* A batch that ends keeps its block in hand, or lets it go stored.
LEMMA BatchEndsLetsGo == IInv /\ BatchEnds => Contract!LetGo \/ UNCHANGED Contract!vars
<1> SUFFICES ASSUME IInv, BatchEnds PROVE Contract!LetGo \/ UNCHANGED Contract!vars
    OBVIOUS
<1>1. syncer = "parse" /\ syncer' = "idle" /\ UNCHANGED <<run, abandoned, rows>>
    BY DEF BatchEnds, LeaveProcessBatch, chainVars, tableVars
<1>2. CASE headers' = headers
    BY <1>1, <1>2 DEF InHand, Contract!vars
<1>3. CASE headers' = <<>> /\ \A p \in Parsers : parse[p] # "failed"
    <2>1. headers # <<>> /\ InHand = Head(headers) /\ Head(headers) \in Blocks /\ InHand' = NoHeader
        BY <1>1, <1>3 DEF IInv, BatchInv, InHand
    <2>2. parse["storage"] = "done"
        BY <1>3 DEF BatchEnds, IInv, TypeOK, Parsers
    <2>3. \E row \in rows : row.run = run /\ row.block = InHand
        BY <1>1, <2>1, <2>2 DEF IInv, ParseInv
    <2>4. InHand # NoHeader
        BY <2>1, NoBlocks
    <2> QED
        BY <1>1, <2>1, <2>3, <2>4 DEF Contract!LetGo, Contract!RowsOf
<1> QED
    BY <1>2, <1>3 DEF BatchEnds

\* Every step starts or ends a run, takes a block, stores it or lets it go, or
\* leaves the reader's view alone.
LEMMA ContractStep == IInv /\ [Next]_vars => [Contract!Next]_(Contract!vars)
<1> SUFFICES ASSUME IInv, [Next]_vars PROVE [Contract!Next]_(Contract!vars)
    OBVIOUS
<1> USE DEF chainVars, tableVars, batchVars, traversalVars
<1>1. CASE Reorg
    <2>1. abandoned \subseteq abandoned' /\ UNCHANGED <<syncer, run, headers, rows>>
        BY <1>1 DEF Reorg
    <2> QED
        BY <2>1 DEF InHand, Contract!Next, Contract!Reorganise
<1>2. CASE NewSynchronizer
    <2>1. /\ syncer = "down" /\ syncer' = "idle" /\ run' = run + 1
          /\ UNCHANGED <<headers, abandoned, rows>>
        BY <1>2 DEF NewSynchronizer
    <2> QED
        BY <2>1 DEF InHand, Contract!Next, Contract!StartRun
<1>3. CASE Crash \/ NextHeadersPanics \/ ParseTxPanics
    <2>1. /\ syncer # "down" /\ syncer' = "down" /\ headers' = <<>>
          /\ UNCHANGED <<run, abandoned, rows>>
        BY <1>3 DEF Crash, NextHeadersPanics, ParseTxPanics, Parsing, GoDown
    <2> QED
        BY <2>1 DEF InHand, Contract!Next, Contract!Die
<1>4. CASE HeadersAdvance
    BY <1>4, AdvanceTakes DEF Contract!Next
<1>5. CASE ParseStorage
    BY <1>5, ParseStoragePuts DEF Contract!Next
<1>6. CASE BatchEnds
    BY <1>6, BatchEndsLetsGo DEF Contract!Next
<1>7. ASSUME UNCHANGED <<run, abandoned, rows, headers>>, (syncer' # "down") = (syncer # "down")
      PROVE  UNCHANGED Contract!vars
    BY <1>7 DEF InHand, Contract!vars
<1>8. CASE \/ Mine \/ ProtectAddress \/ UNCHANGED vars
    BY <1>7, <1>8 DEF Mine, ProtectAddress, vars
<1>9. CASE \/ NextHeadersAtHead \/ NextHeadersFetches \/ FetchHeader \/ FetchElementFails
           \/ FetchFails \/ HeadersMismatch
    BY <1>7, <1>9 DEF NextHeadersAtHead, ToProcessBatch, NextHeadersFetches, FetchHeader,
       FetchElementFails, FetchFails, HeadersMismatch, FetchedAll, LeaveNextHeaders
<1>10. CASE QueryAddressListFails \/ StartParsers \/ ParseTx \/ ParseTxFails
            \/ ReadWord \/ ParseStorageFails
    BY <1>7, <1>10 DEF QueryAddressListFails, StartParsers, ParseTx, ParseTxFails, ReadWord,
       ParseStorageFails
<1> QED
    BY <1>1, <1>2, <1>3, <1>4, <1>5, <1>6, <1>8, <1>9, <1>10
    DEF Next, NextHeaders, ParseTransactions, ParseStorages

\* The synchronizer implements StoreContract: within a run the labels of the rows
\* go up, one block at a time, and no living run lets a block go unstored except
\* for a higher one (synchronizer.go:69-172).
THEOREM Refinement == Spec => ImplementsContract
<1>1. Spec => Contract!Init /\ [][Contract!Next]_(Contract!vars)
    BY ContractInit, ContractStep, Invariance, PTL DEF Spec
<1> QED
    BY <1>1 DEF ImplementsContract, Contract!Spec

=============================================================================
