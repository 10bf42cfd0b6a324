----------------------------- MODULE StorageParser -----------------------------
(***************************************************************************)
(* The storage parser (storage/storage.go): a ticker loop that looks up    *)
(* one block header above its cursor and reads, one query after the other, *)
(* the protected addresses, the storage rows, those of the header and the  *)
(* transactions of the header.  It writes nothing, and the queries share   *)
(* no transaction.                                                         *)
(*                                                                         *)
(* The tables are external: nothing in the repository writes block_headers *)
(* in the end (see BatchStored of Synchronizer), so whoever fills it       *)
(* appends headers above those that are there.                             *)
(***************************************************************************)
EXTENDS Naturals, Sequences, FiniteSets

CONSTANTS
    StartHeight,   \* spConf.StartHeight
    BlockSize,     \* spConf.BlockSize
    MaxHeader,     \* bound: the highest header
    None           \* no header

ASSUME StorageParserAssumption ==
    /\ {StartHeight, MaxHeader} \subseteq Nat /\ BlockSize \in Nat \ {0}
    /\ None \notin Nat

VARIABLES
    blockHeaders,        \* table block_headers, the numbers of its rows
    latestBlockHeader,   \* sp.latestBlockHeader
    parser,              \* where the ticker goroutine is
    inspected,           \* the header of the tick, None outside of one
    history              \* history: the headers inspected so far

parserVars == <<blockHeaders, latestBlockHeader, parser, inspected, history>>

Queries == <<"addresses", "storage", "storageWithHeader", "txs">>

ParserInit ==
    /\ blockHeaders \in SUBSET (StartHeight..MaxHeader)
    /\ latestBlockHeader = None
    /\ parser = "off" /\ inspected = None /\ history = {}

StoreBlockHeaders ==
    /\ \E n \in 0..MaxHeader :
          /\ \A h \in blockHeaders : h < n
          /\ blockHeaders' = blockHeaders \cup {n}
    /\ UNCHANGED <<latestBlockHeader, parser, inspected, history>>

ParserStart ==
    /\ parser = "off"
    /\ parser' = "ticker"
    /\ UNCHANGED <<blockHeaders, latestBlockHeader, inspected, history>>

LastBlockNumber == IF latestBlockHeader = None THEN StartHeight ELSE latestBlockHeader

Above == {h \in blockHeaders : h > LastBlockNumber}

\* Bug form: the newest header rather than one of the next ones.
LatestHeaderScopeDescending(h) == h \in Above /\ \A g \in Above : g <= h

\* The highest of the first BlockSize headers above the last block number.
LatestHeaderScope(h) ==
    LET InScope(g) == g \in Above /\ Cardinality({f \in Above : f < g}) < BlockSize
    IN  InScope(h) /\ \A g \in Above : InScope(g) => g <= h

\* The header found is a variable of the function: the cursor stays.
FindHeader ==
    /\ parser = "ticker"
    /\ \E h \in blockHeaders :
          /\ LatestHeaderScope(h)
          /\ inspected' = h
          /\ history' = history \cup {h}
    /\ parser' = Queries[1]
    /\ UNCHANGED <<blockHeaders, latestBlockHeader>>

NoNewHeader ==
    /\ parser = "ticker" /\ \A h \in blockHeaders : ~LatestHeaderScope(h)
    /\ UNCHANGED parserVars

\* The next query, or the end of the tick.
Query ==
    /\ \E k \in DOMAIN Queries :
          /\ parser = Queries[k]
          /\ IF k = Len(Queries) THEN parser' = "ticker" /\ inspected' = None
             ELSE parser' = Queries[k + 1] /\ UNCHANGED inspected
    /\ UNCHANGED <<blockHeaders, latestBlockHeader, history>>

\* Any of the queries fails, and the error ends the loop.
QueryFails ==
    /\ parser \notin {"off", "failed"}
    /\ parser' = "failed" /\ inspected' = None
    /\ UNCHANGED <<blockHeaders, latestBlockHeader, history>>

ParserNext == FindHeader \/ NoNewHeader \/ Query \/ QueryFails

ParserTypeOK ==
    /\ blockHeaders \subseteq 0..MaxHeader
    /\ latestBlockHeader \in 0..MaxHeader \cup {None}
    /\ parser \in {"off", "ticker", "failed"} \cup {Queries[k] : k \in DOMAIN Queries}
    /\ inspected \in 0..MaxHeader \cup {None}
    /\ history \subseteq 0..MaxHeader
=============================================================================
