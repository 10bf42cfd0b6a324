---------------------------- MODULE AutoPatchProofs ----------------------------
(***************************************************************************)
(* What the daemon's life cycle keeps for every start height, window and   *)
(* chain of headers: its types and where the parser's cursor stands.       *)
(***************************************************************************)
EXTENDS AutoPatch, TLAPS

\* Nothing moves the cursor, and every header inspected has a row.
CursorInv ==
    /\ latestBlockHeader = None
    /\ history \subseteq blockHeaders
    /\ CursorStands

IInv == TypeOK /\ CursorInv

-----------------------------------------------------------------------------
(* The parser's steps *)

\* The header a tick inspects is one of the first BlockSize above StartHeight,
\* and the rows below it stay what they are.
LEMMA FindHeaderKeepsCursor ==
    ASSUME TypeOK, CursorInv, FindHeader
    PROVE  CursorInv'
<1>1. PICK h \in blockHeaders : LatestHeaderScope(h) /\ history' = history \cup {h}
    BY DEF FindHeader
<1>2. UNCHANGED <<blockHeaders, latestBlockHeader>>
    BY DEF FindHeader
<1>3. LastBlockNumber = StartHeight
    BY DEF CursorInv, LastBlockNumber
<1>4. h > StartHeight /\ Cardinality({f \in Above : f < h}) < BlockSize
    BY <1>1, <1>3 DEF LatestHeaderScope, Above
<1>5. {f \in Above : f < h} = {g \in blockHeaders : StartHeight < g /\ g < h}
    BY <1>3, StorageParserAssumption DEF Above, TypeOK, ParserTypeOK
<1> QED
    BY <1>1, <1>2, <1>4, <1>5 DEF CursorInv, CursorStands

\* Rows above those that are there leave the windows below them alone.
LEMMA StoreKeepsCursor ==
    ASSUME TypeOK, CursorInv, StoreBlockHeaders
    PROVE  CursorInv'
<1>1. PICK n \in 0..MaxHeader :
        (\A h \in blockHeaders : h < n) /\ blockHeaders' = blockHeaders \cup {n}
    BY DEF StoreBlockHeaders
<1>2. UNCHANGED <<latestBlockHeader, history>>
    BY DEF StoreBlockHeaders
<1>3. ASSUME NEW h \in history
      PROVE  {g \in blockHeaders' : StartHeight < g /\ g < h}
               = {g \in blockHeaders : StartHeight < g /\ g < h}
    <2>1. h \in blockHeaders /\ h < n
        BY <1>1, <1>3 DEF CursorInv
    <2>2. ~(n < h)
        BY <1>1, <2>1, StorageParserAssumption DEF TypeOK, ParserTypeOK
    <2> QED
        BY <1>1, <2>2
<1> QED
    BY <1>1, <1>2, <1>3 DEF CursorInv, CursorStands

-----------------------------------------------------------------------------
(* The invariant *)

LEMMA InitIInv == Init => IInv
<1> SUFFICES ASSUME Init PROVE IInv
    OBVIOUS
<1>1. TypeOK
    <2>1. StartHeight..MaxHeader \subseteq 0..MaxHeader
        BY StorageParserAssumption
    <2>2. blockHeaders \subseteq 0..MaxHeader
        BY <2>1 DEF Init, ParserInit
    <2> QED
        BY <2>2 DEF Init, ParserInit, TypeOK, ParserTypeOK
<1>2. CursorInv
    BY DEF Init, ParserInit, CursorInv, CursorStands
<1> QED
    BY <1>1, <1>2 DEF IInv

LEMMA NextTypeOK == TypeOK /\ [Next]_vars => TypeOK'
<1> SUFFICES ASSUME TypeOK, [Next]_vars PROVE TypeOK'
    OBVIOUS
<1> USE DEF TypeOK, ParserTypeOK
<1>1. CASE NewAutoPatch \/ NewAutoPatchFails \/ HostCancels \/ StopBegins \/ StorageParserClose
    BY <1>1 DEF NewAutoPatch, NewAutoPatchFails, HostCancels, StopBegins, StorageParserClose, parserVars
<1>2. CASE Start
    BY <1>2 DEF Start, ParserStart, parserVars
<1>3. CASE Exit \/ Killed
    BY <1>3 DEF Exit, Killed
<1>4. CASE ParserNext /\ UNCHANGED daemonVars
    <2>1. CASE FindHeader
        BY <1>4, <2>1 DEF FindHeader, Queries, daemonVars
    <2>2. CASE NoNewHeader
        BY <1>4, <2>2 DEF NoNewHeader, parserVars, daemonVars
    <2>3. CASE Query
        BY <1>4, <2>3 DEF Query, Queries, daemonVars
    <2>4. CASE QueryFails
        BY <1>4, <2>4 DEF QueryFails, daemonVars
    <2> QED
        BY <1>4, <2>1, <2>2, <2>3, <2>4 DEF ParserNext
<1>5. CASE StoreBlockHeaders /\ UNCHANGED daemonVars
    BY <1>5 DEF StoreBlockHeaders, daemonVars
<1>6. CASE UNCHANGED vars
    BY <1>6 DEF vars, daemonVars, parserVars
<1> QED
    BY <1>1, <1>2, <1>3, <1>4, <1>5, <1>6 DEF Next

LEMMA NextCursorInv == TypeOK /\ CursorInv /\ [Next]_vars => CursorInv'
<1> SUFFICES ASSUME TypeOK, CursorInv, [Next]_vars PROVE CursorInv'
    OBVIOUS
<1>1. CASE FindHeader
    BY <1>1, FindHeaderKeepsCursor
<1>2. CASE StoreBlockHeaders
    BY <1>2, StoreKeepsCursor
<1>3. CASE UNCHANGED <<blockHeaders, latestBlockHeader, history>>
    BY <1>3 DEF CursorInv, CursorStands
<1> QED
    BY <1>1, <1>2, <1>3
    DEF Next, NewAutoPatch, NewAutoPatchFails, Start, ParserStart, HostCancels, StopBegins,
        StorageParserClose, Exit, Killed, ParserNext, NoNewHeader, Query, QueryFails,
        vars, parserVars

\* The inductive invariant of the daemon holds of every behaviour.
THEOREM Invariance == Spec => []IInv
<1>1. IInv /\ [Next]_vars => IInv'
    BY NextTypeOK, NextCursorInv DEF IInv
<1> QED
    BY <1>1, InitIInv, PTL DEF Spec

\* Every variable of the daemon and of the parser keeps its type.
THEOREM TypeCorrect == Spec => []TypeOK
<1>1. IInv => TypeOK
    BY DEF IInv
<1> QED
    BY <1>1, Invariance, PTL

\* The parser never inspects a header beyond the first BlockSize above
\* StartHeight, for any of them and however headers are stored
\* (storage.go:60-68).
THEOREM CursorNeverMoves == Spec => []CursorStands
<1>1. IInv => CursorStands
    BY DEF IInv, CursorInv
<1> QED
    BY <1>1, Invariance, PTL
=============================================================================
