---------------------------- MODULE StoreContract ----------------------------
(***************************************************************************)
(* What the synchronizer promises whoever reads its rows, without ticks,   *)
(* ranges, parsers and retries: a run takes blocks of growing height in    *)
(* hand, one at a time; every row is labelled with the block in hand; and  *)
(* a living process lets a block go only with its row stored, or for a     *)
(* higher one.  Rows are never changed or removed, by a crash neither.     *)
(***************************************************************************)
EXTENDS Naturals, Sequences

CONSTANTS
    NoBlock,   \* no block in hand
    Unread     \* stands for a word of storage that could not be read

VARIABLES
    up,        \* the process lives
    run,       \* how often it was started
    inHand,    \* the block whose storage is being stored
    gone,      \* the blocks that a reorg took off the chain
    rows       \* what is stored: [block, words, run]

vars == <<up, run, inHand, gone, rows>>

RowsOf(r) == {row \in rows : row.run = r}

Init ==
    /\ up = FALSE /\ run = 0
    /\ inHand = NoBlock
    /\ gone = {} /\ rows = {}

StartRun ==
    /\ ~up
    /\ up' = TRUE /\ run' = run + 1
    /\ UNCHANGED <<inHand, gone, rows>>

Die ==
    /\ up
    /\ up' = FALSE /\ inHand' = NoBlock
    /\ UNCHANGED <<run, gone, rows>>

Reorganise ==
    /\ gone \subseteq gone'
    /\ UNCHANGED <<up, run, inHand, rows>>

\* The next block, above the one in hand and above all that this run stored.
Take ==
    /\ up
    /\ inHand' # NoBlock
    /\ inHand # NoBlock => Len(inHand) < Len(inHand')
    /\ \A row \in RowsOf(run) : Len(row.block) < Len(inHand')
    /\ UNCHANGED <<up, run, gone, rows>>

\* Words of storage, each of the block in hand, of a descendant, or unread.
Put ==
    /\ up /\ inHand # NoBlock
    /\ \E row \in rows' :
          /\ rows' = rows \cup {row}
          /\ row.block = inHand /\ row.run = run
          /\ inHand \notin gone => \A i \in DOMAIN row.words :
                \/ row.words[i] = Unread
                \/ SubSeq(row.words[i], 1, Len(inHand)) = inHand
    /\ UNCHANGED <<up, run, inHand, gone>>

LetGo ==
    /\ up /\ inHand # NoBlock
    /\ \E row \in RowsOf(run) : row.block = inHand
    /\ inHand' = NoBlock
    /\ UNCHANGED <<up, run, gone, rows>>

Next == StartRun \/ Die \/ Reorganise \/ Take \/ Put \/ LetGo

Spec == Init /\ [][Next]_vars

=============================================================================
