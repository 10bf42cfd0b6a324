--------------------------- MODULE MCSynchronizer --------------------------
(* The synchronizer over a short chain that reorganises, for TLC. *)
EXTENDS Synchronizer

\* The third block of the first branch, and the second of the other.
MCTxBlocks == {<<0, 0, 0>>, <<0, 1>>}
=============================================================================
