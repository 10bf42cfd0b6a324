---------------------------- MODULE MCTxManager ----------------------------
(* Send with a handful of attempts, for TLC. *)
EXTENDS TxManager, TLC

\* Attempts are interchangeable, and so are hashes.
Symmetry == Permutations(Attempts) \cup Permutations(Hashes)

=============================================================================
