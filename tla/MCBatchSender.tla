--------------------------- MODULE MCBatchSender ---------------------------
(* The batch sender with two requests, for TLC. *)
EXTENDS BatchSender

CONSTANTS r1, r2

\* A package with two updates, and one with a single one.
MCUpdates == [r \in Requests |-> IF r = r1 THEN 2 ELSE 1]

=============================================================================
