---------------------------- MODULE MCBulkBatch ----------------------------
(* Small instances of BulkBatch for TLC. *)
EXTENDS BulkBatch, TLC

Symmetry == Permutations(Cancellers)
=============================================================================
