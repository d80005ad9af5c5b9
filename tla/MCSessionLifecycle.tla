------------------------- MODULE MCSessionLifecycle -------------------------
(* Small instances of SessionLifecycle for TLC. *)
EXTENDS SessionLifecycle, TLC

(* Engine incarnations, and the slots of each kind of call, are alike.      *)
Symmetry == Permutations(Engines) \cup Permutations(Calls) \cup Permutations(Reconnects)
=============================================================================
