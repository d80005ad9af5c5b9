---------------------------- MODULE MCApiKeyUsage ----------------------------
(* The small instances of ApiKeyUsage that TLC checks. *)
EXTENDS ApiKeyUsage, TLC

Symmetry == Permutations(Calls)
=============================================================================
