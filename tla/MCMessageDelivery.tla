------------------------- MODULE MCMessageDelivery -------------------------
(* Small instances of MessageDelivery for TLC: two sessions whose accounts  *)
(* hold a message under the same id.                                        *)
EXTENDS MessageDelivery, TLC

CONSTANTS m1, m2, s1, s2, x

MCMessages  == {m1, m2}
MCSessionOf == m1 :> s1 @@ m2 :> s2
MCIdOf      == m1 :> x @@ m2 :> x
=============================================================================
