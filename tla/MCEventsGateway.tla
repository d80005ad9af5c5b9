---------------------------- MODULE MCEventsGateway ----------------------------
(* The small instance of EventsGateway, and with it of ApiKeyUsage.         *)
EXTENDS EventsGateway, TLC

Symmetry == Permutations(Calls)
=============================================================================
