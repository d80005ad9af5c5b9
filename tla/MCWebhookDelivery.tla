------------------------- MODULE MCWebhookDelivery -------------------------
(* The small instances of WebhookDelivery that TLC checks: one event and   *)
(* two webhooks, so that a failing one is followed by another; one of them *)
(* is not retried.                                                         *)
EXTENDS WebhookDelivery, TLC

CONSTANTS w1, w2

MCRetries == w1 :> 0 @@ w2 :> 3
=============================================================================
