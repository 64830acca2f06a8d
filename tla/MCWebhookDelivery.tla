------------------------- MODULE MCWebhookDelivery -------------------------
(* A small instance of WebhookDelivery; the configuration gives every value. *)
EXTENDS WebhookDelivery
=============================================================================
