-------------------------- MODULE MCWebhookDelivery -------------------------
(* Small instances of WebhookDelivery and WebhookPromises for TLC. *)
EXTENDS WebhookPromises

CONSTANTS w1, w2, d1, d2, y1, y2, u1, u2
=============================================================================
