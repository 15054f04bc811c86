--------------------------- MODULE MCWebhookRecovery ---------------------------
(* Instances of WebhookRecovery: two requests and two services, or one of each. *)
EXTENDS WebhookRecovery, TLC
CONSTANTS h1, h2, sa, sb
================================================================================
