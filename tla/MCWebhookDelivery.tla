-------------------------- MODULE MCWebhookDelivery --------------------------
(***************************************************************************)
(* Small instances of WebhookDelivery for TLC.  The .cfg files choose the  *)
(* hooks, the submissions, the kinds of trouble and the race windows.      *)
(***************************************************************************)
EXTENDS WebhookDelivery

CONSTANTS h1, h2, r1, t1, w1, w2
=============================================================================
