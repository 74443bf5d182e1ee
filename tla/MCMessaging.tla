----------------------------- MODULE MCMessaging -----------------------------
(* One message and three outbox rows: messages, retries and events.  The    *)
(* first row cannot be delivered, and with it two rows do not fit into a    *)
(* batch.                                                                   *)
EXTENDS Messaging, TLC

CONSTANTS w1, w2, r1, r2, m1
=============================================================================
