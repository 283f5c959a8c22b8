----------------------------- MODULE MCMqNotify -----------------------------
(* mq-notify with a few runs of mq-send.                                   *)
EXTENDS MqNotify

=============================================================================
