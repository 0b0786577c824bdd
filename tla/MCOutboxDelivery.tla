-------------------------- MODULE MCOutboxDelivery --------------------------
(* Workers and consumers composed over a small queue.                      *)
EXTENDS OutboxDelivery, TLC

MCQuarantine == [w \in Workers |-> "Quarantine"]
=============================================================================
