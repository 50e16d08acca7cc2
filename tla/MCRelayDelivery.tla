-------------------------- MODULE MCRelayDelivery --------------------------
(* Instances of RelayDelivery for TLC. *)
EXTENDS RelayDelivery, TLC

CONSTANT Delay

MCRetryDelay == [n \in 1 .. MaxAttempts |-> Delay]
SenderSymmetry == Permutations(Sender)
=============================================================================
