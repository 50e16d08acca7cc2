---------------------------- MODULE MCRelayQueue ----------------------------
(* Instances of RelayQueue for TLC. *)
EXTENDS RelayQueue, RetryPolicy, TLC

CONSTANTS InitialDelay, Multiplier, MaxDelay

MCRetryDelay ==
  [n \in 1 .. MaxAttempts |->
     DelayAfterAttempt([initial |-> InitialDelay, multiplier |-> Multiplier,
                        max |-> MaxDelay], n)]

ObserverSymmetry == Permutations(Observer)
=============================================================================
