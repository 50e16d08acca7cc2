---------------------------- MODULE RetryPolicy ----------------------------
(***************************************************************************)
(* The backoff of bmo/features/imessage_relay/relay/state.py, RetryPolicy: *)
(* delay_after_attempt computes the delay by a loop that stops at the cap. *)
(***************************************************************************)
EXTENDS Integers

\* The loop: doubling (or multiplying) from the initial delay, never beyond
\* max_delay_ms; delays[n] is the delay after attempt n of a retry cycle.
DelayAfterAttempt(policy, attempt) ==
  LET Grown(delay) == IF delay * policy.multiplier <= policy.max
                      THEN delay * policy.multiplier ELSE policy.max
      delays[n \in 1 .. attempt] ==
        IF n = 1 THEN policy.initial
        ELSE IF delays[n - 1] >= policy.max THEN policy.max
        ELSE Grown(delays[n - 1])
  IN  IF policy.multiplier = 1 THEN policy.initial ELSE delays[attempt]
=============================================================================
