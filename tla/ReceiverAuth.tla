---------------------------- MODULE ReceiverAuth ----------------------------
(***************************************************************************)
(* The kiosk's replay protection: RequestAuthenticator.verify              *)
(* (bmo/features/imessage_relay/receiver/auth.py) and reserve_nonce        *)
(* (receiver/store.py), as ReceiverApplication.handle calls them from the  *)
(* threads of its HTTP server.                                             *)
(*                                                                         *)
(* A handler reads the wall clock twice: to verify the timestamp, and,     *)
(* later, to reserve the nonce and drop the old ones.  Between the two it  *)
(* may wait for the store's lock, and the clock may be stepped back.       *)
(* RelayDelivery takes what is shown here for granted: no request is       *)
(* processed twice.                                                        *)
(***************************************************************************)
EXTENDS Integers

CONSTANTS
  Nonce,     \* the requests, each signed with a fresh nonce
  Handler,   \* threads of the HTTP server
  Skew,      \* max_clock_skew_seconds
  MaxStall,  \* a handler reserves at most this long after it verified
  MaxBack,   \* the clock is stepped back by at most this much altogether
  MaxTime,   \* bound on the clock
  NoNonce    \* of a thread that works on nothing

\* What is assumed of the host: neither a stall nor the steps of the clock
\* exceed the window by more than a second (300 s by default, against 10 s of
\* request_timeout_seconds).
ASSUME TimingAssumption ==
  /\ Skew \in Nat \ {0}
  /\ MaxStall \in 0 .. Skew + 1
  /\ MaxBack \in 0 .. Skew + 1
  /\ MaxTime \in Nat
  /\ NoNonce \notin Nonce

VARIABLES
  clock,     \* the kiosk's clock, as int(time.time()) reads it
  back,      \* how far the clock has been stepped back in all
  signed,    \* the timestamp of each request
  handler,   \* per thread, the request it verified and has not reserved
  age,       \* how long ago it verified it
  stored,    \* authentication_nonces
  accepted   \* history: how often each nonce was reserved

vars == <<clock, back, signed, handler, age, stored, accepted>>

Busy(h) == handler[h] # NoNonce

Init ==
  /\ clock \in 0 .. MaxTime
  /\ back = 0
  /\ signed \in [Nonce -> 0 .. MaxTime]
  /\ handler = [h \in Handler |-> NoNonce] /\ age = [h \in Handler |-> 0]
  /\ stored = {}
  /\ accepted = [n \in Nonce |-> 0]

\* verify: the timestamp is within the window of the clock.
Distance(a, b) == IF a >= b THEN a - b ELSE b - a

\* Any copy of any request, the first or a late or a repeated one.
Verify(h, n) ==
  /\ ~Busy(h)
  /\ Distance(clock, signed[n]) <= Skew
  /\ handler' = [handler EXCEPT ![h] = n]
  /\ age' = [age EXCEPT ![h] = 0]
  /\ UNCHANGED <<clock, back, signed, stored, accepted>>

\* handle keeps a nonce for twice the window and a second.
TwiceTheWindow == Skew * 2
Retention == Skew * 2 + 1

Kept == {n \in stored : signed[n] >= clock - Retention}

\* reserve_nonce: drop the old nonces and insert this one, or raise
\* ReplayError and roll both back.
Reserve(h) ==
  LET n == handler[h]
  IN  /\ Busy(h)
      /\ IF n \in Kept
         THEN UNCHANGED <<stored, accepted>>
         ELSE /\ stored' = Kept \cup {n}
              /\ accepted' = [accepted EXCEPT ![n] = @ + 1]
      /\ handler' = [handler EXCEPT ![h] = NoNonce]
      /\ UNCHANGED <<clock, back, signed, age>>

\* The receiver restarts: what it was working on is lost, its store is not.
Restart ==
  /\ \E h \in Handler : Busy(h)
  /\ handler' = [h \in Handler |-> NoNonce]
  /\ UNCHANGED <<clock, back, signed, age, stored, accepted>>

Tick ==
  /\ clock < MaxTime
  /\ \A h \in Handler : Busy(h) => age[h] < MaxStall
  /\ clock' = clock + 1
  /\ age' = [h \in Handler |-> IF Busy(h) THEN age[h] + 1 ELSE age[h]]
  /\ UNCHANGED <<back, signed, handler, stored, accepted>>

StepBack(d) ==
  /\ back + d <= MaxBack /\ d <= clock
  /\ back' = back + d
  /\ clock' = clock - d
  /\ UNCHANGED <<signed, handler, age, stored, accepted>>

Next ==
  \/ \E h \in Handler : Reserve(h) \/ \E n \in Nonce : Verify(h, n)
  \/ Restart
  \/ Tick
  \/ \E d \in 1 .. MaxBack : StepBack(d)

Spec == Init /\ [][Next]_vars
-----------------------------------------------------------------------------
\* A request is accepted at most once, however many copies of it arrive, on
\* however many threads, however late, and whether or not the receiver
\* restarts or its clock is stepped between two of them.
AtMostOnce == \A n \in Nonce : accepted[n] <= 1

\* Types; and a nonce forgotten by the store is one no clock will verify.
AuthTypeOK ==
  /\ clock \in 0 .. MaxTime /\ back \in 0 .. MaxBack
  /\ signed \in [Nonce -> 0 .. MaxTime]
  /\ handler \in [Handler -> Nonce \cup {NoNonce}]
  /\ age \in [Handler -> 0 .. MaxStall]
  /\ stored \subseteq Nonce
  /\ accepted \in [Nonce -> Nat]
  /\ \A n \in Nonce \ stored :
       accepted[n] > 0 => clock - signed[n] > Skew

\* What the receiver's authentication promises of every copy of a request.
AuthIsSafe == AuthTypeOK /\ AtMostOnce
=============================================================================
