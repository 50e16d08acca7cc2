-------------------------- MODULE ReliableDelivery --------------------------
(***************************************************************************)
(* What the relay promises of the events it has discovered: an event is    *)
(* settled as delivered only if the kiosk durably received it, and as dead *)
(* only by giving up on an event that was still pending.  A kiosk may lose *)
(* its receipts, and a settled event may be reopened to be sent again.     *)
(***************************************************************************)
CONSTANTS Event

VARIABLES
  received,   \* events the kiosk holds
  confirmed,  \* events the kiosk has held at some time
  settled     \* "pending", "delivered" or "dead", per event

vars == <<received, confirmed, settled>>

Init ==
  /\ received = {}
  /\ confirmed = {}
  /\ settled = [e \in Event |-> "pending"]

Receive(e) ==
  /\ received' = received \cup {e}
  /\ confirmed' = confirmed \cup {e}
  /\ UNCHANGED settled

Lose ==
  /\ received' = {}
  /\ UNCHANGED <<confirmed, settled>>

Deliver(e) ==
  /\ settled[e] # "delivered"
  /\ e \in confirmed
  /\ settled' = [settled EXCEPT ![e] = "delivered"]
  /\ UNCHANGED <<received, confirmed>>

\* Giving up settles one or more pending events, for leases expire together.
GiveUp(events) ==
  /\ events # {}
  /\ \A e \in events : settled[e] = "pending"
  /\ settled' = [e \in Event |-> IF e \in events THEN "dead" ELSE settled[e]]
  /\ UNCHANGED <<received, confirmed>>

Reopen(e) ==
  /\ settled[e] # "pending"
  /\ settled' = [settled EXCEPT ![e] = "pending"]
  /\ UNCHANGED <<received, confirmed>>

Next ==
  \/ Lose
  \/ \E e \in Event : Receive(e) \/ Deliver(e) \/ Reopen(e)
  \/ \E events \in SUBSET Event : GiveUp(events)

Spec == Init /\ [][Next]_vars
=============================================================================
