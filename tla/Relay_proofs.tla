----------------------------- MODULE Relay_proofs -----------------------------
(* What holds of the relay for every number of rows, observers, senders and *)
(* attempts.                                                                *)
(*                                                                          *)
(* RelayQueue: delivery and discovery are proved apart.  Each invariant is  *)
(* inductive with the type invariant alone, because no action changes the   *)
(* variables of both but CommitBatch, which only queues absent rows.        *)
(*                                                                          *)
(* RelayDelivery implements ReliableDelivery, whatever the kiosk loses and  *)
(* the reconciler is shown.  The invariant is the queue's with RelayTypeOK, *)
(* whose last conjuncts say that answers and receipts speak of confirmed    *)
(* events.                                                                  *)
EXTENDS RelayDelivery, TLAPS, FiniteSetTheorems

(***************************************************************************)
(* The queue                                                               *)
(***************************************************************************)

\* The conjuncts of TypeOK about discovery and about delivery.
DiscoveryTypeOK ==
  /\ inserted \in 0 .. RowCount
  /\ deleted \subseteq Row
  /\ joined \subseteq Row
  /\ version \in [Row -> 0 .. MaxVersion]
  /\ batch \in [Observer ->
       [live : BOOLEAN, after : 0 .. RowCount, through : 0 .. RowCount,
        rows : SUBSET Row, good : SUBSET Row, seen : [Row -> 0 .. MaxVersion]]]
  /\ cursor \in 0 .. RowCount
  /\ issues \in [Row -> 0 .. MaxIssues]
  /\ payload \in [Row -> 0 .. MaxVersion]

DeliveryTypeOK ==
  /\ status \in [Row -> QueueStatus]
  /\ cycle \in [Row -> Nat]
  /\ current \in [Row -> Nat]
  /\ wait \in [Row -> Nat]
  /\ lease \in [Row -> Nat]
  /\ outcome \in [Row -> Seq(AttemptOutcome)]

\* Delivery's invariant, row by row: an action that settles one row leaves
\* every other row's part alone.
RowInv(r) ==
  /\ \A n \in 1 .. Attempts(r) :
       outcome[r][n] = "in_flight" <=> status[r] = "in_flight" /\ current[r] = n
  /\ status[r] = "in_flight" => current[r] = Attempts(r) /\ Attempts(r) > 0
  /\ status[r] = "absent" => Attempts(r) = 0
  /\ status[r] = "acknowledged" => Attempts(r) > 0 /\ Last(r) = "acknowledged"
  /\ status[r] \in {"retry_wait", "dead_letter"} =>
       Attempts(r) > 0 /\ Last(r) \in {"failed", "lease_expired"}
  /\ cycle[r] <= MaxAttempts /\ cycle[r] <= Attempts(r)
  /\ status[r] \in {"absent", "queued"} => cycle[r] = 0
  /\ status[r] = "in_flight" => cycle[r] > 0
  /\ status[r] = "retry_wait" => cycle[r] \in 1 .. MaxAttempts - 1
  /\ status[r] = "dead_letter" => cycle[r] = MaxAttempts
  /\ ColumnsOK(r)

DeliveryInv == DeliveryTypeOK /\ \A r \in Row : RowInv(r)

\* Discovery's invariant.  A batch covers the rows between its ends, which is
\* what CommitBatch needs before it may advance the cursor past them.
BatchInv(b) ==
  /\ b.after <= b.through
  /\ b.good \subseteq b.rows
  /\ \A r \in b.after + 1 .. b.through : r \in b.rows \/ r \in deleted

DiscoveryInv ==
  /\ DiscoveryTypeOK
  /\ \A o \in Observer : BatchInv(batch[o])
  /\ CursorNeverAhead

LEMMA TypeSplits ==
  TypeOK <=> DiscoveryTypeOK /\ DeliveryTypeOK /\ \A r \in Row : ColumnsOK(r)
  BY DEF TypeOK, DiscoveryTypeOK, DeliveryTypeOK

LEMMA ColumnsFollow == DeliveryInv => \A r \in Row : ColumnsOK(r)
  BY DEF DeliveryInv, RowInv

LEMMA InvImpliesProperties ==
  DeliveryInv => OpenAttemptIsCurrent /\ HistoryExplainsStatus /\ RetryBudget
  BY DEF DeliveryInv, RowInv, OpenAttemptIsCurrent, HistoryExplainsStatus, RetryBudget
-----------------------------------------------------------------------------
(* Delivery.                                                               *)

LEMMA DeliveryStarts == Init => DeliveryInv
  <1> SUFFICES ASSUME Init PROVE DeliveryInv
    OBVIOUS
  <1>1. DeliveryTypeOK
    BY DEF Init, DeliveryTypeOK, QueueStatus
  <1>2. \A r \in Row : RowInv(r)
    BY ConstantsAssumption DEF Init, RowInv, ColumnsOK, Attempts, ConstantsAssumption
  <1> QED BY <1>1, <1>2 DEF DeliveryInv

\* An action that touches no delivery variable but to queue absent rows.
LEMMA DeliveryKept ==
  ASSUME DeliveryInv,
         NEW new \in SUBSET Row, \A r \in new : status[r] = "absent",
         status' = [r \in Row |-> IF r \in new THEN "queued" ELSE status[r]],
         UNCHANGED <<cycle, current, wait, lease, outcome>>
  PROVE  DeliveryInv'
  <1>1. DeliveryTypeOK'
    BY DEF DeliveryInv, DeliveryTypeOK, QueueStatus
  <1>2. ASSUME NEW r \in Row PROVE RowInv(r)'
    <2>1. RowInv(r)
      BY DEF DeliveryInv
    <2>2. CASE r \in new
      BY <2>1, <2>2 DEF RowInv, ColumnsOK, Attempts, Last
    <2>3. CASE r \notin new
      BY <2>1, <2>3 DEF RowInv, ColumnsOK, Attempts, Last
    <2> QED BY <2>2, <2>3
  <1> QED BY <1>1, <1>2 DEF DeliveryInv

LEMMA DeliveryUnchanged ==
  ASSUME DeliveryInv, UNCHANGED deliveryVars
  PROVE  DeliveryInv'
  BY DEF DeliveryInv, DeliveryTypeOK, RowInv, ColumnsOK, Attempts, Last, deliveryVars

\* The delay after an attempt of a cycle that is not exhausted is a number.
LEMMA FailureIsTyped ==
  ASSUME DeliveryInv, NEW r \in Row, status[r] = "in_flight"
  PROVE  /\ FailedStatus(r) \in {"retry_wait", "dead_letter"}
         /\ FailedWait(r) \in Nat
         /\ FailedStatus(r) = "dead_letter" => FailedWait(r) = 0
         /\ FailedStatus(r) = "retry_wait" => cycle[r] \in 1 .. MaxAttempts - 1
         /\ FailedStatus(r) = "dead_letter" => cycle[r] = MaxAttempts
  <1>1. cycle[r] \in 1 .. MaxAttempts
    BY ConstantsAssumption
    DEF DeliveryInv, DeliveryTypeOK, RowInv, ConstantsAssumption
  <1>2. RetryDelay[cycle[r]] \in Nat
    BY <1>1, ConstantsAssumption DEF ConstantsAssumption
  <1> QED
    BY <1>1, <1>2, ConstantsAssumption
    DEF FailedStatus, FailedWait, Exhausted, ConstantsAssumption

\* Rewriting one outcome keeps the history a history.
LEMMA SettledHistory ==
  ASSUME NEW s \in Seq(AttemptOutcome), NEW n \in 1 .. Len(s),
         NEW x \in AttemptOutcome
  PROVE  LET t == [s EXCEPT ![n] = x]
         IN  /\ t \in Seq(AttemptOutcome)
             /\ Len(t) = Len(s)
             /\ \A m \in 1 .. Len(s) : t[m] = IF m = n THEN x ELSE s[m]
  OBVIOUS

\* A row none of whose delivery columns changes keeps its invariant.
LEMMA OtherRow ==
  ASSUME NEW q \in Row, RowInv(q),
         status'[q] = status[q], cycle'[q] = cycle[q],
         current'[q] = current[q], outcome'[q] = outcome[q],
         wait'[q] = wait[q], lease'[q] = lease[q]
  PROVE  RowInv(q)'
  BY DEF RowInv, ColumnsOK, Attempts, Last

LEMMA RecordFailureKeepsInv ==
  ASSUME DeliveryInv, NEW r \in Row, NEW n \in 1 .. Attempts(r), RecordFailure(r, n)
  PROVE  DeliveryInv'
  <1> DEFINE t == [outcome[r] EXCEPT ![n] = "failed"]
  <1>1. /\ outcome[r] \in Seq(AttemptOutcome)
        /\ n \in 1 .. Len(outcome[r]) /\ n = Attempts(r)
        /\ outcome[r][n] = "in_flight" /\ status[r] = "in_flight"
    BY DEF DeliveryInv, DeliveryTypeOK, RowInv, RecordFailure, OpenAttempt, Attempts
  <1>2. outcome' = [outcome EXCEPT ![r] = t]
    BY DEF RecordFailure, Settled
  <1>3. /\ t \in Seq(AttemptOutcome) /\ Len(t) = Len(outcome[r])
        /\ \A m \in 1 .. Len(outcome[r]) :
             t[m] = IF m = n THEN "failed" ELSE outcome[r][m]
    BY <1>1, SettledHistory DEF AttemptOutcome
  <1> HIDE DEF t
  <1>4. DeliveryTypeOK'
    BY <1>1, <1>2, <1>3, FailureIsTyped
    DEF DeliveryInv, DeliveryTypeOK, RecordFailure, Released, QueueStatus
  <1>5. ASSUME NEW q \in Row PROVE RowInv(q)'
    <2>1. RowInv(q) /\ RowInv(r)
      BY DEF DeliveryInv
    <2>2. CASE q = r
      <3>1. /\ outcome'[r] = t /\ current'[r] = 0 /\ cycle'[r] = cycle[r]
            /\ status'[r] = FailedStatus(r)
            /\ lease'[r] = 0 /\ wait'[r] = FailedWait(r)
        BY <1>2 DEF DeliveryInv, DeliveryTypeOK, RecordFailure, Released
      <3>2. /\ FailedStatus(r) \in {"retry_wait", "dead_letter"}
            /\ FailedStatus(r) = "dead_letter" => FailedWait(r) = 0
            /\ FailedStatus(r) = "retry_wait" => cycle[r] \in 1 .. MaxAttempts - 1
            /\ FailedStatus(r) = "dead_letter" => cycle[r] = MaxAttempts
        BY <1>1, FailureIsTyped
      <3> QED
        BY <1>1, <1>3, <2>1, <2>2, <3>1, <3>2 DEF RowInv, ColumnsOK, Attempts, Last
    <2>3. CASE q # r
      BY <1>2, <2>1, <2>3, OtherRow
      DEF DeliveryInv, DeliveryTypeOK, RecordFailure, Released
    <2> QED BY <2>2, <2>3
  <1> QED BY <1>4, <1>5 DEF DeliveryInv

LEMMA AcknowledgeKeepsInv ==
  ASSUME DeliveryInv, NEW r \in Row, Acknowledge(r)
  PROVE  DeliveryInv'
  <1> DEFINE n == Attempts(r)
             t == [outcome[r] EXCEPT ![n] = "acknowledged"]
  <1>1. outcome[r] \in Seq(AttemptOutcome) /\ n = Len(outcome[r]) /\ n > 0
    BY DEF DeliveryInv, DeliveryTypeOK, Acknowledge, Attempts
  <1>2. outcome' = [outcome EXCEPT ![r] = t]
    BY DEF Acknowledge, Settled
  <1>3. /\ t \in Seq(AttemptOutcome) /\ Len(t) = Len(outcome[r])
        /\ \A m \in 1 .. Len(outcome[r]) :
             t[m] = IF m = n THEN "acknowledged" ELSE outcome[r][m]
    BY <1>1, SettledHistory DEF AttemptOutcome
  <1> HIDE DEF t
  <1>4. DeliveryTypeOK'
    BY <1>1, <1>2, <1>3 
    DEF DeliveryInv, DeliveryTypeOK, Acknowledge, Released, QueueStatus
  <1>5. ASSUME NEW q \in Row PROVE RowInv(q)'
    <2>1. RowInv(q) /\ RowInv(r)
      BY DEF DeliveryInv
    <2>2. CASE q = r
      <3>1. /\ outcome'[r] = t /\ current'[r] = 0 /\ cycle'[r] = cycle[r]
            /\ status'[r] = "acknowledged"
            /\ lease'[r] = 0 /\ wait'[r] = 0
        BY <1>2 DEF DeliveryInv, DeliveryTypeOK, Acknowledge, Released
      <3> QED
        BY <1>1, <1>3, <2>1, <2>2, <3>1 DEF RowInv, ColumnsOK, Attempts, Last
    <2>3. CASE q # r
      BY <1>2, <2>1, <2>3, OtherRow
      DEF DeliveryInv, DeliveryTypeOK, Acknowledge, Released
    <2> QED BY <2>2, <2>3
  <1> QED BY <1>4, <1>5 DEF DeliveryInv

LEMMA RequeueKeepsInv ==
  ASSUME DeliveryInv, NEW r \in Row,
         RequeueDeadLetter(r) \/ RequeueAcknowledged(r)
  PROVE  DeliveryInv'
  <1>1. /\ status[r] \in {"dead_letter", "acknowledged"}
        /\ status' = [status EXCEPT ![r] = "queued"]
        /\ wait' = [wait EXCEPT ![r] = 0]
        /\ cycle' = [cycle EXCEPT ![r] = 0]
        /\ UNCHANGED <<current, lease, outcome>>
    BY DEF RequeueDeadLetter, RequeueAcknowledged, Requeue
  <1>2. DeliveryTypeOK'
    BY <1>1 DEF DeliveryInv, DeliveryTypeOK, QueueStatus
  <1>3. ASSUME NEW q \in Row PROVE RowInv(q)'
    <2>1. RowInv(q) /\ Len(outcome[q]) \in Nat
      BY DEF DeliveryInv, DeliveryTypeOK
    <2>2. CASE q = r
      <3>1. /\ status'[r] = "queued" /\ cycle'[r] = 0
            /\ outcome'[r] = outcome[r] /\ current'[r] = current[r]
            /\ wait'[r] = 0 /\ lease'[r] = lease[r]
        BY <1>1 DEF DeliveryInv, DeliveryTypeOK
      <3> QED
        BY <1>1, <2>1, <2>2, <3>1, ConstantsAssumption
        DEF RowInv, ColumnsOK, Attempts, Last, ConstantsAssumption
    <2>3. CASE q # r
      BY <1>1, <2>1, <2>3, OtherRow DEF DeliveryInv, DeliveryTypeOK
    <2> QED BY <2>2, <2>3
  <1> QED BY <1>2, <1>3 DEF DeliveryInv

LEMMA TickKeepsInv ==
  ASSUME DeliveryInv, Tick
  PROVE  DeliveryInv'
  <1>1. DeliveryTypeOK'
    BY DEF DeliveryInv, DeliveryTypeOK, Tick, Less
  <1>2. \A r \in Row : RowInv(r)'
    <2> SUFFICES ASSUME NEW r \in Row PROVE RowInv(r)'
      OBVIOUS
    <2>1. /\ RowInv(r) /\ wait[r] \in Nat /\ lease[r] \in Nat
          /\ UNCHANGED <<status, cycle, current, outcome>>
          /\ wait'[r] = Less(wait[r]) /\ lease'[r] = Less(lease[r])
      BY DEF DeliveryInv, DeliveryTypeOK, Tick
    <2>2. ColumnsOK(r)'
      BY <2>1 DEF RowInv, ColumnsOK, Less
    <2> QED BY <2>1, <2>2 DEF RowInv, Attempts, Last
  <1> QED BY <1>1, <1>2 DEF DeliveryInv

\* Sweeping an expired lease closes the attempt it was for and no other.
LEMMA SweptHistory ==
  ASSUME DeliveryInv, NEW r \in Row
  PROVE  /\ Swept(r) \in Seq(AttemptOutcome)
         /\ Len(Swept(r)) = Len(outcome[r])
         /\ ~Expired(r) => Swept(r) = outcome[r]
         /\ Expired(r) =>
              \A m \in 1 .. Len(outcome[r]) :
                Swept(r)[m] = IF m = Len(outcome[r]) THEN "lease_expired"
                              ELSE outcome[r][m]
  <1>1. outcome[r] \in Seq(AttemptOutcome)
    BY DEF DeliveryInv, DeliveryTypeOK
  <1>2. CASE ~Expired(r)
    BY <1>1, <1>2 DEF Swept
  <1>3. CASE Expired(r)
    <2>1. /\ current[r] = Len(outcome[r]) /\ current[r] \in 1 .. Len(outcome[r])
          /\ outcome[r][current[r]] = "in_flight"
      BY <1>1, <1>3 DEF Expired, DeliveryInv, RowInv, Attempts
    <2>2. Swept(r) = [outcome[r] EXCEPT ![Len(outcome[r])] = "lease_expired"]
      BY <1>3, <2>1 DEF Swept
    <2> QED BY <1>1, <1>3, <2>1, <2>2, SettledHistory DEF AttemptOutcome
  <1> QED BY <1>2, <1>3

LEMMA ClaimKeepsInv ==
  ASSUME DeliveryInv, NEW claimed \in SUBSET Eligible, Claim(claimed)
  PROVE  DeliveryInv'
  <1>1. /\ \A r \in claimed : status[r] \in {"queued", "retry_wait"} /\ ~Expired(r)
        /\ claimed \subseteq Row
    BY DEF Eligible, Expired
  <1>2. \A r \in Row : /\ outcome[r] \in Seq(AttemptOutcome)
                       /\ Append(outcome[r], "in_flight") \in Seq(AttemptOutcome)
                       /\ Len(outcome[r]) \in Nat /\ cycle[r] \in Nat
    BY DEF DeliveryInv, DeliveryTypeOK, AttemptOutcome
  <1>3. DeliveryTypeOK'
    <2>1. status' \in [Row -> QueueStatus] /\ wait' \in [Row -> Nat]
      BY FailureIsTyped
      DEF Claim, Expired, DeliveryInv, DeliveryTypeOK, QueueStatus
    <2>2. cycle' \in [Row -> Nat] /\ current' \in [Row -> Nat] /\ lease' \in [Row -> Nat]
      BY <1>2, ConstantsAssumption
      DEF Claim, Attempts, DeliveryInv, DeliveryTypeOK, ConstantsAssumption
    <2>3. outcome' \in [Row -> Seq(AttemptOutcome)]
      BY <1>2, SweptHistory DEF Claim
    <2> QED BY <2>1, <2>2, <2>3 DEF DeliveryTypeOK
  <1>4. ASSUME NEW r \in Row PROVE RowInv(r)'
    <2>1. RowInv(r)
      BY DEF DeliveryInv
    <2>2. CASE r \in claimed
      <3>1. /\ status'[r] = "in_flight" /\ cycle'[r] = cycle[r] + 1
            /\ current'[r] = Len(outcome[r]) + 1
            /\ outcome'[r] = Append(outcome[r], "in_flight")
            /\ wait'[r] = wait[r] /\ wait[r] = 0
        BY <1>1, <2>2 DEF Claim, Attempts, Eligible
      <3>2. /\ Len(outcome'[r]) = Len(outcome[r]) + 1
            /\ \A m \in 1 .. Len(outcome[r]) : outcome'[r][m] = outcome[r][m]
            /\ outcome'[r][Len(outcome[r]) + 1] = "in_flight"
        BY <1>2, <3>1
      <3>3. \A m \in 1 .. Len(outcome[r]) : outcome[r][m] # "in_flight"
        BY <1>1, <2>1, <2>2 DEF RowInv, Attempts
      <3>4. cycle[r] + 1 \in 1 .. MaxAttempts /\ cycle[r] + 1 <= Len(outcome[r]) + 1
        BY <1>1, <1>2, <2>1, <2>2, ConstantsAssumption
        DEF RowInv, Attempts, ConstantsAssumption
      <3> QED BY <1>2, <3>1, <3>2, <3>3, <3>4 DEF RowInv, ColumnsOK, Attempts, Last
    <2>3. CASE r \notin claimed /\ Expired(r)
      <3>1. /\ status'[r] = FailedStatus(r) /\ cycle'[r] = cycle[r]
            /\ current'[r] = 0 /\ outcome'[r] = Swept(r)
            /\ lease'[r] = 0 /\ wait'[r] = FailedWait(r)
        BY <2>3 DEF Claim, Expired
      <3>2. /\ FailedStatus(r) \in {"retry_wait", "dead_letter"}
            /\ FailedStatus(r) = "dead_letter" => FailedWait(r) = 0
            /\ FailedStatus(r) = "retry_wait" => cycle[r] \in 1 .. MaxAttempts - 1
            /\ FailedStatus(r) = "dead_letter" => cycle[r] = MaxAttempts
        BY <2>3, FailureIsTyped DEF Expired
      <3>3. /\ Len(Swept(r)) = Len(outcome[r]) /\ Len(outcome[r]) > 0
            /\ \A m \in 1 .. Len(outcome[r]) :
                 Swept(r)[m] = IF m = Len(outcome[r]) THEN "lease_expired"
                               ELSE outcome[r][m]
            /\ \A m \in 1 .. Len(outcome[r]) :
                 outcome[r][m] = "in_flight" => m = Len(outcome[r])
        BY <1>2, <2>1, <2>3, SweptHistory DEF RowInv, Attempts, Expired
      <3> QED
        BY <1>2, <2>1, <3>1, <3>2, <3>3 DEF RowInv, ColumnsOK, Attempts, Last
    <2>4. CASE r \notin claimed /\ ~Expired(r)
      BY <2>1, <2>4, OtherRow, SweptHistory DEF Claim
    <2> QED BY <2>2, <2>3, <2>4
  <1> QED BY <1>3, <1>4 DEF DeliveryInv

\* Every step keeps delivery's invariant.
LEMMA DeliveryStep == DeliveryInv /\ [Next]_vars => DeliveryInv'
  <1> SUFFICES ASSUME DeliveryInv, [Next]_vars PROVE DeliveryInv'
    OBVIOUS
  <1>1. CASE Source
    BY <1>1, DeliveryUnchanged
    DEF Source, InsertRow, JoinChat, EditRow, DeleteRow
  <1>2. ASSUME NEW o \in Observer, Observe(o) PROVE DeliveryInv'
    <2>1. CASE CommitBatch(o)
      <3> DEFINE new == {r \in batch[o].good : ~Stored(r)} \cap Row
      <3>1. /\ new \in SUBSET Row
            /\ \A r \in new : status[r] = "absent"
            /\ status' = [r \in Row |-> IF r \in new THEN "queued" ELSE status[r]]
            /\ UNCHANGED <<cycle, current, wait, lease, outcome>>
        BY <2>1 DEF CommitBatch, Stored
      <3> QED BY <3>1, DeliveryKept
    <2>2. CASE ScanLive(o) \/ (\E after \in 0 .. RowCount : ScanWindow(o, after))
      BY <2>2, DeliveryUnchanged DEF ScanLive, ScanWindow, Scan
    <2>3. CASE AbandonScan(o) \/ RejectBatch(o)
      BY <2>3, DeliveryUnchanged DEF AbandonScan, RejectBatch
    <2> QED BY <1>2, <2>1, <2>2, <2>3 DEF Observe
  <1>3. CASE ClaimNext
    <2>1. CASE \E r \in Row : ClaimRow(r)
      <3>1. PICK r \in Row : ClaimRow(r)
        BY <2>1
      <3>2. {r} \in SUBSET Eligible /\ Claim({r})
        BY <3>1 DEF ClaimRow, Oldest
      <3> QED BY <3>2, ClaimKeepsInv
    <2>2. CASE ClaimNothing
      <3>1. Claim({}) /\ {} \in SUBSET Eligible
        BY <2>2 DEF ClaimNothing
      <3> QED BY <3>1, ClaimKeepsInv
    <2> QED BY <1>3, <2>1, <2>2 DEF ClaimNext
  <1>4. ASSUME NEW r \in Row, Settle(r) PROVE DeliveryInv'
    BY <1>4, RecordFailureKeepsInv, AcknowledgeKeepsInv, RequeueKeepsInv DEF Settle
  <1>5. CASE Tick
    BY <1>5, TickKeepsInv
  <1>6. CASE UNCHANGED vars
    BY <1>6, DeliveryUnchanged DEF vars
  <1> QED BY <1>1, <1>2, <1>3, <1>4, <1>5, <1>6 DEF Next

\* What one step may do to the history of a row.
Kept(r) ==
  /\ Attempts(r)' >= Attempts(r)
  /\ \A n \in 1 .. Attempts(r) :
       outcome[r][n] \notin {"in_flight", outcome'[r][n]} =>
         outcome'[r][n] = "acknowledged" /\ n = Attempts(r)

LEMMA KeptWhenSame ==
  ASSUME DeliveryInv, NEW r \in Row, outcome'[r] = outcome[r]
  PROVE  Kept(r)
  BY DEF DeliveryInv, DeliveryTypeOK, Kept, Attempts

LEMMA KeptWhenSettled ==
  ASSUME DeliveryInv, NEW q \in Row, NEW n \in 1 .. Attempts(q),
         NEW x \in AttemptOutcome, outcome' = Settled(q, n, x),
         outcome[q][n] = "in_flight" \/ (x = "acknowledged" /\ n = Attempts(q)),
         NEW r \in Row
  PROVE  Kept(r)
  <1> DEFINE t == [outcome[q] EXCEPT ![n] = x]
  <1>1. outcome' = [outcome EXCEPT ![q] = t] /\ outcome[q] \in Seq(AttemptOutcome)
    BY DEF Settled, DeliveryInv, DeliveryTypeOK
  <1>2. /\ t \in Seq(AttemptOutcome) /\ Len(t) = Len(outcome[q])
        /\ \A m \in 1 .. Len(outcome[q]) : t[m] = IF m = n THEN x ELSE outcome[q][m]
    BY <1>1, SettledHistory DEF Attempts
  <1> HIDE DEF t
  <1>3. CASE r = q
    <2>1. outcome'[q] = t
      BY <1>1 DEF DeliveryInv, DeliveryTypeOK
    <2> QED BY <1>1, <1>2, <1>3, <2>1 DEF Kept, Attempts
  <1>4. CASE r # q
    BY <1>1, <1>4, KeptWhenSame DEF DeliveryInv, DeliveryTypeOK
  <1> QED BY <1>3, <1>4

LEMMA KeptWhenClaimed ==
  ASSUME DeliveryInv, NEW claimed \in SUBSET Eligible, Claim(claimed), NEW r \in Row
  PROVE  Kept(r)
  <1>1. outcome[r] \in Seq(AttemptOutcome) /\ "in_flight" \in AttemptOutcome
    BY DEF DeliveryInv, DeliveryTypeOK, AttemptOutcome
  <1>2. CASE r \in claimed
    <2>1. outcome'[r] = Append(outcome[r], "in_flight")
      BY <1>2 DEF Claim
    <2> QED BY <1>1, <2>1 DEF Kept, Attempts
  <1>3. CASE r \notin claimed /\ Expired(r)
    <2>1. outcome'[r] = Swept(r)
      BY <1>3 DEF Claim
    <2>2. outcome[r][Len(outcome[r])] = "in_flight"
      BY <1>1, <1>3 DEF Expired, DeliveryInv, RowInv, Attempts
    <2> QED BY <1>1, <1>3, <2>1, <2>2, SweptHistory DEF Kept, Attempts
  <1>4. CASE r \notin claimed /\ ~Expired(r)
    BY <1>4, SweptHistory, KeptWhenSame DEF Claim
  <1> QED BY <1>2, <1>3, <1>4

LEMMA HistoryStep == DeliveryInv /\ [Next]_vars => \A r \in Row : Kept(r)
  <1> SUFFICES ASSUME DeliveryInv, [Next]_vars, NEW r \in Row PROVE Kept(r)
    OBVIOUS
  <1>1. CASE UNCHANGED outcome
    BY <1>1, KeptWhenSame
  <1>2. CASE ClaimNext
    <2>1. CASE ClaimNothing
      BY <2>1, KeptWhenClaimed DEF ClaimNothing
    <2>2. ASSUME NEW q \in Row, ClaimRow(q) PROVE Kept(r)
      <3>1. {q} \in SUBSET Eligible /\ Claim({q})
        BY <2>2 DEF ClaimRow, Oldest
      <3> QED BY <3>1, KeptWhenClaimed
    <2> QED BY <1>2, <2>1, <2>2 DEF ClaimNext
  <1>3. ASSUME NEW q \in Row, NEW n \in 1 .. Attempts(q), RecordFailure(q, n)
        PROVE  Kept(r)
    BY <1>3, KeptWhenSettled DEF RecordFailure, OpenAttempt, AttemptOutcome
  <1>4. ASSUME NEW q \in Row, Acknowledge(q) PROVE Kept(r)
    <2>1. Attempts(q) \in 1 .. Attempts(q)
      BY <1>4 DEF Acknowledge, Attempts, DeliveryInv, DeliveryTypeOK
    <2> QED BY <1>4, <2>1, KeptWhenSettled DEF Acknowledge, AttemptOutcome
  <1>5. CASE Source \/ (\E o \in Observer : Observe(o)) \/ Tick \/ UNCHANGED vars
    <2>1. UNCHANGED outcome
      BY <1>5
      DEF Source, InsertRow, JoinChat, EditRow, DeleteRow, Observe, ScanLive, ScanWindow,
          Scan, AbandonScan, RejectBatch, CommitBatch, Tick, vars, deliveryVars
    <2> QED BY <1>1, <2>1
  <1>6. ASSUME NEW q \in Row, RequeueDeadLetter(q) \/ RequeueAcknowledged(q)
        PROVE  Kept(r)
    BY <1>1, <1>6 DEF RequeueDeadLetter, RequeueAcknowledged, Requeue
  <1> QED BY <1>2, <1>3, <1>4, <1>5, <1>6 DEF Next, Settle
-----------------------------------------------------------------------------
(* Discovery.                                                              *)

LEMMA DiscoveryInit == Init => DiscoveryInv
  BY ConstantsAssumption
  DEF Init, DiscoveryInv, DiscoveryTypeOK, BatchInv, CursorNeverAhead, NoBatch,
      Row, ConstantsAssumption

\* A page leaves out no row between its ends but the deleted ones.
LEMMA PageCovers ==
  ASSUME DiscoveryTypeOK, NEW after \in 0 .. RowCount, NEW last \in Page(after),
         NEW r \in after + 1 .. last
  PROVE  r \in Page(after) \/ r \in deleted
  <1> DEFINE Before(x) == {q \in (after + 1 .. x) : q \notin deleted}
  <1>1. /\ last \in Int /\ r \in Int /\ after \in Int
        /\ last <= inserted /\ inserted \in Int
        /\ Cardinality(Before(last)) <= Limit
    BY ConstantsAssumption DEF Page, DiscoveryTypeOK, ConstantsAssumption
  <1>2. IsFiniteSet(after + 1 .. last)
    BY <1>1, FS_Interval
  <1>3. IsFiniteSet(Before(last))
    BY <1>2, FS_Subset
  <1>4. Before(r) \in SUBSET Before(last)
    BY <1>1
  <1>5. /\ Cardinality(Before(r)) <= Cardinality(Before(last))
        /\ Cardinality(Before(r)) \in Nat /\ Cardinality(Before(last)) \in Nat
    BY <1>3, <1>4, FS_Subset, FS_CardinalityType
  <1>6. Cardinality(Before(r)) <= Limit
    BY <1>1, <1>5, ConstantsAssumption DEF ConstantsAssumption
  <1> QED BY <1>1, <1>6 DEF Page

LEMMA ScanKeepsInv ==
  ASSUME DiscoveryInv, NEW o \in Observer, NEW after \in 0 .. RowCount,
         NEW live \in BOOLEAN, Scan(o, after, live)
  PROVE  DiscoveryInv'
  <1>1. PICK last \in Page(after) :
          batch' = [batch EXCEPT ![o] =
            [live |-> live, after |-> after, through |-> last,
             rows |-> Page(after), good |-> Page(after) \cap joined,
             seen |-> [r \in Row |-> IF r \in Page(after) THEN version[r] ELSE 0]]]
    BY DEF Scan
  <1>2. UNCHANGED <<sourceVars, cursor, issues, payload, status>>
    BY DEF Scan, deliveryVars
  <1>3. /\ Page(after) \subseteq Row /\ last \in 0 .. RowCount /\ after <= last
        /\ DiscoveryTypeOK
    <2>1. RowCount \in Nat /\ inserted \in 0 .. RowCount /\ DiscoveryTypeOK
      BY ConstantsAssumption DEF DiscoveryInv, DiscoveryTypeOK, ConstantsAssumption
    <2>2. \A r \in Page(after) : r \in after + 1 .. inserted
      BY DEF Page
    <2> QED BY <2>1, <2>2 DEF Row
  <1>4. DiscoveryTypeOK'
    <2> DEFINE seen == [r \in Row |-> IF r \in Page(after) THEN version[r] ELSE 0]
    <2>1. seen \in [Row -> 0 .. MaxVersion]
      BY <1>3, ConstantsAssumption DEF DiscoveryTypeOK, ConstantsAssumption
    <2>2. batch' = [batch EXCEPT ![o] =
            [live |-> live, after |-> after, through |-> last,
             rows |-> Page(after), good |-> Page(after) \cap joined, seen |-> seen]]
      BY <1>1
    <2> HIDE DEF seen
    <2>3. batch' \in [Observer ->
            [live : BOOLEAN, after : 0 .. RowCount, through : 0 .. RowCount,
             rows : SUBSET Row, good : SUBSET Row, seen : [Row -> 0 .. MaxVersion]]]
      BY <1>3, <2>1, <2>2 DEF DiscoveryTypeOK
    <2> QED BY <1>2, <1>3, <2>3 DEF DiscoveryTypeOK, sourceVars
  <1>5. ASSUME NEW p \in Observer PROVE BatchInv(batch[p])'
    <2>1. CASE p = o
      <3>1. /\ batch'[p].after = after /\ batch'[p].through = last
            /\ batch'[p].rows = Page(after) /\ batch'[p].good \subseteq Page(after)
        BY <1>1, <1>3, <2>1 DEF DiscoveryTypeOK
      <3> QED
        BY <1>2, <1>3, <3>1, PageCovers DEF BatchInv, sourceVars
    <2>2. CASE p # o
      BY <1>1, <1>2, <2>2 DEF BatchInv, DiscoveryInv, DiscoveryTypeOK, sourceVars
    <2> QED BY <2>1, <2>2
  <1>6. CursorNeverAhead'
    BY <1>2 DEF DiscoveryInv, CursorNeverAhead, Stored, sourceVars
  <1> QED BY <1>4, <1>5, <1>6 DEF DiscoveryInv

LEMMA DropBatchKeepsInv ==
  ASSUME DiscoveryInv, NEW o \in Observer, AbandonScan(o) \/ RejectBatch(o)
  PROVE  DiscoveryInv'
  <1>1. /\ batch' = [batch EXCEPT ![o] = NoBatch]
        /\ UNCHANGED <<sourceVars, cursor, issues, payload, status>>
    BY DEF AbandonScan, RejectBatch, deliveryVars
  <1>2. /\ NoBatch \in [live : BOOLEAN, after : 0 .. RowCount, through : 0 .. RowCount,
             rows : SUBSET Row, good : SUBSET Row, seen : [Row -> 0 .. MaxVersion]]
        /\ BatchInv(NoBatch)
    BY ConstantsAssumption DEF NoBatch, BatchInv, Row, ConstantsAssumption
  <1>3. DiscoveryTypeOK'
    BY <1>1, <1>2 DEF DiscoveryInv, DiscoveryTypeOK, sourceVars
  <1>4. \A p \in Observer : BatchInv(batch[p])'
    BY <1>1, <1>2 DEF DiscoveryInv, DiscoveryTypeOK, BatchInv, sourceVars
  <1>5. CursorNeverAhead'
    BY <1>1 DEF DiscoveryInv, CursorNeverAhead, Stored, sourceVars
  <1> QED BY <1>3, <1>4, <1>5 DEF DiscoveryInv

LEMMA CommitBatchKeepsInv ==
  ASSUME DiscoveryInv, NEW o \in Observer, CommitBatch(o)
  PROVE  DiscoveryInv' /\ cursor' >= cursor
  <1> DEFINE b == batch[o]
  <1>1. /\ b \in [live : BOOLEAN, after : 0 .. RowCount, through : 0 .. RowCount,
               rows : SUBSET Row, good : SUBSET Row, seen : [Row -> 0 .. MaxVersion]]
        /\ BatchInv(b) /\ ~Rejected(b)
        /\ cursor \in 0 .. RowCount /\ issues \in [Row -> 0 .. MaxIssues]
    BY DEF DiscoveryInv, DiscoveryTypeOK, CommitBatch
  <1>2. /\ status' = [r \in Row |-> IF r \in {q \in b.good : ~Stored(q)}
                                   THEN "queued" ELSE status[r]]
        /\ payload' = [r \in Row |-> IF r \in {q \in b.good : ~Stored(q)}
                                    THEN b.seen[r] ELSE payload[r]]
        /\ issues' = [r \in Row |-> IF r \in b.rows \ b.good /\ issues[r] < MaxIssues
                                   THEN issues[r] + 1 ELSE issues[r]]
        /\ cursor' = CursorAfter(b)
        /\ batch' = [batch EXCEPT ![o] = NoBatch]
        /\ UNCHANGED sourceVars
    BY DEF CommitBatch
  <1> HIDE DEF b
  <1>3. cursor' = cursor \/ (b.after = cursor /\ cursor' = b.through)
    BY <1>1, <1>2 DEF CursorAfter, Rejected
  <1>4. cursor' >= cursor /\ cursor' \in 0 .. RowCount
    BY <1>1, <1>3 DEF BatchInv
  <1>5. DiscoveryTypeOK' /\ \A p \in Observer : BatchInv(batch[p])'
    <2>1. /\ NoBatch \in [live : BOOLEAN, after : 0 .. RowCount, through : 0 .. RowCount,
               rows : SUBSET Row, good : SUBSET Row, seen : [Row -> 0 .. MaxVersion]]
          /\ BatchInv(NoBatch)
      BY ConstantsAssumption DEF NoBatch, BatchInv, Row, ConstantsAssumption
    <2>2. payload' \in [Row -> 0 .. MaxVersion] /\ issues' \in [Row -> 0 .. MaxIssues]
      BY <1>1, <1>2, ConstantsAssumption
      DEF DiscoveryInv, DiscoveryTypeOK, ConstantsAssumption
    <2>3. DiscoveryTypeOK'
      BY <1>2, <1>4, <2>1, <2>2 DEF DiscoveryInv, DiscoveryTypeOK, sourceVars
    <2>4. \A p \in Observer : BatchInv(batch[p])'
      BY <1>2, <2>1 DEF DiscoveryInv, DiscoveryTypeOK, BatchInv, sourceVars
    <2> QED BY <2>3, <2>4
  <1>6. ASSUME NEW r \in Row
        PROVE  /\ Stored(r) \/ issues[r] > 0 \/ r \in deleted =>
                    (Stored(r) \/ issues[r] > 0 \/ r \in deleted)'
               /\ r \in b.rows => (Stored(r) \/ issues[r] > 0)'
    BY <1>1, <1>2, ConstantsAssumption
    DEF Stored, BatchInv, sourceVars, ConstantsAssumption
  <1>7. CursorNeverAhead'
    <2>1. \A r \in 1 .. cursor : Stored(r) \/ issues[r] > 0 \/ r \in deleted
      BY DEF DiscoveryInv, CursorNeverAhead
    <2>2. ASSUME NEW r \in 1 .. cursor'
          PROVE  r \in Row /\ (r \in 1 .. cursor \/ r \in b.rows \/ r \in deleted)
      <3>1. /\ RowCount \in Nat /\ cursor' \in 0 .. RowCount /\ cursor \in 0 .. RowCount
            /\ r \in Int /\ 1 <= r /\ r <= cursor'
        BY <1>1, <1>4, ConstantsAssumption DEF ConstantsAssumption
      <3>2. CASE r <= cursor
        BY <3>1, <3>2 DEF Row
      <3>3. CASE ~(r <= cursor)
        <4>1. r \in b.after + 1 .. b.through
          BY <1>1, <1>3, <3>1, <3>3
        <4> QED BY <1>1, <3>1, <4>1 DEF BatchInv, Row
      <3> QED BY <3>2, <3>3
    <2> QED BY <1>2, <1>6, <2>1, <2>2 DEF CursorNeverAhead, sourceVars
  <1> QED BY <1>4, <1>5, <1>7 DEF DiscoveryInv

\* A step that leaves the scans alone and loses no event.
LEMMA ScanVarsUnchanged ==
  ASSUME DiscoveryInv, UNCHANGED scanVars, DiscoveryTypeOK', deleted \subseteq deleted',
         \A r \in Row : Stored(r) => Stored(r)'
  PROVE  DiscoveryInv'
  <1>1. \A o \in Observer : BatchInv(batch[o])'
    BY DEF DiscoveryInv, BatchInv, scanVars
  <1>2. CursorNeverAhead'
    BY ConstantsAssumption
    DEF DiscoveryInv, DiscoveryTypeOK, CursorNeverAhead, scanVars, Row, ConstantsAssumption
  <1> QED BY <1>1, <1>2 DEF DiscoveryInv

\* Every step keeps discovery's invariant, never moves the cursor back, and
\* never loses a stored event.
LEMMA DiscoveryStep ==
  TypeOK /\ DiscoveryInv /\ [Next]_vars =>
    /\ DiscoveryInv'
    /\ cursor' >= cursor
    /\ \A r \in Row : Stored(r) => Stored(r)' /\ payload'[r] = payload[r]
  <1> SUFFICES ASSUME TypeOK, DiscoveryInv, [Next]_vars
               PROVE  /\ DiscoveryInv'
                      /\ cursor' >= cursor
                      /\ \A r \in Row : Stored(r) => Stored(r)' /\ payload'[r] = payload[r]
    OBVIOUS
  <1>1. cursor \in Int
    BY DEF DiscoveryInv, DiscoveryTypeOK
  <1>2. CASE Source
    <2>1. UNCHANGED <<scanVars, status>> /\ deleted \subseteq deleted'
      BY <1>2 DEF Source, InsertRow, JoinChat, EditRow, DeleteRow, deliveryVars
    <2>2. DiscoveryTypeOK'
      <3>1. DiscoveryTypeOK /\ RowCount \in Nat /\ MaxVersion \in Nat
        BY ConstantsAssumption DEF DiscoveryInv, ConstantsAssumption
      <3>2. CASE InsertRow
        BY <2>1, <3>1, <3>2 DEF InsertRow, DiscoveryTypeOK, scanVars
      <3>3. CASE \E r \in Row : JoinChat(r) \/ DeleteRow(r)
        BY <2>1, <3>1, <3>3 DEF JoinChat, DeleteRow, DiscoveryTypeOK, scanVars
      <3>4. ASSUME NEW r \in Row, EditRow(r) PROVE DiscoveryTypeOK'
        <4>1. version[r] + 1 \in 0 .. MaxVersion
          BY <3>1, <3>4 DEF EditRow, DiscoveryTypeOK
        <4>2. version' = [version EXCEPT ![r] = version[r] + 1]
          BY <3>4 DEF EditRow
        <4> QED BY <2>1, <3>1, <3>4, <4>1, <4>2 DEF EditRow, DiscoveryTypeOK, scanVars
      <3> QED BY <1>2, <3>2, <3>3, <3>4 DEF Source
    <2> QED BY <1>1, <2>1, <2>2, ScanVarsUnchanged DEF Stored, scanVars
  <1>3. ASSUME NEW o \in Observer, Observe(o)
        PROVE  /\ DiscoveryInv'
               /\ cursor' >= cursor
               /\ \A r \in Row : Stored(r) => Stored(r)' /\ payload'[r] = payload[r]
    <2>1. CASE CommitBatch(o)
      <3>1. DiscoveryInv' /\ cursor' >= cursor
        BY <2>1, CommitBatchKeepsInv
      <3>2. ASSUME NEW r \in Row, Stored(r)
            PROVE  status'[r] = status[r] /\ payload'[r] = payload[r]
        BY <2>1, <3>2 DEF CommitBatch
      <3> QED BY <3>1, <3>2 DEF Stored
    <2>2. CASE ScanLive(o)
      <3>1. cursor \in 0 .. RowCount /\ Scan(o, cursor, TRUE)
        BY <2>2 DEF ScanLive, DiscoveryInv, DiscoveryTypeOK
      <3>2. UNCHANGED <<cursor, payload, status>>
        BY <3>1 DEF Scan, deliveryVars
      <3>3. DiscoveryInv'
        BY <3>1, ScanKeepsInv
      <3> QED BY <1>1, <3>2, <3>3 DEF Stored
    <2>3. ASSUME NEW after \in 0 .. RowCount, ScanWindow(o, after)
          PROVE  /\ DiscoveryInv'
                 /\ cursor' >= cursor
                 /\ \A r \in Row : Stored(r) => Stored(r)' /\ payload'[r] = payload[r]
      <3>1. Scan(o, after, FALSE)
        BY <2>3 DEF ScanWindow
      <3>2. UNCHANGED <<cursor, payload, status>>
        BY <3>1 DEF Scan, deliveryVars
      <3>3. DiscoveryInv'
        BY <3>1, ScanKeepsInv
      <3> QED BY <1>1, <3>2, <3>3 DEF Stored
    <2>4. CASE AbandonScan(o) \/ RejectBatch(o)
      BY <1>1, <2>4, DropBatchKeepsInv DEF AbandonScan, RejectBatch, Stored, deliveryVars
    <2> QED BY <1>3, <2>1, <2>2, <2>3, <2>4 DEF Observe
  <1>4. CASE ClaimNext \/ (\E r \in Row : Settle(r)) \/ Tick
    <2>1. UNCHANGED <<sourceVars, scanVars>>
      BY <1>4
      DEF ClaimNext, ClaimRow, ClaimNothing, Claim, Settle, RecordFailure, Acknowledge,
          RequeueDeadLetter, RequeueAcknowledged, Requeue, Tick
    <2>2. \A r \in Row : Stored(r) => Stored(r)'
      BY <1>4
      DEF TypeOK, Stored, ClaimNext, ClaimRow, ClaimNothing, Claim, FailedStatus, Settle,
          RecordFailure, Acknowledge, RequeueDeadLetter, RequeueAcknowledged, Requeue, Tick
    <2>3. DiscoveryTypeOK'
      BY <2>1 DEF DiscoveryInv, DiscoveryTypeOK, sourceVars, scanVars
    <2> QED BY <1>1, <2>1, <2>2, <2>3, ScanVarsUnchanged DEF sourceVars, scanVars
  <1>5. CASE UNCHANGED vars
    <2>1. UNCHANGED <<sourceVars, scanVars, status>>
      BY <1>5 DEF vars, deliveryVars
    <2>2. DiscoveryTypeOK'
      BY <2>1 DEF DiscoveryInv, DiscoveryTypeOK, sourceVars, scanVars
    <2> QED BY <1>1, <2>1, <2>2, ScanVarsUnchanged DEF Stored, sourceVars, scanVars
  <1> QED BY <1>2, <1>3, <1>4, <1>5 DEF Next
-----------------------------------------------------------------------------
(* The theorems.                                                           *)

Inv == DeliveryInv /\ DiscoveryInv

LEMMA Invariance == Spec => []Inv
  <1>1. Init => Inv
    BY DeliveryStarts, DiscoveryInit DEF Inv
  <1>2. Inv /\ [Next]_vars => Inv'
    BY DeliveryStep, DiscoveryStep, TypeSplits, ColumnsFollow
    DEF Inv, DeliveryInv, DiscoveryInv
  <1> QED BY <1>1, <1>2, PTL DEF Spec

\* Every variable keeps its type, and no statement that changes a row's status
\* leaves a lease or a delay of the former one behind.
THEOREM TypeCorrect == Spec => []TypeOK
  <1>1. Inv => TypeOK
    BY TypeSplits, ColumnsFollow DEF Inv, DeliveryInv, DiscoveryInv
  <1> QED BY <1>1, Invariance, PTL

\* At most one attempt of an event is open, and it is the one leased.
THEOREM AttemptsAreCurrent == Spec => []OpenAttemptIsCurrent
  BY Invariance, InvImpliesProperties, PTL DEF Inv

\* An event's status is always the consequence of its attempt history.
THEOREM StatusIsExplained == Spec => []HistoryExplainsStatus
  BY Invariance, InvImpliesProperties, PTL DEF Inv

\* The retry budget of a cycle is neither exceeded nor cut short.
THEOREM BudgetIsKept == Spec => []RetryBudget
  BY Invariance, InvImpliesProperties, PTL DEF Inv

\* No source row is lost to the cursor, for any number of observers.
THEOREM NothingIsSkipped == Spec => []CursorNeverAhead
  <1>1. Inv => CursorNeverAhead
    BY DEF Inv, DiscoveryInv
  <1> QED BY <1>1, Invariance, PTL

\* The cursor is monotone and a stored event is immutable.
THEOREM DiscoveryMonotone == Spec => DiscoveryIsMonotone
  <1>1. Inv /\ [Next]_vars =>
          [/\ cursor' >= cursor
           /\ \A r \in Row : Stored(r) => Stored(r)' /\ payload'[r] = payload[r]]_vars
    BY DiscoveryStep, TypeSplits, ColumnsFollow DEF Inv, DeliveryInv, DiscoveryInv
  <1> QED BY <1>1, Invariance, PTL DEF Spec, DiscoveryIsMonotone

\* The attempt history is append-only, but for a late ACK of the newest attempt.
THEOREM HistoryKept == Spec => HistoryIsKept
  <1>1. Inv /\ [Next]_vars => [\A r \in Row : Kept(r)]_vars
    BY HistoryStep DEF Inv
  <1>2. Spec => [][\A r \in Row : Kept(r)]_vars
    BY <1>1, Invariance, PTL DEF Spec
  <1> QED BY <1>2 DEF HistoryIsKept, Kept

(***************************************************************************)
(* Delivery end to end                                                     *)
(***************************************************************************)

RelayInv == DeliveryInv /\ RelayTypeOK

AttemptsGrow == \A r \in Row : Attempts(r)' >= Attempts(r)

\* A queue whose rows are all stored and a relay that has sent nothing.
LEMMA RelayInit == DeliveryInit => RelayInv
  <1> SUFFICES ASSUME DeliveryInit PROVE RelayInv
    OBVIOUS
  <1>1. DeliveryInv
    BY ConstantsAssumption
    DEF DeliveryInit, DeliveryInv, DeliveryTypeOK, RowInv, ColumnsOK, QueueStatus, Attempts,
        ConstantsAssumption
  <1>2. RelayTypeOK
    BY ConstantsAssumption, DeliveryConstantsAssumption
    DEF DeliveryInit, RelayTypeOK, SendersOK, RequestsOK, RepliesOK, KioskOK, ReconOK, Idle,
        ConstantsAssumption, DeliveryConstantsAssumption
  <1> QED BY <1>1, <1>2 DEF RelayInv

\* What the steps of the queue do to the queue's invariant and to the history.
LEMMA QueueStepGrows ==
  ASSUME DeliveryInv, Next \/ UNCHANGED vars
  PROVE  DeliveryInv' /\ AttemptsGrow
  BY DeliveryStep, HistoryStep DEF Kept, AttemptsGrow

LEMMA RequeueGrows ==
  ASSUME DeliveryInv, NEW r \in Row, RequeueDeadLetter(r) \/ RequeueAcknowledged(r)
  PROVE  DeliveryInv' /\ AttemptsGrow
  <1>1. UNCHANGED outcome
    BY DEF RequeueDeadLetter, RequeueAcknowledged, Requeue
  <1>2. AttemptsGrow
    BY <1>1 DEF AttemptsGrow, Attempts, DeliveryInv, DeliveryTypeOK
  <1> QED BY <1>2, RequeueKeepsInv

LEMMA AcknowledgeOnceGrows ==
  ASSUME DeliveryInv, NEW r \in Row, AcknowledgeOnce(r)
  PROVE  DeliveryInv' /\ AttemptsGrow
  BY QueueStepGrows DEF AcknowledgeOnce, Next, Settle

LEMMA RecordFailureOnceGrows ==
  ASSUME DeliveryInv, NEW r \in Row, NEW n \in 1 .. Attempts(r), RecordFailureOnce(r, n)
  PROVE  DeliveryInv' /\ AttemptsGrow
  BY QueueStepGrows DEF RecordFailureOnce, Next, Settle

\* Every step keeps the queue's invariant and never shortens a history.
LEMMA QueuePart ==
  ASSUME RelayInv, [DeliveryNext]_deliverVars
  PROVE  DeliveryInv' /\ AttemptsGrow
  <1> USE DEF RelayInv
  <1>1. ASSUME NEW s \in Sender, SenderStep(s) PROVE DeliveryInv' /\ AttemptsGrow
    <2>1. sending[s] # None =>
            /\ sending[s][1] \in Row
            /\ sending[s][2] \in 1 .. Attempts(sending[s][1])
      BY DEF RelayTypeOK, SendersOK, Made, Attempt
    <2>2. CASE (\E r \in Row : Send(s, r)) \/ Sweep(s)
      BY <2>2, QueueStepGrows DEF Send, Sweep, Next, ClaimNext
    <2>3. CASE TakeAck(s)
      <3>1. sending[s] # None
        BY <2>3 DEF TakeAck, RelayTypeOK, RepliesOK, Attempt, None, Row
      <3> QED BY <2>1, <2>3, <3>1, AcknowledgeOnceGrows DEF TakeAck
    <2>4. CASE Fail(s)
      BY <2>1, <2>4, RecordFailureOnceGrows DEF Fail
    <2> QED BY <1>1, <2>2, <2>3, <2>4 DEF SenderStep
  <1>2. ASSUME NEW r \in Row, ApplyReceipt(r) PROVE DeliveryInv' /\ AttemptsGrow
    BY <1>2, AcknowledgeOnceGrows, RequeueGrows, QueueStepGrows DEF ApplyReceipt
  <1>3. ASSUME NEW r \in Row, Retry(r) PROVE DeliveryInv' /\ AttemptsGrow
    BY <1>3, RequeueGrows DEF Retry
  <1>4. CASE Pass
    BY <1>4, QueueStepGrows DEF Pass, Next
  <1>5. CASE UNCHANGED vars
    BY <1>5, QueueStepGrows
  <1>6. ASSUME NEW s \in Sender, Crash(s) PROVE UNCHANGED vars
    BY <1>6 DEF Crash
  <1>7. ASSUME NEW q \in requests, Ingest(q) \/ LoseRequest(q) PROVE UNCHANGED vars
    BY <1>7 DEF Ingest, LoseRequest
  <1>8. ASSUME \/ LoseReceipts \/ MonthPass \/ RecentPass \/ NextPage \/ AskReceipts
               \/ AbortPass \/ (\E r \in Row : Age(r)) \/ UNCHANGED deliverVars
        PROVE  UNCHANGED vars
    BY <1>8
    DEF LoseReceipts, MonthPass, RecentPass, NextPage, ListEntries, AskReceipts, AbortPass,
        Age, deliverVars
  <1> QED
    BY <1>1, <1>2, <1>3, <1>4, <1>5, <1>6, <1>7, <1>8 DEF DeliveryNext, Reconcile

\* An attempt that is in the history stays in it.
LEMMA MadeStaysMade ==
  ASSUME DeliveryInv, DeliveryInv', AttemptsGrow, NEW q \in Attempt, Made(q)
  PROVE  q[2] \in 1 .. Attempts(q[1])'
  <1> DEFINE r == q[1]
  <1>1. r \in Row /\ q[2] \in Nat
    BY DEF Attempt
  <1>2. Attempts(r) \in Nat /\ Attempts(r)' \in Nat
    BY <1>1 DEF DeliveryInv, DeliveryTypeOK, Attempts
  <1>3. Attempts(r)' >= Attempts(r)
    BY <1>1 DEF AttemptsGrow
  <1> QED BY <1>1, <1>2, <1>3 DEF Made

\* Steps that send nothing keep what is known of the senders and the requests.
LEMMA SettlingKeepsSenders ==
  ASSUME DeliveryInv, DeliveryInv', AttemptsGrow, SendersOK,
         NEW s \in Sender, sending' = [sending EXCEPT ![s] = None]
  PROVE  SendersOK'
  <1>1. sending' \in [Sender -> Attempt \cup {None}]
    BY DEF SendersOK
  <1>2. ASSUME NEW t \in Sender, sending'[t] # None
        PROVE  Made(sending[t])'
    <2>1. PICK q \in Attempt : q = sending[t] /\ q = sending'[t] /\ Made(q)
      BY <1>2 DEF SendersOK, Made
    <2>2. q[2] \in 1 .. Attempts(q[1])'
      BY <2>1, MadeStaysMade
    <2> QED BY <2>1, <2>2 DEF Made, Attempts
  <1> QED BY <1>1, <1>2 DEF SendersOK

LEMMA WaitingKeepsSenders ==
  ASSUME DeliveryInv, DeliveryInv', AttemptsGrow, SendersOK, UNCHANGED sending
  PROVE  SendersOK'
  BY MadeStaysMade DEF SendersOK, Made

LEMMA GrowthKeepsRequests ==
  ASSUME DeliveryInv, DeliveryInv', AttemptsGrow, RequestsOK, requests' \subseteq requests
  PROVE  RequestsOK'
  <1>1. ASSUME NEW q \in requests' PROVE q[2] \in 1 .. Attempts(q[1])'
    BY MadeStaysMade DEF RequestsOK
  <1> QED BY <1>1 DEF RequestsOK, Made

LEMMA SettlingKeepsReplies ==
  ASSUME RepliesOK, NEW s \in Sender, SendersOK, sending' = [sending EXCEPT ![s] = None],
         replies' = replies \ {sending[s]}, UNCHANGED kioskVars
  PROVE  RepliesOK'
  <1>1. ASSUME NEW q \in replies'
        PROVE  q[1] \in confirmed' /\ \E t \in Sender : sending'[t] = q
    <2>1. PICK t \in Sender : sending[t] = q
      BY <1>1 DEF RepliesOK
    <2>2. t # s
      BY <1>1, <2>1
    <2> QED BY <1>1, <2>1, <2>2 DEF RepliesOK, SendersOK, kioskVars
  <1> QED BY <1>1 DEF RepliesOK

LEMMA UntouchedRecon ==
  ASSUME ReconOK, UNCHANGED passVars, confirmed \subseteq confirmed'
  PROVE  ReconOK'
  BY DEF ReconOK, passVars

\* The steps of a sender that settle its attempt, or end with it.
LEMMA SettlingKeepsType ==
  ASSUME RelayInv, DeliveryInv', AttemptsGrow, NEW s \in Sender,
         sending' = [sending EXCEPT ![s] = None], replies' = replies \ {sending[s]},
         UNCHANGED <<requests, kioskVars, passVars>>
  PROVE  RelayTypeOK'
  <1>1. SendersOK' /\ RequestsOK' /\ RepliesOK'
    BY SettlingKeepsSenders, GrowthKeepsRequests, SettlingKeepsReplies
    DEF RelayInv, RelayTypeOK
  <1>2. KioskOK' /\ ReconOK'
    BY UntouchedRecon DEF RelayInv, RelayTypeOK, KioskOK, kioskVars
  <1> QED BY <1>1, <1>2 DEF RelayTypeOK

\* The steps of the queue alone, and those of the reconciler.
LEMMA QuietKeepsType ==
  ASSUME RelayInv, DeliveryInv', AttemptsGrow, ReconOK',
         UNCHANGED <<sending, networkVars, kioskVars>>
  PROVE  RelayTypeOK'
  <1>1. SendersOK' /\ RequestsOK'
    BY WaitingKeepsSenders, GrowthKeepsRequests DEF RelayInv, RelayTypeOK, networkVars
  <1>2. RepliesOK' /\ KioskOK'
    BY DEF RelayInv, RelayTypeOK, RepliesOK, KioskOK, networkVars, kioskVars
  <1> QED BY <1>1, <1>2 DEF RelayTypeOK

LEMMA SendKeepsType ==
  ASSUME RelayInv, DeliveryInv', AttemptsGrow, NEW s \in Sender, NEW r \in Row, Send(s, r)
  PROVE  RelayTypeOK'
  <1> USE DEF RelayInv, RelayTypeOK
  <1>0. Attempts(r) \in Nat /\ outcome[r] \in Seq(AttemptOutcome)
    BY DEF DeliveryInv, DeliveryTypeOK, Attempts
  <1>a. <<r, Attempts(r) + 1>> \in Attempt
    BY <1>0 DEF Attempt
  <1>b. PICK sent \in Attempt : sent = <<r, Attempts(r) + 1>>
    BY <1>a
  <1>1. sent[2] \in 1 .. Attempts(sent[1])'
    <2>1. outcome'[r] = Append(outcome[r], "in_flight")
      BY DEF Send, ClaimRow, Claim
    <2>2. Attempts(r)' = Attempts(r) + 1
      BY <1>0, <2>1 DEF Attempts
    <2>3. sent[1] = r /\ sent[2] = Attempts(r) + 1
      BY <1>b
    <2> QED BY <1>0, <2>2, <2>3
  <1>2. /\ sending[s] = None /\ UNCHANGED <<replies, kioskVars, passVars>>
        /\ sending' = [sending EXCEPT ![s] = sent]
        /\ requests' = requests \cup {sent}
    BY <1>b DEF Send
  <1>3. SendersOK'
    <2>1. sending' \in [Sender -> Attempt \cup {None}]
      BY <1>1, <1>2 DEF SendersOK
    <2>2. ASSUME NEW t \in Sender, sending'[t] # None
          PROVE  Made(sending[t])'
      <3>1. CASE t = s
        BY <1>1, <1>2, <3>1 DEF SendersOK, Made, Attempts
      <3>2. CASE t # s
        <4>0. sending'[t] = sending[t] /\ sending[t] \in Attempt /\ Made(sending[t])
          BY <1>2, <2>2, <3>2 DEF SendersOK
        <4>1. PICK q \in Attempt : q = sending[t] /\ q = sending'[t] /\ Made(q)
          BY <4>0
        <4>2. q[2] \in 1 .. Attempts(q[1])'
          BY <4>1, MadeStaysMade
        <4> QED BY <4>1, <4>2 DEF Made, Attempts
      <3> QED BY <3>1, <3>2
    <2> QED BY <2>1, <2>2 DEF SendersOK
  <1>4. RequestsOK'
    <2>1. ASSUME NEW q \in requests' PROVE q \in Attempt /\ q[2] \in 1 .. Attempts(q[1])'
      BY <1>1, <1>2, MadeStaysMade DEF RequestsOK
    <2> QED BY <2>1 DEF RequestsOK, Made
  <1>5. RepliesOK'
    <2>1. None \notin Attempt
      BY DEF None, Attempt
    <2>2. ASSUME NEW q \in replies'
          PROVE  q \in Attempt /\ q[1] \in confirmed' /\ \E t \in Sender : sending'[t] = q
      <3>1. PICK t \in Sender : sending[t] = q
        BY <1>2, <2>2 DEF RepliesOK
      <3>2. t # s
        BY <1>2, <2>1, <2>2, <3>1 DEF RepliesOK
      <3> QED BY <1>2, <2>2, <3>1, <3>2 DEF RepliesOK, SendersOK, kioskVars
    <2> QED BY <2>2 DEF RepliesOK
  <1>6. KioskOK' /\ ReconOK'
    BY <1>2, UntouchedRecon DEF KioskOK, kioskVars
  <1> QED BY <1>3, <1>4, <1>5, <1>6 DEF RelayTypeOK

LEMMA IngestKeepsType ==
  ASSUME RelayInv, DeliveryInv', AttemptsGrow, NEW q \in requests, Ingest(q)
  PROVE  RelayTypeOK'
  <1> USE DEF RelayInv, RelayTypeOK
  <1>1. SendersOK' /\ RequestsOK'
    BY WaitingKeepsSenders, GrowthKeepsRequests DEF Ingest
  <1>2. q \in Attempt /\ q[1] \in Row
    BY DEF RequestsOK, Attempt
  <1>3. RepliesOK'
    BY <1>2 DEF RepliesOK, Ingest
  <1>4. KioskOK'
    BY <1>2 DEF KioskOK, Ingest
  <1>5. ReconOK'
    BY UntouchedRecon DEF Ingest
  <1> QED BY <1>1, <1>3, <1>4, <1>5 DEF RelayTypeOK

LEMMA ListingKeepsReconOK ==
  ASSUME ReconOK, NEW window \in SUBSET Row, ListEntries(window)
  PROVE  ReconOK'
  <1> DEFINE page == EntriesPage(recon.after)
             selected == page \cap window
             sure == {r \in selected : Confirmable(r)}
             step == IF selected = {} THEN "next" ELSE "listed"
  <1>1. CASE recon' = Idle
    BY <1>1, ConstantsAssumption DEF ListEntries, Idle, ReconOK, ConstantsAssumption
  <1>2. ASSUME NEW last \in page,
               recon' = [step |-> step, window |-> window, after |-> last,
                         todo |-> selected, confirm |-> sure, present |-> {}]
        PROVE  ReconOK'
    <2>1. page \subseteq 0 .. RowCount
      BY ConstantsAssumption DEF EntriesPage, ReconOK, ConstantsAssumption
    <2>2. /\ selected \subseteq Row /\ sure \subseteq Row /\ last \in 0 .. RowCount
          /\ selected \subseteq window /\ step \in {"listed", "next"}
      BY <2>1
    <2>3. UNCHANGED aged
      BY DEF ListEntries
    <2> HIDE DEF page, selected, sure, step
    <2> QED BY <1>2, <2>2, <2>3 DEF ReconOK
  <1> QED BY <1>1, <1>2 DEF ListEntries

LEMMA ReconcileKeepsReconOK ==
  ASSUME RelayInv, Reconcile \/ AbortPass PROVE ReconOK'
  <1> USE DEF RelayInv, RelayTypeOK
  <1>1. CASE AbortPass
    BY <1>1, ConstantsAssumption DEF AbortPass, Idle, ReconOK, ConstantsAssumption
  <1>2. CASE MonthPass \/ RecentPass \/ NextPage
    <2>1. PICK window \in SUBSET Row : ListEntries(window)
      BY <1>2, DeliveryConstantsAssumption
      DEF MonthPass, RecentPass, Recent, NextPage, ReconOK, DeliveryConstantsAssumption
    <2> QED BY <2>1, ListingKeepsReconOK
  <1>3. CASE AskReceipts
    BY <1>3 DEF AskReceipts, PageDone, ReconOK, KioskOK, kioskVars
  <1>4. ASSUME NEW r \in Row, ApplyReceipt(r) PROVE ReconOK'
    BY <1>4 DEF ApplyReceipt, PageDone, ReconOK, kioskVars
  <1> QED BY <1>1, <1>2, <1>3, <1>4 DEF Reconcile

LEMMA TypePart ==
  ASSUME RelayInv, [DeliveryNext]_deliverVars
  PROVE  RelayTypeOK'
  <1>1. DeliveryInv' /\ AttemptsGrow
    BY QueuePart
  <1>2. ASSUME NEW s \in Sender, NEW r \in Row, Send(s, r) PROVE RelayTypeOK'
    BY <1>1, <1>2, SendKeepsType
  <1>3. ASSUME NEW s \in Sender, TakeAck(s) \/ Fail(s) \/ Crash(s) PROVE RelayTypeOK'
    BY <1>1, <1>3, SettlingKeepsType DEF TakeAck, Fail, Crash
  <1>4. ASSUME \/ (\E s \in Sender : Sweep(s)) \/ (\E r \in Row : Retry(r))
               \/ Pass \/ UNCHANGED deliverVars
        PROVE  RelayTypeOK'
    <2>1. UNCHANGED <<sending, networkVars, kioskVars, passVars>>
      BY <1>4 DEF Sweep, Retry, Pass, deliverVars
    <2>2. ReconOK'
      BY <2>1, UntouchedRecon DEF kioskVars, RelayInv, RelayTypeOK
    <2> QED BY <1>1, <2>1, <2>2, QuietKeepsType
  <1>5. CASE Reconcile \/ AbortPass
    <2>1. UNCHANGED <<sending, networkVars, kioskVars>>
      BY <1>5 DEF Reconcile, MonthPass, RecentPass, NextPage, ListEntries, AskReceipts,
                  ApplyReceipt, AbortPass
    <2> QED BY <1>1, <1>5, <2>1, ReconcileKeepsReconOK, QuietKeepsType
  <1>6. ASSUME NEW q \in requests, Ingest(q) PROVE RelayTypeOK'
    BY <1>1, <1>6, IngestKeepsType
  <1>7. ASSUME NEW q \in requests, LoseRequest(q) PROVE RelayTypeOK'
    <2>1. SendersOK' /\ RequestsOK'
      BY <1>1, <1>7, WaitingKeepsSenders, GrowthKeepsRequests
      DEF LoseRequest, RelayInv, RelayTypeOK
    <2>2. RepliesOK' /\ KioskOK' /\ ReconOK'
      BY <1>7, UntouchedRecon
      DEF LoseRequest, RelayInv, RelayTypeOK, RepliesOK, KioskOK, kioskVars
    <2> QED BY <2>1, <2>2 DEF RelayTypeOK
  <1>8. CASE LoseReceipts
    <2>1. SendersOK' /\ RequestsOK'
      BY <1>1, <1>8, WaitingKeepsSenders, GrowthKeepsRequests
      DEF LoseReceipts, RelayInv, RelayTypeOK, networkVars
    <2>2. RepliesOK' /\ KioskOK' /\ ReconOK'
      BY <1>8, UntouchedRecon, DeliveryConstantsAssumption
      DEF LoseReceipts, RelayInv, RelayTypeOK, RepliesOK, KioskOK, networkVars,
          DeliveryConstantsAssumption
    <2> QED BY <2>1, <2>2 DEF RelayTypeOK
  <1>9. ASSUME NEW r \in Row, Age(r) PROVE RelayTypeOK'
    <2>1. UNCHANGED <<sending, networkVars, kioskVars>> /\ ReconOK'
      BY <1>9 DEF Age, kioskVars, RelayInv, RelayTypeOK, ReconOK
    <2> QED BY <1>1, <2>1, QuietKeepsType
  <1> QED
    BY <1>2, <1>3, <1>4, <1>5, <1>6, <1>7, <1>8, <1>9 DEF DeliveryNext, SenderStep

LEMMA RelayStep == RelayInv /\ [DeliveryNext]_deliverVars => RelayInv'
  BY QueuePart, TypePart DEF RelayInv

LEMMA RelayInvariance == RelaySpec => []RelayInv
  BY RelayInit, RelayStep, PTL DEF RelaySpec

\* Requests and answers are of attempts really made, answers and receipts speak
\* only of events the kiosk has held, and a pass only of those in its window,
\* whatever is lost, late, doubled or in conflict.
THEOREM RelayTypeCorrect == RelaySpec => []RelayTypeOK
  <1>1. RelayInv => RelayTypeOK
    BY DEF RelayInv
  <1> QED BY <1>1, RelayInvariance, PTL
-----------------------------------------------------------------------------
(* The refinement.  Each lemma says what steps of one kind do to the       *)
(* settlements; the kiosk's events are the abstract ones already.          *)

LEMMA SameStatus ==
  ASSUME UNCHANGED status PROVE UNCHANGED settlements
  BY DEF settlements

\* Every event that runs out of attempts in this sweep is given up at once.
LEMMA ClaimGivesUp ==
  ASSUME NEW claimed \in SUBSET Row, claimed \subseteq Eligible, Claim(claimed),
         UNCHANGED <<received, confirmed>>
  PROVE  [Promise!Next]_(Promise!vars)
  <1> DEFINE gone == {r \in Row : r \notin claimed /\ Expired(r) /\ Exhausted(r)}
  <1>1. \A r \in Row :
          status'[r] = IF r \in claimed THEN "in_flight"
                       ELSE IF Expired(r) THEN FailedStatus(r) ELSE status[r]
    BY DEF Claim
  <1>2. \A r \in claimed : status[r] \in {"queued", "retry_wait"}
    BY DEF Eligible
  <1>3. \A r \in gone : settlements[r] = "pending"
    BY DEF settlements, Settlement, Expired
  <1>4. \A r \in Row :
          Settlement(status'[r]) = IF r \in gone THEN "dead" ELSE Settlement(status[r])
    BY <1>1, <1>2 DEF Settlement, Expired, FailedStatus
  <1>5. settlements' = [r \in Row |-> IF r \in gone THEN "dead" ELSE settlements[r]]
    BY <1>4 DEF settlements
  <1>6. gone \in SUBSET Row
    OBVIOUS
  <1> HIDE DEF gone
  <1>7. CASE gone = {}
    <2>1. settlements' = settlements
      BY <1>5, <1>7 DEF settlements
    <2> QED BY <2>1 DEF Promise!vars
  <1>8. CASE gone # {}
    <2>1. Promise!GiveUp(gone)
      BY <1>3, <1>5, <1>8 DEF Promise!GiveUp
    <2> QED BY <1>6, <2>1 DEF Promise!Next
  <1> QED BY <1>7, <1>8

LEMMA FailureGivesUp ==
  ASSUME DeliveryInv, NEW r \in Row, NEW n \in Nat, RecordFailureOnce(r, n),
         UNCHANGED <<received, confirmed>>
  PROVE  [Promise!Next]_(Promise!vars)
  <1>1. CASE RecordFailure(r, n)
    <2>1. status[r] = "in_flight" /\ status' = [status EXCEPT ![r] = FailedStatus(r)]
      BY <1>1 DEF RecordFailure, OpenAttempt
    <2>2. status \in [Row -> QueueStatus]
      BY DEF DeliveryInv, DeliveryTypeOK
    <2>3. CASE Exhausted(r)
      <3>1. settlements[r] = "pending"
        BY <2>1 DEF settlements, Settlement
      <3>2. settlements' = [e \in Row |-> IF e \in {r} THEN "dead" ELSE settlements[e]]
        BY <2>1, <2>2, <2>3 DEF settlements, Settlement, FailedStatus
      <3>3. Promise!GiveUp({r})
        BY <3>1, <3>2 DEF Promise!GiveUp
      <3>4. {r} \in SUBSET Row
        OBVIOUS
      <3> QED BY <3>3, <3>4 DEF Promise!Next
    <2>4. CASE ~Exhausted(r)
      <3>1. settlements' = settlements
        BY <2>1, <2>2, <2>4 DEF settlements, Settlement, FailedStatus
      <3> QED BY <3>1 DEF Promise!vars
    <2> QED BY <2>3, <2>4
  <1>2. CASE UNCHANGED vars
    BY <1>2, SameStatus DEF vars, deliveryVars, Promise!vars
  <1> QED BY <1>1, <1>2 DEF RecordFailureOnce

LEMMA AcknowledgingDelivers ==
  ASSUME DeliveryInv, NEW r \in Row, r \in confirmed, AcknowledgeOnce(r),
         UNCHANGED <<received, confirmed>>
  PROVE  [Promise!Next]_(Promise!vars)
  <1>1. CASE Acknowledge(r)
    <2>1. status[r] # "acknowledged" /\ status' = [status EXCEPT ![r] = "acknowledged"]
      BY <1>1 DEF Acknowledge
    <2>2. status \in [Row -> QueueStatus]
      BY DEF DeliveryInv, DeliveryTypeOK
    <2>3. settlements[r] # "delivered"
      BY <2>1 DEF settlements, Settlement
    <2>4. settlements' = [settlements EXCEPT ![r] = "delivered"]
      BY <2>1, <2>2 DEF settlements, Settlement
    <2>5. Promise!Deliver(r)
      BY <2>3, <2>4 DEF Promise!Deliver
    <2> QED BY <2>5 DEF Promise!Next
  <1>2. CASE UNCHANGED vars
    BY <1>2, SameStatus DEF vars, deliveryVars, Promise!vars
  <1> QED BY <1>1, <1>2 DEF AcknowledgeOnce

LEMMA RequeueingReopens ==
  ASSUME DeliveryInv, NEW r \in Row, RequeueDeadLetter(r) \/ RequeueAcknowledged(r),
         UNCHANGED <<received, confirmed>>
  PROVE  [Promise!Next]_(Promise!vars)
  <1>1. /\ status[r] \in {"dead_letter", "acknowledged"}
        /\ status' = [status EXCEPT ![r] = "queued"]
    BY DEF RequeueDeadLetter, RequeueAcknowledged, Requeue
  <1>2. status \in [Row -> QueueStatus]
    BY DEF DeliveryInv, DeliveryTypeOK
  <1>3. settlements[r] # "pending"
    BY <1>1 DEF settlements, Settlement
  <1>4. settlements' = [settlements EXCEPT ![r] = "pending"]
    BY <1>1, <1>2 DEF settlements, Settlement
  <1>5. Promise!Reopen(r)
    BY <1>3, <1>4 DEF Promise!Reopen
  <1> QED BY <1>5 DEF Promise!Next

LEMMA StepRefines ==
  ASSUME RelayInv, [DeliveryNext]_deliverVars
  PROVE  [Promise!Next]_(Promise!vars)
  <1> USE DEF RelayInv, RelayTypeOK
  <1>1. ASSUME NEW s \in Sender, SenderStep(s) PROVE [Promise!Next]_(Promise!vars)
    <2>1. UNCHANGED <<received, confirmed>>
      BY <1>1 DEF SenderStep, Send, Sweep, TakeAck, Fail, kioskVars
    <2>2. ASSUME NEW r \in Row, Send(s, r) PROVE [Promise!Next]_(Promise!vars)
      <3>1. {r} \in SUBSET Row /\ {r} \subseteq Eligible /\ Claim({r})
        BY <2>2 DEF Send, ClaimRow, Oldest
      <3> QED BY <2>1, <3>1, ClaimGivesUp
    <2>3. CASE Sweep(s)
      <3>1. {} \in SUBSET Row /\ {} \subseteq Eligible /\ Claim({})
        BY <2>3 DEF Sweep, ClaimNothing
      <3> QED BY <2>1, <3>1, ClaimGivesUp
    <2>4. CASE TakeAck(s)
      <3>1. sending[s][1] \in Row /\ sending[s][1] \in confirmed
        BY <2>4 DEF TakeAck, RepliesOK, KioskOK
      <3> QED BY <2>1, <2>4, <3>1, AcknowledgingDelivers DEF TakeAck
    <2>5. CASE Fail(s)
      <3>1. sending[s][1] \in Row /\ sending[s][2] \in Nat
        BY <2>5 DEF Fail, SendersOK, Attempt
      <3> QED BY <2>1, <2>5, <3>1, FailureGivesUp DEF Fail
    <2> QED BY <1>1, <2>2, <2>3, <2>4, <2>5 DEF SenderStep
  <1>2. ASSUME NEW r \in Row, ApplyReceipt(r) PROVE [Promise!Next]_(Promise!vars)
    <2>1. UNCHANGED <<received, confirmed>>
      BY <1>2 DEF ApplyReceipt, kioskVars
    <2>2. CASE UNCHANGED vars
      BY <2>1, <2>2, SameStatus DEF vars, deliveryVars, Promise!vars
    <2>3. CASE r \in recon.present /\ AcknowledgeOnce(r)
      <3>1. r \in confirmed
        BY <2>3 DEF ReconOK
      <3> QED BY <2>1, <2>3, <3>1, AcknowledgingDelivers
    <2>4. CASE RequeueAcknowledged(r)
      BY <2>1, <2>4, RequeueingReopens
    <2> QED BY <1>2, <2>2, <2>3, <2>4 DEF ApplyReceipt
  <1>3. ASSUME NEW r \in Row, Retry(r) PROVE [Promise!Next]_(Promise!vars)
    BY <1>3, RequeueingReopens DEF Retry, kioskVars
  <1>4. ASSUME NEW q \in requests, Ingest(q) PROVE [Promise!Next]_(Promise!vars)
    <2>1. q[1] \in Row
      BY DEF RequestsOK, Attempt
    <2>2. Promise!Receive(q[1])
      BY <1>4, SameStatus DEF Ingest, vars, deliveryVars, Promise!Receive
    <2> QED BY <2>1, <2>2 DEF Promise!Next
  <1>5. CASE LoseReceipts
    BY <1>5, SameStatus DEF LoseReceipts, vars, deliveryVars, Promise!Lose, Promise!Next
  <1>6. ASSUME \/ (\E s \in Sender : Crash(s)) \/ (\E q \in requests : LoseRequest(q))
               \/ MonthPass \/ RecentPass \/ NextPage \/ AskReceipts \/ AbortPass
               \/ (\E r \in Row : Age(r)) \/ Pass \/ UNCHANGED deliverVars
        PROVE  [Promise!Next]_(Promise!vars)
    <2>1. UNCHANGED <<status, received, confirmed>>
      BY <1>6
      DEF Crash, LoseRequest, MonthPass, RecentPass, NextPage, ListEntries, AskReceipts,
          AbortPass, Age, Pass, Tick, deliverVars, vars, deliveryVars, kioskVars
    <2> QED BY <2>1, SameStatus DEF Promise!vars
  <1> QED
    BY <1>1, <1>2, <1>3, <1>4, <1>5, <1>6 DEF DeliveryNext, Reconcile

\* The relay, its network, its kiosk and its reconciler implement
\* ReliableDelivery: an event is settled as delivered only by a receipt of the
\* kiosk, and is given up on only while it is pending.
THEOREM PromiseKept == RelaySpec => KeepsPromise
  <1>1. DeliveryInit => Promise!Init
    BY DEF DeliveryInit, Promise!Init, settlements, Settlement
  <1>2. RelayInv /\ [DeliveryNext]_deliverVars => [Promise!Next]_(Promise!vars)
    BY StepRefines
  <1> QED BY <1>1, <1>2, RelayInvariance, PTL DEF RelaySpec, KeepsPromise, Promise!Spec
===============================================================================
