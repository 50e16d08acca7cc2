----------------------------- MODULE RelayQueue -----------------------------
(***************************************************************************)
(* The relay's durable discovery and delivery queue                        *)
(* (bmo/features/imessage_relay/relay/state.py, RelayStateStore) and the   *)
(* read-only scan that feeds it (relay/reader.py, MessagesReader).         *)
(*                                                                         *)
(* Each public method of the store is one BEGIN IMMEDIATE transaction, so  *)
(* each is one action here; the callers are unconstrained: any number of   *)
(* observers scan and commit batches, and any attempt may be failed and    *)
(* any event acknowledged at any time.  RelayDelivery.tla constrains them  *)
(* to what the sender and the reconciler really do.                        *)
(*                                                                         *)
(* A message row and the event normalized from it are both named by the    *)
(* row's ROWID.  A payload is represented by the version of the row it was *)
(* read from.  A timestamp column is represented by the time left until it *)
(* is due, which Tick counts down to zero.                                 *)
(***************************************************************************)
EXTENDS Integers, Sequences, FiniteSets

CONSTANTS
  RowCount,       \* how many rows the source ever holds
  Observer,       \* processes that scan the source and commit batches
  Limit,          \* rows per scanned batch
  MaxVersion,     \* bound on how often a source row is edited
  MaxDeleted,     \* bound on how many source rows are deleted
  MaxIssues,      \* bound on counted parse issues per row
  MaxAttempts,    \* RetryPolicy.max_attempts
  RetryDelay,     \* RetryPolicy.delay_after_attempt, as a function
  LeaseDuration,  \* RetryPolicy.lease_duration_ms
  TotalAttempts   \* bound on attempts per event over all its retry cycles

Row == 1 .. RowCount

ASSUME ConstantsAssumption ==
  /\ RowCount \in Nat
  /\ Limit \in Nat \ {0}
  /\ MaxVersion \in Nat
  /\ MaxDeleted \in Nat
  /\ MaxIssues \in Nat \ {0}
  /\ MaxAttempts \in Nat \ {0}
  /\ RetryDelay \in [1 .. MaxAttempts -> Nat \ {0}]
  /\ LeaseDuration \in Nat \ {0}
  /\ TotalAttempts \in Nat

VARIABLES
  inserted,   \* rows 1..inserted have been written to the source
  deleted,    \* rows removed from the source
  joined,     \* rows already joined to exactly one chat, so they normalize
  version,    \* how often the row was edited
  batch,      \* per observer, the scanned batch it has not committed yet
  cursor,     \* source_cursors.scanned_through_rowid
  issues,     \* parse_issues.occurrence_count of each row
  payload,    \* relay_events.payload_json, as the row version it was read from
  status,     \* relay_events.status
  cycle,      \* relay_events.retry_cycle_attempt_count
  current,    \* relay_events.current_attempt_id, 0 for NULL
  wait,       \* time until relay_events.next_attempt_at_ms
  lease,      \* time until relay_events.lease_expires_at_ms
  outcome     \* delivery_attempts.outcome, by attempt_number

sourceVars == <<inserted, deleted, joined, version>>
scanVars == <<batch, cursor, issues, payload>>
deliveryVars == <<status, cycle, current, wait, lease, outcome>>
vars == <<sourceVars, scanVars, deliveryVars>>

QueueStatus ==
  {"absent", "queued", "in_flight", "retry_wait", "acknowledged", "dead_letter"}
AttemptOutcome == {"in_flight", "failed", "acknowledged", "lease_expired"}

NoBatch == [live |-> FALSE, after |-> 0, through |-> 0, rows |-> {},
            good |-> {}, seen |-> [r \in Row |-> 0]]

Stored(r) == status[r] # "absent"
Attempts(r) == Len(outcome[r])      \* relay_events.attempt_count
Last(r) == outcome[r][Attempts(r)]

Init ==
  /\ inserted = 0
  /\ deleted = {}
  /\ joined = {}
  /\ version = [r \in Row |-> 0]
  /\ batch = [o \in Observer |-> NoBatch]
  /\ cursor = 0
  /\ issues = [r \in Row |-> 0]
  /\ payload = [r \in Row |-> 0]
  /\ status = [r \in Row |-> "absent"]
  /\ cycle = [r \in Row |-> 0]
  /\ current = [r \in Row |-> 0]
  /\ wait = [r \in Row |-> 0]
  /\ lease = [r \in Row |-> 0]
  /\ outcome = [r \in Row |-> <<>>]
-----------------------------------------------------------------------------
(* The source database, written by Messages and only read by the relay.    *)

InsertRow ==
  /\ inserted < RowCount
  /\ inserted' = inserted + 1
  /\ UNCHANGED <<deleted, joined, version, scanVars, deliveryVars>>

JoinChat(r) ==
  /\ r <= inserted /\ r \notin joined
  /\ joined' = joined \cup {r}
  /\ UNCHANGED <<inserted, deleted, version, scanVars, deliveryVars>>

EditRow(r) ==
  /\ r <= inserted /\ r \notin deleted
  /\ version[r] < MaxVersion
  /\ version' = [version EXCEPT ![r] = @ + 1]
  /\ UNCHANGED <<inserted, deleted, joined, scanVars, deliveryVars>>

DeleteRow(r) ==
  /\ r <= inserted /\ r \notin deleted
  /\ Cardinality(deleted) < MaxDeleted
  /\ deleted' = deleted \cup {r}
  /\ UNCHANGED <<inserted, joined, version, scanVars, deliveryVars>>
-----------------------------------------------------------------------------
(* MessagesReader: one read transaction over the next rows after a cursor. *)

\* The rows of one page: the first Limit rows after the given one.
Page(after) ==
  {r \in (after + 1 .. inserted) \ deleted :
     Cardinality({q \in (after + 1 .. r) : q \notin deleted}) <= Limit}

Scan(o, after, live) ==
  \E last \in Page(after) :
    /\ batch[o] = NoBatch
    /\ \A r \in Page(after) : r <= last
    /\ batch' = [batch EXCEPT ![o] =
         [live |-> live, after |-> after, through |-> last,
          rows |-> Page(after), good |-> Page(after) \cap joined,
          seen |-> [r \in Row |-> IF r \in Page(after) THEN version[r] ELSE 0]]]
    /\ UNCHANGED <<sourceVars, cursor, issues, payload, deliveryVars>>

\* The observer reads the committed cursor and scans from it ...
ScanLive(o) == Scan(o, cursor, TRUE)

\* ... and the reconciler re-scans pages of a lookback window.
ScanWindow(o, after) == Scan(o, after, FALSE)

\* An observer that stops or crashes loses its uncommitted batch.
AbandonScan(o) ==
  /\ batch[o] # NoBatch
  /\ batch' = [batch EXCEPT ![o] = NoBatch]
  /\ UNCHANGED <<sourceVars, cursor, issues, payload, deliveryVars>>
-----------------------------------------------------------------------------
(* commit_scan and commit_reconciliation_batch.                            *)

Replay(b) == b.after < cursor /\ b.through <= cursor

\* Raised as CursorConflictError or StateIntegrityError; all is rolled back.
Rejected(b) ==
  \/ b.live /\ b.after # cursor /\ ~Replay(b)
  \/ \E r \in b.good : Stored(r) /\ payload[r] # b.seen[r]

RejectBatch(o) ==
  /\ batch[o] # NoBatch
  /\ Rejected(batch[o])
  /\ batch' = [batch EXCEPT ![o] = NoBatch]
  /\ UNCHANGED <<sourceVars, cursor, issues, payload, deliveryVars>>

\* Only a live batch that is no replay moves the observation cursor.  (Two
\* ways to get it wrong: a lookback page moves it, or a replay moves it back.)
CursorAfterAnyPage(b) == IF Replay(b) THEN cursor ELSE b.through
CursorAfterAnyScan(b) == IF b.live THEN b.through ELSE cursor
CursorAfter(b) == IF b.live /\ ~Replay(b) THEN b.through ELSE cursor

CommitBatch(o) ==
  LET b == batch[o]
      new == {r \in b.good : ~Stored(r)}
  IN  /\ b # NoBatch
      /\ ~Rejected(b)
      /\ status' = [r \in Row |-> IF r \in new THEN "queued" ELSE status[r]]
      /\ payload' = [r \in Row |-> IF r \in new THEN b.seen[r] ELSE payload[r]]
      /\ issues' = [r \in Row |-> IF r \in b.rows \ b.good /\ issues[r] < MaxIssues
                                  THEN issues[r] + 1 ELSE issues[r]]
      /\ cursor' = CursorAfter(b)
      /\ batch' = [batch EXCEPT ![o] = NoBatch]
      /\ UNCHANGED <<sourceVars, cycle, current, wait, lease, outcome>>
-----------------------------------------------------------------------------
(* claim_next: expire overdue leases, then lease the oldest eligible event *)
(* in the same transaction.                                                *)

NeverExpired(r) == FALSE
Expired(r) == status[r] = "in_flight" /\ lease[r] = 0

\* The attempt of an expired lease is closed with it.
StillOpen(r) == outcome[r]
Swept(r) ==
  IF Expired(r) /\ outcome[r][current[r]] = "in_flight"
  THEN [outcome[r] EXCEPT ![current[r]] = "lease_expired"]
  ELSE outcome[r]

\* Where an attempt that did not succeed leaves its event.
ExhaustedOneLate(r) == cycle[r] > MaxAttempts
Exhausted(r) == cycle[r] >= MaxAttempts
FailedStatus(r) == IF Exhausted(r) THEN "dead_letter" ELSE "retry_wait"
FailedWait(r) == IF Exhausted(r) THEN 0 ELSE RetryDelay[cycle[r]]

Eligible == {r \in Row : status[r] \in {"queued", "retry_wait"} /\ wait[r] = 0}
Oldest(r) == r \in Eligible /\ \A q \in Eligible : r <= q

\* claimed is the set of rows leased by this call: one row, or none.
Claim(claimed) ==
  /\ status' = [r \in Row |-> IF r \in claimed THEN "in_flight"
                              ELSE IF Expired(r) THEN FailedStatus(r)
                              ELSE status[r]]
  /\ wait' = [r \in Row |-> IF Expired(r) THEN FailedWait(r) ELSE wait[r]]
  /\ outcome' = [r \in Row |-> IF r \in claimed THEN Append(outcome[r], "in_flight")
                               ELSE Swept(r)]
  /\ cycle' = [r \in Row |-> IF r \in claimed THEN cycle[r] + 1 ELSE cycle[r]]
  /\ current' = [r \in Row |-> IF r \in claimed THEN Attempts(r) + 1
                               ELSE IF Expired(r) THEN 0 ELSE current[r]]
  /\ lease' = [r \in Row |-> IF r \in claimed THEN LeaseDuration ELSE lease[r]]
  /\ UNCHANGED <<sourceVars, scanVars>>

ClaimRow(r) == Oldest(r) /\ Claim({r})
ClaimNothing == Eligible = {} /\ (\E r \in Row : Expired(r)) /\ Claim({})
-----------------------------------------------------------------------------
(* record_failure, acknowledge and the two requeues.                       *)

SettledFirst(r, n, result) == [outcome EXCEPT ![r] = [@ EXCEPT ![1] = result]]
Settled(r, n, result) == [outcome EXCEPT ![r] = [@ EXCEPT ![n] = result]]

\* The attempt a failure may be recorded for.  Any other is settled already,
\* and record_failure returns the row as it is.
AnyAttempt(r, n) == n \in 1 .. Attempts(r)
OpenAttempt(r, n) ==
  /\ n \in 1 .. Attempts(r)
  /\ outcome[r][n] = "in_flight"
  /\ status[r] = "in_flight" /\ current[r] = n

\* With the attempt goes its lease.
StillLeased(r) == UNCHANGED <<current, lease>>
Released(r) ==
  /\ current' = [current EXCEPT ![r] = 0]
  /\ lease' = [lease EXCEPT ![r] = 0]

RecordFailure(r, n) ==
  /\ OpenAttempt(r, n)
  /\ outcome' = Settled(r, n, "failed")
  /\ status' = [status EXCEPT ![r] = FailedStatus(r)]
  /\ wait' = [wait EXCEPT ![r] = FailedWait(r)]
  /\ Released(r)
  /\ UNCHANGED <<sourceVars, scanVars, cycle>>

\* A late ACK settles the newest attempt, whatever state the event is in.
Acknowledge(r) ==
  /\ Stored(r) /\ status[r] # "acknowledged"
  /\ Attempts(r) > 0
  /\ outcome' = Settled(r, Attempts(r), "acknowledged")
  /\ status' = [status EXCEPT ![r] = "acknowledged"]
  /\ wait' = [wait EXCEPT ![r] = 0]
  /\ Released(r)
  /\ UNCHANGED <<sourceVars, scanVars, cycle>>

\* An operator starts a fresh retry cycle, or the kiosk reports a receipt
\* missing.
Requeue(r, from) ==
  /\ status[r] = from
  /\ status' = [status EXCEPT ![r] = "queued"]
  /\ wait' = [wait EXCEPT ![r] = 0]
  /\ cycle' = [cycle EXCEPT ![r] = 0]
  /\ UNCHANGED <<sourceVars, scanVars, current, lease, outcome>>

RequeueDeadLetter(r) == Requeue(r, "dead_letter")
RequeueAcknowledged(r) == Requeue(r, "acknowledged")

\* TotalAttempts bounds how often the model requeues an event.
MayRequeue(r) == Attempts(r) + MaxAttempts <= TotalAttempts

Less(time) == IF time > 0 THEN time - 1 ELSE 0

Tick ==
  /\ \E r \in Row : wait[r] > 0 \/ lease[r] > 0
  /\ wait' = [r \in Row |-> Less(wait[r])]
  /\ lease' = [r \in Row |-> Less(lease[r])]
  /\ UNCHANGED <<sourceVars, scanVars, status, cycle, current, outcome>>
-----------------------------------------------------------------------------
Source ==
  \/ InsertRow
  \/ \E r \in Row : JoinChat(r) \/ EditRow(r) \/ DeleteRow(r)

Observe(o) ==
  \/ ScanLive(o)
  \/ \E after \in 0 .. RowCount : ScanWindow(o, after)
  \/ AbandonScan(o)
  \/ RejectBatch(o)
  \/ CommitBatch(o)

ClaimNext == (\E r \in Row : ClaimRow(r)) \/ ClaimNothing

Settle(r) ==
  \/ \E n \in 1 .. Attempts(r) : RecordFailure(r, n)
  \/ Acknowledge(r)
  \/ MayRequeue(r) /\ RequeueDeadLetter(r)
  \/ MayRequeue(r) /\ RequeueAcknowledged(r)

Next ==
  \/ Source
  \/ \E o \in Observer : Observe(o)
  \/ ClaimNext
  \/ \E r \in Row : Settle(r)
  \/ Tick

Spec == Init /\ [][Next]_vars

\* Discovery alone: delivery reads none of the variables discovery maintains
\* but for which events are stored, and changes none of them.
DiscoveryNext == Source \/ \E o \in Observer : Observe(o)
DiscoverySpec == Init /\ [][DiscoveryNext]_vars

\* RelaySender.run_forever claims again whatever the last attempt came to,
\* and time passes.  Nothing is assumed of the attempts themselves: a sender
\* that crashes leaves its lease to expire.
FairSpec == Spec /\ WF_vars(ClaimNext) /\ WF_vars(Tick)
-----------------------------------------------------------------------------
\* A row carries a lease exactly while it is in flight, and a time to wait for
\* only while it waits for a retry.
ColumnsOK(r) ==
  /\ current[r] # 0 <=> status[r] = "in_flight"
  /\ lease[r] > 0 => status[r] = "in_flight"
  /\ wait[r] > 0 => status[r] = "retry_wait"

\* Types, and the columns each status leaves behind.  The schema allows any of
\* them to be NULL in any status, so it is left to the seven statements that
\* change the status to clear them: a lease kept by a settled row, or a delay
\* kept by a requeued one, would be read by a later claim or sweep.
TypeOK ==
  /\ inserted \in 0 .. RowCount
  /\ deleted \subseteq Row
  /\ joined \subseteq Row
  /\ version \in [Row -> 0 .. MaxVersion]
  /\ batch \in [Observer ->
       [live : BOOLEAN, after : 0 .. RowCount, through : 0 .. RowCount,
        rows : SUBSET Row, good : SUBSET Row, seen : [Row -> 0 .. MaxVersion]]]
  /\ cursor \in 0 .. RowCount
  /\ issues \in [Row -> 0 .. MaxIssues]
  /\ payload \in [Row -> 0 .. MaxVersion]
  /\ status \in [Row -> QueueStatus]
  /\ cycle \in [Row -> Nat]
  /\ current \in [Row -> Nat]
  /\ wait \in [Row -> Nat]
  /\ lease \in [Row -> Nat]
  /\ outcome \in [Row -> Seq(AttemptOutcome)]
  /\ \A r \in Row : ColumnsOK(r)

\* The observation cursor never commits ahead of a row it has not accounted
\* for: every row at or below it is queued, is a visible parse issue, or was
\* deleted from the source before it could be read - whatever scans and
\* commits of several observers interleave (commit_scan's one transaction).
CursorNeverAhead ==
  \A r \in 1 .. cursor : Stored(r) \/ issues[r] > 0 \/ r \in deleted

\* An attempt is open exactly while its event is leased under it, and only an
\* event's newest attempt can be open.  It is why record_failure's "delivery
\* attempt is no longer current" and the UNIQUE(event_id, attempt_number)
\* constraint never fire, whatever late ACKs, expiries and requeues occur.
OpenAttemptIsCurrent ==
  \A r \in Row :
    /\ \A n \in 1 .. Attempts(r) :
         outcome[r][n] = "in_flight" <=> status[r] = "in_flight" /\ current[r] = n
    /\ status[r] = "in_flight" => current[r] = Attempts(r) /\ Attempts(r) > 0

\* The attempt history explains the row: an event is acknowledged, waiting or
\* dead only because of how its newest attempt ended, and only an event that
\* starts a retry cycle may be queued again.
HistoryExplainsStatus ==
  \A r \in Row :
    /\ status[r] = "absent" => Attempts(r) = 0
    /\ status[r] = "acknowledged" => Attempts(r) > 0 /\ Last(r) = "acknowledged"
    /\ status[r] \in {"retry_wait", "dead_letter"} =>
         Attempts(r) > 0 /\ Last(r) \in {"failed", "lease_expired"}

\* A retry cycle never makes more than max_attempts attempts, an event is dead
\* only once it has made them all, and only attempts really recorded count.
RetryBudget ==
  \A r \in Row :
    /\ cycle[r] <= MaxAttempts /\ cycle[r] <= Attempts(r)
    /\ status[r] \in {"absent", "queued"} => cycle[r] = 0
    /\ status[r] = "in_flight" => cycle[r] > 0
    /\ status[r] = "retry_wait" => cycle[r] \in 1 .. MaxAttempts - 1
    /\ status[r] = "dead_letter" => cycle[r] = MaxAttempts

\* Neither a stale observer nor a replay nor a reconciliation page moves the
\* cursor backwards, and no batch replaces the payload of a stored event,
\* even when the row was edited between two scans.
DiscoveryIsMonotone ==
  [][/\ cursor' >= cursor
     /\ \A r \in Row : Stored(r) => Stored(r)' /\ payload'[r] = payload[r]]_vars

\* History is append-only: attempts are never forgotten, and a settled outcome
\* changes only when a late ACK settles the newest attempt as acknowledged.
HistoryIsKept ==
  [][\A r \in Row :
       /\ Attempts(r)' >= Attempts(r)
       /\ \A n \in 1 .. Attempts(r) :
            outcome[r][n] \notin {"in_flight", outcome'[r][n]} =>
              outcome'[r][n] = "acknowledged" /\ n = Attempts(r)]_vars

\* No event is stuck: whatever attempts crash, and however long an older
\* poison event keeps failing ahead of it, a stored event is in the end
\* acknowledged or visibly dead.
EventuallySettled ==
  \A r \in Row :
    Stored(r) ~> status[r] \in {"acknowledged", "dead_letter"}
=============================================================================
