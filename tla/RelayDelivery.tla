--------------------------- MODULE RelayDelivery ---------------------------
(***************************************************************************)
(* RelayQueue driven by the processes that really use it                   *)
(* (bmo/features/imessage_relay/relay/sender.py and reconciliation.py) and *)
(* the kiosk's event store behind an unreliable network                    *)
(* (receiver/server.py, receiver/store.py).                                *)
(*                                                                         *)
(* A delivery request is named by the event and the attempt that sent it:  *)
(* its fresh nonce makes the kiosk process it at most once.  The kiosk may *)
(* process it long after its sender gave up.  The backlog is already       *)
(* discovered; RelayQueue's discovery is not repeated here.                *)
(***************************************************************************)
EXTENDS RelayQueue

CONSTANTS
  Sender,      \* relay processes that deliver from the same store
  PageSize,    \* receipts asked for at once
  Month,       \* the sets of events a calendar month may hold
  Edited,      \* events whose message was edited before the store was made
  Old,         \* events old enough to leave the recent window one day
  MaxRequests, \* bound on the requests in flight
  MaxLosses    \* bound on how often the kiosk loses its database

ASSUME DeliveryConstantsAssumption ==
  /\ PageSize \in Nat \ {0}
  /\ Month \subseteq SUBSET Row
  /\ Edited \subseteq Row /\ Old \subseteq Row
  /\ MaxRequests \in Nat /\ MaxLosses \in Nat

VARIABLES
  sending,     \* per sender, the attempt it is working on
  requests,    \* requests on their way to the kiosk
  replies,     \* positive answers on their way back to a waiting sender
  received,    \* events the kiosk holds (received_events)
  other,       \* events it holds with another content under the same ID
  confirmed,   \* history: events the kiosk has held at some time
  losses,
  aged,        \* events whose timestamp has left the recent window
  recon        \* the reconciler's pass over the queue

networkVars == <<requests, replies>>
kioskVars == <<received, other, confirmed, losses>>
passVars == <<aged, recon>>
deliverVars == <<vars, sending, networkVars, kioskVars, passVars>>

\* An attempt; the program's attempt_id is the row with the attempt number.
None == <<0, 0>>
Attempt == Row \X (Nat \ {0})

Idle == [step |-> "idle", window |-> {}, after |-> 0, todo |-> {}, confirm |-> {},
         present |-> {}]

\* Every row has been inserted, joined, scanned and committed: a state
\* RelayQueue reaches by RowCount inserts and joins, one scan and one commit.
\* An earlier store of this relay, replaced since, may have delivered some of
\* the edited messages as they were before.
DeliveryInit ==
  /\ inserted = RowCount /\ deleted = {} /\ joined = Row
  /\ version = [r \in Row |-> 0]
  /\ batch = [o \in Observer |-> NoBatch]
  /\ cursor = RowCount
  /\ issues = [r \in Row |-> 0] /\ payload = [r \in Row |-> 0]
  /\ status = [r \in Row |-> "queued"]
  /\ cycle = [r \in Row |-> 0] /\ current = [r \in Row |-> 0]
  /\ wait = [r \in Row |-> 0] /\ lease = [r \in Row |-> 0]
  /\ outcome = [r \in Row |-> <<>>]
  /\ sending = [s \in Sender |-> None]
  /\ requests = {} /\ replies = {}
  /\ received = {} /\ other \in SUBSET Edited /\ confirmed = {} /\ losses = 0
  /\ aged = {} /\ recon = Idle
-----------------------------------------------------------------------------
(* RelaySender.deliver_once.                                               *)

\* claim_next leases an event and its request is posted.  A sender that fails
\* or stops before the request leaves is one whose request is lost.
Send(s, r) ==
  /\ sending[s] = None
  /\ Cardinality(requests) < MaxRequests
  /\ ClaimRow(r)
  /\ sending' = [sending EXCEPT ![s] = <<r, Attempts(r) + 1>>]
  /\ requests' = requests \cup {<<r, Attempts(r) + 1>>}
  /\ UNCHANGED <<replies, kioskVars, passVars>>

\* Nothing is eligible: the sender sleeps, having swept the expired leases.
Sweep(s) ==
  /\ sending[s] = None
  /\ ClaimNothing
  /\ UNCHANGED <<sending, networkVars, kioskVars, passVars>>

\* acknowledge returns an event acknowledged meanwhile as it is.
AcknowledgeOnce(r) ==
  \/ Acknowledge(r)
  \/ status[r] = "acknowledged" /\ UNCHANGED vars

\* A 201 or 200 for this very request: the event is acknowledged by its
\* stable ID, even if the lease has meanwhile expired or been taken over.
TakeAnything(s) ==
  /\ sending[s] # None
  /\ AcknowledgeOnce(sending[s][1])
  /\ replies' = replies \ {sending[s]}
  /\ sending' = [sending EXCEPT ![s] = None]
  /\ UNCHANGED <<requests, kioskVars, passVars>>

TakeAck(s) ==
  /\ sending[s] \in replies
  /\ AcknowledgeOnce(sending[s][1])
  /\ replies' = replies \ {sending[s]}
  /\ sending' = [sending EXCEPT ![s] = None]
  /\ UNCHANGED <<requests, kioskVars, passVars>>

\* record_failure returns an attempt settled meanwhile as it is.
RecordFailureOnce(r, n) ==
  \/ RecordFailure(r, n)
  \/ status[r] = "acknowledged" /\ UNCHANGED vars
  \/ outcome[r][n] # "in_flight" /\ UNCHANGED vars

\* A timeout, a transport error, a nack or a malformed answer.
Fail(s) ==
  /\ sending[s] # None
  /\ RecordFailureOnce(sending[s][1], sending[s][2])
  /\ replies' = replies \ {sending[s]}
  /\ sending' = [sending EXCEPT ![s] = None]
  /\ UNCHANGED <<requests, kioskVars, passVars>>

\* The relay stops between two steps; its store keeps what was committed.
Crash(s) ==
  /\ sending[s] # None
  /\ replies' = replies \ {sending[s]}
  /\ sending' = [sending EXCEPT ![s] = None]
  /\ UNCHANGED <<vars, requests, kioskVars, passVars>>
-----------------------------------------------------------------------------
(* The kiosk: ReceiverApplication.handle and ReceiverStateStore.ingest.    *)

\* The event is committed (201 accepted) or found committed (200 duplicate)
\* before the answer leaves.  Nobody reads the answer to an abandoned request.
\* An event held with another content is refused (409) and not overwritten.
Ingest(q) ==
  /\ q \in requests /\ q[1] \notin other
  /\ requests' = requests \ {q}
  /\ received' = received \cup {q[1]}
  /\ confirmed' = confirmed \cup {q[1]}
  /\ replies' = IF \E s \in Sender : sending[s] = q THEN replies \cup {q} ELSE replies
  /\ UNCHANGED <<vars, sending, other, losses, passVars>>

\* Lost on the way, refused, or rolled back.
LoseRequest(q) ==
  /\ q \in requests
  /\ requests' = requests \ {q}
  /\ UNCHANGED <<vars, sending, replies, kioskVars, passVars>>

\* The kiosk's database is replaced.
LoseReceipts ==
  /\ losses < MaxLosses
  /\ losses' = losses + 1
  /\ received' = {} /\ other' = {}
  /\ UNCHANGED <<vars, sending, networkVars, confirmed, passVars>>
-----------------------------------------------------------------------------
(* RelayReconciler.reconcile, after its re-scan of the source.             *)

\* The next page of the queue: the first PageSize stored rows after a row.
EntriesPage(after) ==
  {r \in after + 1 .. RowCount :
     Stored(r) /\ Cardinality({q \in after + 1 .. r : Stored(q)}) <= PageSize}

\* Entries are decided on as they were listed, not as they are later.
OpenEntry(r) == status[r] = "in_flight" /\ Attempts(r) > 0
Confirmable(r) == status[r] # "acknowledged" /\ Attempts(r) > 0

\* The next page of a pass over a window of source time.  Only the entries
\* inside the window are asked about; the pass goes on after the whole page.
ListEntries(window) ==
  LET page == EntriesPage(recon.after)
      selected == page \cap window
  IN  /\ \/ page = {} /\ recon' = Idle
         \/ \E last \in page :
              /\ \A r \in page : r <= last
              /\ recon' = [step |-> IF selected = {} THEN "next" ELSE "listed",
                           window |-> window, after |-> last, todo |-> selected,
                           confirm |-> {r \in selected : Confirmable(r)},
                           present |-> {}]
      /\ UNCHANGED <<vars, sending, networkVars, kioskVars, aged>>

\* A calendar month ...
MonthPass == recon.step = "idle" /\ \E month \in Month : ListEntries(month)

\* ... or the last few days, which every event leaves at some time.
Recent == Row \ aged
RecentPass == recon.step = "idle" /\ ListEntries(Recent)

Age(r) ==
  /\ r \in Old \ aged
  /\ aged' = aged \cup {r}
  /\ UNCHANGED <<vars, sending, networkVars, kioskVars, recon>>

NextPage == recon.step = "next" /\ ListEntries(recon.window)

PageDone == [recon EXCEPT !.step = "next", !.todo = {}, !.confirm = {}, !.present = {}]

\* reconcile_receipts classifies the page in one read under the store's lock:
\* present, missing, or in conflict, which is counted and nothing more.
AskNobody ==
  /\ recon.step = "listed"
  /\ recon' = [recon EXCEPT !.step = "answered", !.present = recon.todo]
  /\ UNCHANGED <<vars, sending, networkVars, kioskVars, aged>>

AskReceipts ==
  LET settled == recon.todo \ other
  IN  /\ recon.step = "listed"
      /\ recon' = IF settled = {} THEN PageDone
                  ELSE [recon EXCEPT !.step = "answered", !.todo = settled,
                                     !.present = settled \cap received]
      /\ UNCHANGED <<vars, sending, networkVars, kioskVars, aged>>

AskReceipt(r) == r \in recon.todo /\ AskReceipts

\* Any failure of the request ends the pass; so does a crash between receipts.
AbortPass ==
  /\ recon # Idle
  /\ recon' = Idle
  /\ UNCHANGED <<vars, sending, networkVars, kioskVars, aged>>

\* One receipt is one transaction of the queue.
ApplyReceipt(r) ==
  /\ recon.step = "answered"
  /\ r \in recon.todo /\ \A q \in recon.todo : r <= q
  /\ IF r \in recon.present
     THEN IF r \in recon.confirm THEN AcknowledgeOnce(r) ELSE UNCHANGED vars
     ELSE IF status[r] = "acknowledged" THEN RequeueAcknowledged(r) ELSE UNCHANGED vars
  /\ recon' = IF recon.todo = {r} THEN PageDone ELSE [recon EXCEPT !.todo = @ \ {r}]
  /\ UNCHANGED <<sending, networkVars, kioskVars, aged>>
-----------------------------------------------------------------------------
\* An operator retries a dead letter, at most while TotalAttempts allows it.
Retry(r) ==
  /\ MayRequeue(r)
  /\ RequeueDeadLetter(r)
  /\ UNCHANGED <<sending, networkVars, kioskVars, passVars>>

Pass ==
  /\ Tick
  /\ UNCHANGED <<sending, networkVars, kioskVars, passVars>>

SenderStep(s) ==
  \/ \E r \in Row : Send(s, r)
  \/ Sweep(s)
  \/ TakeAck(s)
  \/ Fail(s)

Reconcile ==
  \/ MonthPass \/ RecentPass \/ NextPage
  \/ AskReceipts
  \/ \E r \in Row : ApplyReceipt(r)

DeliveryNext ==
  \/ \E s \in Sender : SenderStep(s) \/ Crash(s)
  \/ \E q \in requests : Ingest(q) \/ LoseRequest(q)
  \/ LoseReceipts
  \/ Reconcile
  \/ AbortPass
  \/ \E r \in Row : Retry(r) \/ Age(r)
  \/ Pass

RelaySpec == DeliveryInit /\ [][DeliveryNext]_deliverVars

\* A pass goes on or ends: its requests have a timeout.
Proceed == NextPage \/ AskReceipts \/ AbortPass \/ \E r \in Row : ApplyReceipt(r)

\* A pass that covers the recent window: a recent one, or one of its month.
Covers(step) == Recent \subseteq recon.window /\ step

\* Time passes; every sender keeps taking its next step, whatever the network
\* does to it; every pass ends; the kiosk schedules recent reconciliations for ever, and no page
\* of them is asked for again and again without once being answered and applied.
FairRelaySpec ==
  /\ RelaySpec
  /\ WF_deliverVars(Pass)
  /\ \A s \in Sender : WF_deliverVars(SenderStep(s))
  /\ WF_deliverVars(Proceed)
  /\ SF_deliverVars(RecentPass)
  /\ SF_deliverVars(Covers(NextPage))
  /\ \A r \in Row : /\ SF_deliverVars(Covers(AskReceipt(r)))
                    /\ SF_deliverVars(Covers(ApplyReceipt(r)))
-----------------------------------------------------------------------------
Settlement(queued) == IF queued = "acknowledged" THEN "delivered"
                      ELSE IF queued = "dead_letter" THEN "dead" ELSE "pending"
settlements == [r \in Row |-> Settlement(status[r])]

Promise == INSTANCE ReliableDelivery WITH Event <- Row, settled <- settlements

\* The relay keeps the promise of ReliableDelivery: through crashes, expired
\* leases, late answers, lost kiosks and racing reconciliation passes, only a
\* durable receipt ever settles an event as delivered, and an event leaves the
\* queue in no other way than by a receipt or an exhausted retry cycle.
KeepsPromise == Promise!Spec

Made(q) == q[2] \in 1 .. Attempts(q[1])

SendersOK ==
  /\ sending \in [Sender -> Attempt \cup {None}]
  /\ \A s \in Sender : sending[s] # None => Made(sending[s])
RequestsOK == requests \subseteq Attempt /\ \A q \in requests : Made(q)
RepliesOK ==
  /\ replies \subseteq Attempt
  /\ \A q \in replies : q[1] \in confirmed /\ \E s \in Sender : sending[s] = q
KioskOK ==
  /\ received \subseteq confirmed /\ confirmed \subseteq Row
  /\ other \subseteq Row \ received
  /\ losses \in 0 .. MaxLosses
ReconOK ==
  /\ aged \subseteq Row
  /\ recon \in [step : {"idle", "listed", "answered", "next"}, window : SUBSET Row,
             after : 0 .. RowCount, todo : SUBSET Row, confirm : SUBSET Row,
             present : SUBSET confirmed]
  /\ recon.todo \subseteq recon.window

\* Types, and what is in flight: requests and answers are of attempts really
\* made, an answer is on its way only to the sender that waits for it, answers
\* and receipts only ever speak of events the kiosk has held, and a pass decides
\* nothing about an event outside its window.
RelayTypeOK == SendersOK /\ RequestsOK /\ RepliesOK /\ KioskOK /\ ReconOK

\* What the kiosk holds is in the end acknowledged at the relay, however many
\* acknowledgements were lost and even if the retries ran out: the next recent
\* pass that completes repairs it.  The exception is real: a pass looks at no
\* event outside its window (reconciliation.py:216-218), so one that goes dead
\* unacknowledged and is by then too old stays dead, though the kiosk has it.
HeldIsAcknowledged ==
  \A r \in Row :
    r \in received ~> (status[r] = "acknowledged" \/ r \notin received \/ r \in aged)
=============================================================================
