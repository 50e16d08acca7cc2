-------------------------- MODULE CalendarAttentions --------------------------
(* The attentions the calendar publishes for today, by two threads that share *)
(* no lock: the midnight worker, and the Qt thread after every change to the  *)
(* events (Calendar) and on every acknowledgement.  An attention is named for *)
(* its occurrence: an event and a date.                                       *)
EXTENDS Naturals, FiniteSets

CONSTANTS Entry, LastDay
ASSUME CalendarAttentionsConstants == LastDay \in Nat

VARIABLES day,          \* the system date
          occurring,    \* the events that occur today, as stored
          acknowledged, \* CalendarStore._acknowledged and acknowledgements.json
          publishing,   \* each thread's _publish_attentions in progress
          published,    \* _published_ids
          lastDate,     \* the date the worker has published
          noticed,      \* attentions of the calendar the runtime holds
          overlapped    \* a change or acknowledgement met a publication

noticeVars == <<day, occurring, acknowledged, publishing, published, lastDate, noticed, overlapped>>

PublishThread == {"worker", "touch"}
NoDay == LastDay + 1
Resting == [pc |-> "idle", current |-> {}]
Nobody == \A t \in PublishThread : publishing[t] = Resting

NoticeInit ==
    /\ day = 0 /\ occurring \in SUBSET Entry /\ acknowledged = {}
    /\ publishing = [t \in PublishThread |-> Resting] /\ published = {} /\ lastDate = NoDay
    /\ noticed = {} /\ overlapped = FALSE

\* what is due on the day and not acknowledged, as read at the start
NoticeDue(entries) == {<<i, day>> : i \in entries} \ acknowledged
Compute(t, entries) ==
    /\ publishing[t] = Resting
    /\ publishing' = [publishing EXCEPT ![t] = [pc |-> "tell", current |-> NoticeDue(entries)]]
    /\ overlapped' = (overlapped \/ ~Nobody)

\* check, at the start and every thirty seconds
WorkerChecks ==
    /\ day # lastDate /\ Compute("worker", occurring) /\ lastDate' = day
    /\ UNCHANGED <<day, occurring, acknowledged, published, noticed>>

\* a change made in the touch view is stored and today published again
EventsChange ==
    /\ \E entries \in SUBSET Entry : Compute("touch", entries) /\ occurring' = entries
    /\ UNCHANGED <<day, acknowledged, published, lastDate, noticed>>

Tell(t) ==
    /\ publishing[t].pc = "tell"
    /\ noticed' = (noticed \ (published \ publishing[t].current)) \union publishing[t].current
    /\ publishing' = [publishing EXCEPT ![t].pc = "record"]
    /\ UNCHANGED <<day, occurring, acknowledged, published, lastDate, overlapped>>

RecordPublished(t) ==
    /\ publishing[t].pc = "record"
    /\ published' = publishing[t].current
    /\ publishing' = [publishing EXCEPT ![t] = Resting]
    /\ UNCHANGED <<day, occurring, acknowledged, lastDate, noticed, overlapped>>

\* CalendarStore.acknowledge: the file is written before the set in memory, and
\* by this alone
StoreAcknowledgement(o) == acknowledged' = acknowledged \union {o}

\* _acknowledge, on the Qt thread; a write that fails leaves everything as it was
AcknowledgeOccurrence(o) ==
    /\ o \in noticed /\ publishing["touch"] = Resting
    /\ StoreAcknowledgement(o)
    /\ noticed' = noticed \ {o} /\ published' = published \ {o}
    /\ overlapped' = (overlapped \/ ~Nobody)
    /\ UNCHANGED <<day, occurring, publishing, lastDate>>

Midnight ==
    /\ day < LastDay /\ day' = day + 1 /\ occurring' \in SUBSET Entry
    /\ overlapped' = (overlapped \/ ~Nobody)
    /\ UNCHANGED <<acknowledged, publishing, published, lastDate, noticed>>

\* the kiosk stops and starts again from the files
CalendarRestarts ==
    /\ publishing' = [t \in PublishThread |-> Resting] /\ published' = {} /\ lastDate' = NoDay
    /\ noticed' = {} /\ overlapped' = FALSE
    /\ UNCHANGED <<day, occurring, acknowledged>>

NoticeNext ==
    \/ WorkerChecks \/ EventsChange \/ Midnight \/ CalendarRestarts
    \/ \E t \in PublishThread : Tell(t) \/ RecordPublished(t)
    \/ \E o \in noticed : AcknowledgeOccurrence(o)

NoticeSpec == NoticeInit /\ [][NoticeNext]_noticeVars

-----------------------------------------------------------------------------
(* Properties *)

\* What the state is made of.
NoticeTypeOK ==
    /\ day \in 0..LastDay /\ lastDate \in 0..NoDay /\ occurring \subseteq Entry
    /\ acknowledged \union published \union noticed \subseteq Entry \X (0..LastDay)
    /\ \A t \in PublishThread : publishing[t].pc \in {"idle", "tell", "record"}

Settled == Nobody /\ lastDate = day => noticed = NoticeDue(occurring)

\* Once the worker has published today and nobody is publishing, the face holds
\* one attention for each occurrence of today that is not acknowledged, and
\* none of another day: as long as no two changes ever overlapped.
TodayIsNoticed == ~overlapped => Settled

\* The same without the condition: what the calendar's documentation says of
\* the worker.  Two publications that overlap leave a deleted or acknowledged
\* occurrence on the face, or drop one that is due.
TodayIsAlwaysNoticed == Settled
=============================================================================
