----------------------------- MODULE SpeechQueue -----------------------------
(* The runtime's speech queue: turns, modes, notifications and open views put *)
(* utterances on one list, a speech thread takes and speaks them one by one,  *)
(* and the Qt thread cancels a view's scope, interrupts, covers the kiosk for *)
(* Quiet Hours or closes.  The list, the cancelled flags and active_tts_item  *)
(* change under tts_queue_lock; tts_active, interrupted and the list itself   *)
(* are also read without it.  What is said is abstracted away; an utterance   *)
(* is put at most once.                                                       *)
EXTENDS Naturals, Sequences, FiniteSets, SequencesExt, Lists

CONSTANTS Item, Scope, NoScope, NoItem

ASSUME SpeechConstants == NoScope \notin Scope /\ NoItem \notin Item

VARIABLES queue,         \* tts_queue
          scope,         \* the scope of each utterance, NoScope for none
          offered,       \* past the Quiet Hours test, not yet on the list
          used,          \* utterances some caller has asked for
          cancelled,     \* whose cancelled event is set
          completed,     \* whose on_complete was posted
          tts, item,     \* the speech thread and its local
          activeItem, ttsActive,
          interrupted, locked, exiting,
          speechUi,            \* the Qt thread, between raising a flag and the lock
          waiter, awaited  \* wait_for_tts on the worker thread

requests == <<scope, offered, used>>
speech == <<tts, item, activeItem, ttsActive>>
flags == <<interrupted, locked, exiting, speechUi>>
waiting == <<waiter, awaited>>
speechVars == <<queue, requests, cancelled, completed, speech, flags, waiting>>

SpeechInit ==
    /\ queue = <<>> /\ scope = [i \in Item |-> NoScope]
    /\ offered = {} /\ used = {} /\ cancelled = {} /\ completed = {}
    /\ tts = "poll" /\ item = NoItem /\ activeItem = NoItem /\ ttsActive = FALSE
    /\ interrupted = FALSE /\ locked = FALSE /\ exiting = FALSE /\ speechUi = "free"
    /\ waiter = "idle" /\ awaited = {}

\* tts_queue_lock is held across steps only while the thread marks what it took
LockFree == tts # "popped"

InScope(s) == {i \in Item : scope[i] = s /\ s # NoScope}

\* the queued and active utterances of a set; they are taken off and cancelled
Live(S) == (ToSet(queue) \cup {activeItem}) \cap S
Without(S) == Excluding(queue, S)

-----------------------------------------------------------------------------
(* Callers *)

\* enqueue_speech, _enqueue_scoped_speech and a notification read the Quiet
\* Hours lock first; when it holds, only enqueue_speech reports completion
Offer(i, s) ==
    /\ i \notin used /\ used' = used \cup {i}
    /\ scope' = [scope EXCEPT ![i] = s]
    /\ IF locked
       THEN /\ UNCHANGED offered
            /\ completed' \in {completed} \cup (IF s = NoScope THEN {completed \cup {i}} ELSE {})
       ELSE offered' = offered \cup {i} /\ UNCHANGED completed
    /\ UNCHANGED <<queue, cancelled, speech, flags, waiting>>

\* slip: the queued utterances of the scope go, the one being spoken stays
QueuedOnly(i) == InScope(scope[i]) \cap ToSet(queue)

\* what a scoped utterance replaces
Replaced(i) == Live(InScope(scope[i]))

Put(i) ==
    /\ i \in offered /\ LockFree
    /\ offered' = offered \ {i}
    /\ cancelled' = cancelled \cup Replaced(i)
    /\ queue' = Append(Without(Replaced(i)), i)
    /\ UNCHANGED <<scope, used, completed, speech, flags, waiting>>

\* announcer.cancel(), by the view or when it closes
CancelScope(s) ==
    /\ LockFree
    /\ cancelled' = cancelled \cup Live(InScope(s))
    /\ queue' = Without(InScope(s))
    /\ UNCHANGED <<requests, completed, speech, flags, waiting>>

-----------------------------------------------------------------------------
(* The Qt thread: a flag, then everything queued or active is cancelled *)

RaiseInterrupt ==
    /\ speechUi = "free" /\ interrupted' = TRUE /\ speechUi' = "clear"
    /\ UNCHANGED <<queue, requests, cancelled, completed, speech, locked, exiting, waiting>>

BeginQuietHours ==
    /\ speechUi = "free" /\ ~locked
    /\ locked' = TRUE /\ interrupted' = TRUE /\ speechUi' = "clear"
    /\ UNCHANGED <<queue, requests, cancelled, completed, speech, exiting, waiting>>

RaiseExit ==
    /\ speechUi = "free" /\ ~exiting
    /\ exiting' = TRUE /\ interrupted' = TRUE /\ speechUi' = "clear"
    /\ UNCHANGED <<queue, requests, cancelled, completed, speech, locked, waiting>>

ClearQueue ==
    /\ speechUi = "clear" /\ LockFree /\ speechUi' = "free"
    /\ cancelled' = cancelled \cup Live(Item)
    /\ queue' = <<>>
    /\ UNCHANGED <<requests, completed, speech, interrupted, locked, exiting, waiting>>

\* the parent's passcode, or the end of the period
EndQuietHours ==
    /\ speechUi = "free" /\ locked
    /\ locked' = FALSE /\ interrupted' = FALSE
    /\ UNCHANGED <<queue, requests, cancelled, completed, speech, exiting, speechUi, waiting>>

\* a turn, or the recovery of one, clears the flag on the worker thread
ClearInterrupt ==
    /\ interrupted /\ interrupted' = FALSE
    /\ UNCHANGED <<queue, requests, cancelled, completed, speech, locked, exiting, speechUi, waiting>>

-----------------------------------------------------------------------------
(* The speech thread, _tts_worker *)

Pop ==
    /\ tts = "poll" /\ ~exiting /\ queue # <<>>
    /\ item' = Head(queue) /\ queue' = Tail(queue) /\ tts' = "popped"
    /\ UNCHANGED <<requests, cancelled, completed, activeItem, ttsActive, flags, waiting>>

MarkActive ==
    /\ tts = "popped" /\ tts' = "speak"
    /\ IF item \in cancelled
       THEN UNCHANGED <<activeItem, ttsActive>>
       ELSE activeItem' = item /\ ttsActive' = TRUE
    /\ UNCHANGED <<queue, requests, cancelled, completed, item, flags, waiting>>

\* the item is spoken to its end, cut short, or skipped
Spoken ==
    /\ tts = "speak" /\ tts' = "post"
    /\ activeItem' = (IF activeItem = item THEN NoItem ELSE activeItem)
    /\ ttsActive' = FALSE
    /\ UNCHANGED <<queue, requests, cancelled, completed, item, flags, waiting>>

Reports == item \notin cancelled /\ ~exiting

Post ==
    /\ tts = "post"
    /\ completed' = completed \cup (IF Reports THEN {item} ELSE {})
    /\ tts' = (IF exiting THEN "done" ELSE "poll") /\ item' = NoItem
    /\ UNCHANGED <<queue, requests, cancelled, activeItem, ttsActive, flags, waiting>>

Quit ==
    /\ tts = "poll" /\ exiting
    /\ tts' = "done" /\ ttsActive' = FALSE
    /\ UNCHANGED <<queue, requests, cancelled, completed, item, activeItem, flags, waiting>>

-----------------------------------------------------------------------------
(* wait_for_tts on the worker thread reads the list, then the event, unlocked *)

Wait ==
    /\ waiter = "idle" /\ ~exiting
    /\ waiter' = "queue" /\ awaited' = ToSet(queue)
    /\ UNCHANGED <<queue, requests, cancelled, completed, speech, flags>>

\* slip: the event alone is looked at
QueueNotRead == TRUE

QueueEmpty == queue = <<>>

\* sleep a little, or give up because of an interrupt or the exit
AgainOrLeave == waiter' = (IF interrupted \/ exiting THEN "idle" ELSE "queue")

ReadQueue ==
    /\ waiter = "queue"
    /\ IF QueueEmpty THEN waiter' = "event" ELSE AgainOrLeave
    /\ UNCHANGED <<queue, requests, cancelled, completed, speech, flags, awaited>>

ReadEvent ==
    /\ waiter = "event"
    /\ IF ttsActive THEN AgainOrLeave ELSE waiter' = "idle"
    /\ UNCHANGED <<queue, requests, cancelled, completed, speech, flags, awaited>>

-----------------------------------------------------------------------------
SpeechThread == Pop \/ MarkActive \/ Spoken \/ Post \/ Quit

SpeechNext ==
    \/ \E i \in Item, s \in Scope \cup {NoScope} : Offer(i, s)
    \/ \E i \in Item : Put(i)
    \/ \E s \in Scope : CancelScope(s)
    \/ RaiseInterrupt \/ BeginQuietHours \/ RaiseExit \/ ClearQueue
    \/ EndQuietHours \/ ClearInterrupt
    \/ SpeechThread
    \/ Wait \/ ReadQueue \/ ReadEvent

SpeechSpec == SpeechInit /\ [][SpeechNext]_speechVars

\* The speech thread is a loop that always runs, and every utterance ends
FairSpeechSpec == SpeechSpec /\ WF_speechVars(SpeechThread)

-----------------------------------------------------------------------------
(* Properties *)

RequestsTyped ==
    /\ queue \in Seq(Item) /\ IsInjective(queue)
    /\ scope \in [Item -> Scope \cup {NoScope}]
    /\ offered \subseteq used /\ used \subseteq Item
    /\ ToSet(queue) \subseteq used /\ cancelled \subseteq used /\ completed \subseteq used
    /\ awaited \subseteq used

ThreadsTyped ==
    /\ tts \in {"poll", "popped", "speak", "post", "done"}
    /\ item \in used \cup {NoItem} /\ (item = NoItem <=> tts \in {"poll", "done"})
    /\ activeItem = (IF tts = "speak" THEN item ELSE NoItem)
    /\ ttsActive \in BOOLEAN /\ (ttsActive <=> tts = "speak")
    /\ interrupted \in BOOLEAN /\ locked \in BOOLEAN /\ exiting \in BOOLEAN
    /\ speechUi \in {"free", "clear"} /\ waiter \in {"idle", "queue", "event"}

SpeechTypeOK == RequestsTyped /\ ThreadsTyped

\* Newer speech of a view replaces its older speech, so at any moment a view has
\* at most one utterance that can still be heard, whether it waits, was just
\* taken or is being spoken (_enqueue_scoped_speech against _tts_worker).
OneLivePerScope ==
    \A s \in Scope :
        LET heard == {i \in ToSet(queue) \cup {item} : i \in InScope(s) /\ i \notin cancelled}
        IN Cardinality(IF tts = "post" THEN heard \ {item} ELSE heard) <= 1

\* A turn that waits for its speech leaves, if nothing interrupted it, with none
\* of it queued or being spoken.  The one exception is an utterance the speech
\* thread has taken from the list but not yet marked active: the two unlocked
\* reads of wait_for_tts fit in between, and the turn ends before it is heard.
TurnOutlastsSpeech ==
    [][(waiter = "event" /\ waiter' = "idle" /\ ~interrupted /\ ~exiting) =>
          \A i \in awaited : /\ i \notin ToSet(queue)
                             /\ i = item => tts \in {"popped", "post"}]_speechVars

\* Every utterance put on the list is completed or cancelled, also when an old
\* interrupt makes the speaker skip it, unless the assistant closes.
AnnouncementSettles ==
    \A i \in Item : i \in ToSet(queue) ~> (i \in completed \cup cancelled \/ exiting)

\* The speech queue in every state (_enqueue_scoped_speech, _tts_worker).
SpeechIsSafe == SpeechTypeOK /\ OneLivePerScope

\* What those who wait for speech rely on (wait_for_tts, on_complete).
SpeechSettles == TurnOutlastsSpeech /\ AnnouncementSettles
=============================================================================
