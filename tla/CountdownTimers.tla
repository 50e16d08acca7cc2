--------------------------- MODULE CountdownTimers ---------------------------
(* bmo.features.set_timer: every countdown timer is on one priority queue     *)
(* served by one thread that sleeps on a condition until the next deadline.   *)
(* Requests (spoken or from the menu) arrive on other threads; the condition  *)
(* makes each scheduler method one step.  Time is counted in ticks, labels    *)
(* and wording are left out.                                                  *)
EXTENDS Naturals, FiniteSets, FiniteSetsExt

CONSTANTS LastTimer,     \* bounds _next_id
          MaxActive,     \* max_timers
          MaxDuration,   \* max_duration_seconds, in ticks
          LastTick       \* bounds the clock
ASSUME TimerConstants == {LastTimer, MaxActive, MaxDuration, LastTick} \subseteq Nat \ {0}

VARIABLES tick,      \* the monotonic clock
          nextId,    \* _next_id
          deadlines, \* deadline and duration of each timer made so far
          active,    \* _active
          heap,      \* _heap, as the set of timers in it
          scheduler, \* the thread: [pc, wake, due]
          notified,  \* the condition was notified since the thread went to sleep
          stopped,   \* _stopped
          rung,      \* timers whose callback was called
          withdrawn, \* timers someone was told are cancelled
          expired,   \* _expired
          attention, \* attentions the runtime shows for timers
          menu       \* the timer view: [open, items, adding, draft, error]

queueVars == <<nextId, deadlines, active, heap>>
timerVars == <<tick, queueVars, scheduler, notified, stopped, rung, withdrawn,
               expired, attention, menu>>

Timer == 1..LastTimer
Never == LastTick + MaxDuration + 1  \* a wait without a timeout
NoMenu == [open |-> FALSE, items |-> {}, adding |-> FALSE, draft |-> 1, error |-> FALSE]

TimerInit ==
    /\ tick = 0 /\ nextId = 1 /\ deadlines = <<>> /\ active = {} /\ heap = {}
    /\ scheduler = [pc |-> "none", wake |-> 0, due |-> {}]
    /\ notified = FALSE /\ stopped = FALSE
    /\ rung = {} /\ withdrawn = {} /\ expired = {} /\ attention = {} /\ menu = NoMenu

Due(t) == deadlines[t].at
Earliest(ts) == Min({Due(t) : t \in ts})
First(ts) == Min({t \in ts : Due(t) = Earliest(ts)})

-----------------------------------------------------------------------------
(* TimerScheduler's methods, each under the condition *)

\* schedule of an accepted duration: the first timer starts the thread
\* slip: the sleeping thread is not told of a change
TellNobody == UNCHANGED notified
WakeScheduler == notified' = TRUE

Schedule(d) ==
    /\ ~stopped /\ Cardinality(active) < MaxActive /\ nextId <= LastTimer
    /\ deadlines' = [t \in 1..nextId |-> IF t = nextId THEN [at |-> tick + d, lasts |-> d] ELSE deadlines[t]]
    /\ active' = active \union {nextId} /\ heap' = heap \union {nextId}
    /\ nextId' = nextId + 1
    /\ scheduler' = IF scheduler.pc = "none" THEN [scheduler EXCEPT !.pc = "scan"] ELSE scheduler
    /\ WakeScheduler

ScheduleRefused == stopped \/ Cardinality(active) >= MaxActive

\* cancel and cancel_all: what they return is told to whoever asked
Withdraw(ts) ==
    /\ ts \subseteq active /\ ts # {}
    /\ active' = active \ ts /\ heap' = heap \ ts
    /\ withdrawn' = withdrawn \union ts
    /\ WakeScheduler

-----------------------------------------------------------------------------
(* SetTimerTool.execute *)

\* _set: a missing or excessive duration, a full queue or a closed scheduler is refused
SetTimer(d) ==
    /\ d \in 1..MaxDuration
    /\ Schedule(d)
    /\ UNCHANGED <<tick, stopped, rung, withdrawn, expired, attention, menu>>

\* _cancel finds its timer by number, by a duration only one has, or as the only one
Meant(request) ==
    CASE request.by = "id" -> {request.n} \intersect active
      [] request.by = "duration" -> {t \in active : deadlines[t].lasts = request.n}
      [] OTHER -> active

CancelRequests == [by : {"id", "duration", "only"}, n : 1..LastTimer]

CancelTimer(request) ==
    /\ Cardinality(Meant(request)) = 1
    /\ Withdraw(Meant(request))
    /\ UNCHANGED <<tick, nextId, deadlines, scheduler, stopped, rung, expired, attention, menu>>

CancelAllTimers ==
    /\ Withdraw(active)
    /\ UNCHANGED <<tick, nextId, deadlines, scheduler, stopped, rung, expired, attention, menu>>

-----------------------------------------------------------------------------
(* The scheduler thread *)

\* one pass of _run under the condition: stop, take what is due, or sleep
Scan ==
    /\ \/ scheduler.pc = "scan"
       \/ scheduler.pc = "asleep" /\ (notified \/ tick >= scheduler.wake)
    /\ notified' = FALSE
    /\ LET waiting == heap \intersect active   \* _discard_cancelled
           late == {t \in waiting : Due(t) <= tick}
       IN  /\ heap' = waiting \ late /\ active' = active \ late
           /\ scheduler' =
                CASE stopped -> [pc |-> "stopped", wake |-> 0, due |-> {}]
                  [] ~stopped /\ late # {} -> [pc |-> "due", wake |-> 0, due |-> late]
                  [] OTHER -> [pc |-> "asleep", due |-> {},
                               wake |-> IF waiting = {} THEN Never ELSE Earliest(waiting)]
    /\ UNCHANGED <<tick, nextId, deadlines, stopped, rung, withdrawn, expired, attention, menu>>

\* the due timers in order, each after a look at _stopped: _timer_expired
Ring ==
    /\ scheduler.pc = "due" /\ ~stopped /\ scheduler.due # {}
    /\ LET t == First(scheduler.due)
       IN  /\ scheduler' = [scheduler EXCEPT !.pc = "notify"]
           /\ rung' = rung \union {t} /\ expired' = expired \union {t}
    /\ UNCHANGED <<tick, queueVars, notified, stopped, withdrawn, attention, menu>>

\* the attention and the notification; a callback that raises is logged
Notify ==
    /\ scheduler.pc = "notify"
    /\ LET t == First(scheduler.due)
       IN  /\ attention' = attention \union {t}
           /\ scheduler' = [scheduler EXCEPT !.pc = "due", !.due = @ \ {t}]
    /\ UNCHANGED <<tick, queueVars, notified, stopped, rung, withdrawn, expired, menu>>

EndPass ==
    /\ scheduler.pc = "due"
    /\ \/ stopped /\ scheduler' = [scheduler EXCEPT !.pc = "stopped", !.due = {}]
       \/ ~stopped /\ scheduler.due = {} /\ scheduler' = [scheduler EXCEPT !.pc = "scan"]
    /\ UNCHANGED <<tick, queueVars, notified, stopped, rung, withdrawn, expired, attention, menu>>

-----------------------------------------------------------------------------
(* The owner: acknowledgement, the menu's view, and close *)

\* _acknowledge_expired: once for each timer
Acknowledge(t) ==
    /\ t \in attention \intersect expired
    /\ expired' = expired \ {t} /\ attention' = attention \ {t}
    /\ UNCHANGED <<tick, queueVars, scheduler, notified, stopped, rung, withdrawn, menu>>

OpenTimers ==
    /\ ~menu.open /\ ~stopped
    /\ menu' = [NoMenu EXCEPT !.open = TRUE, !.items = active]
    /\ UNCHANGED <<tick, queueVars, scheduler, notified, stopped, rung, withdrawn, expired, attention>>

\* refresh, every 250 ms, and the editor's buttons; its draft is clamped
EditTimer ==
    /\ menu.open
    /\ \E adding \in BOOLEAN, draft \in 0..MaxDuration :
          menu' = [menu EXCEPT !.items = active, !.adding = adding,
                               !.draft = draft, !.error = FALSE]
    /\ UNCHANGED <<tick, queueVars, scheduler, notified, stopped, rung, withdrawn, expired, attention>>

\* timer_create: a refused timer keeps the draft and shows an error
CreateFromMenu ==
    /\ menu.open /\ menu.adding
    /\ \/ /\ menu.draft > 0 /\ Schedule(menu.draft)
          /\ menu' = [NoMenu EXCEPT !.open = TRUE, !.items = active']
       \/ /\ menu.draft = 0 \/ ScheduleRefused
          /\ menu' = [menu EXCEPT !.items = active, !.error = TRUE]
          /\ UNCHANGED <<queueVars, scheduler, notified>>
    /\ UNCHANGED <<tick, stopped, rung, withdrawn, expired, attention>>

\* timer_cancel of a row that may be gone by now
CancelFromMenu(t) ==
    /\ menu.open /\ t \in menu.items
    /\ IF t \in active
       THEN Withdraw({t}) /\ menu' = [menu EXCEPT !.items = active', !.error = FALSE]
       ELSE menu' = [menu EXCEPT !.items = active, !.error = TRUE]
            /\ UNCHANGED <<active, heap, withdrawn, notified>>
    /\ UNCHANGED <<tick, nextId, deadlines, scheduler, stopped, rung, expired, attention>>

CloseTimers ==
    /\ menu.open /\ menu' = NoMenu
    /\ UNCHANGED <<tick, queueVars, scheduler, notified, stopped, rung, withdrawn, expired, attention>>

\* close of the scheduler, before it joins the thread
StopScheduler ==
    /\ ~stopped /\ stopped' = TRUE
    /\ active' = {} /\ heap' = {} /\ notified' = TRUE /\ menu' = NoMenu
    /\ scheduler' = IF scheduler.pc = "none" THEN [scheduler EXCEPT !.pc = "stopped"] ELSE scheduler
    /\ UNCHANGED <<tick, nextId, deadlines, rung, withdrawn, expired, attention>>

\* close of the tool once the thread has ended: whatever still shows is dismissed
DismissAll ==
    /\ stopped /\ scheduler.pc = "stopped" /\ expired # {}
    /\ expired' = {} /\ attention' = attention \ expired
    /\ UNCHANGED <<tick, queueVars, scheduler, notified, stopped, rung, withdrawn, menu>>

Pass == /\ tick < LastTick /\ tick' = tick + 1
        /\ UNCHANGED <<queueVars, scheduler, notified, stopped, rung, withdrawn, expired, attention, menu>>

-----------------------------------------------------------------------------
SchedulerStep == Scan \/ Ring \/ Notify \/ EndPass

TimerNext ==
    \/ \E d \in 1..MaxDuration : SetTimer(d)
    \/ \E request \in CancelRequests : CancelTimer(request)
    \/ CancelAllTimers \/ SchedulerStep
    \/ \E t \in Timer : Acknowledge(t) \/ CancelFromMenu(t)
    \/ OpenTimers \/ EditTimer \/ CreateFromMenu \/ CloseTimers
    \/ StopScheduler \/ DismissAll \/ Pass

TimerSpec == TimerInit /\ [][TimerNext]_timerVars

-----------------------------------------------------------------------------
(* Properties *)

\* What the state is made of.
TimerTypeOK ==
    /\ tick \in 0..LastTick /\ nextId \in 1..(LastTimer + 1)
    /\ deadlines \in [1..(nextId - 1) -> [at : Nat, lasts : 1..MaxDuration]]
    /\ active \subseteq 1..(nextId - 1) /\ heap = active /\ Cardinality(active) <= MaxActive
    /\ scheduler.pc \in {"none", "scan", "asleep", "due", "notify", "stopped"}
    /\ scheduler.wake \in 0..Never /\ scheduler.due \subseteq 1..(nextId - 1)
    /\ notified \in BOOLEAN /\ stopped \in BOOLEAN
    /\ rung \union withdrawn \union expired \union attention \subseteq 1..(nextId - 1)
    /\ menu \in [open : BOOLEAN, items : SUBSET Timer, adding : BOOLEAN,
                 draft : 0..MaxDuration, error : BOOLEAN]

\* The thread never sleeps past a deadline: unless it has been notified, it
\* wakes no later than the earliest timer still active, whichever timers were
\* added, cancelled or rang since it went to sleep.
NeverOversleeps ==
    scheduler.pc = "asleep" /\ ~notified /\ active # {} => scheduler.wake <= Earliest(active)

\* A timer whose cancellation was reported does not ring, and none rings early
\* or twice, although the thread takes due timers before it handles them.
CancelledStaysSilent ==
    /\ rung \intersect withdrawn = {}
    /\ \A t \in rung \union scheduler.due : Due(t) <= tick
    /\ scheduler.pc = "due" => rung \intersect scheduler.due = {}

\* Once the tool is closed no attention of a timer is left on the face.
NoAttentionOutlivesClose ==
    stopped /\ scheduler.pc = "stopped" /\ expired = {} => attention = {}

\* What a countdown promises: on time, never after it was cancelled, and
\* nothing left on the face.
TimersKeepTime == TimerTypeOK /\ NeverOversleeps /\ CancelledStaysSilent /\ NoAttentionOutlivesClose
=============================================================================
