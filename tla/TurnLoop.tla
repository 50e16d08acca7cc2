------------------------------ MODULE TurnLoop ------------------------------
(* The assistant worker of bmo.runtime.AssistantRuntime and the work other   *)
(* threads hand it.  One daemon thread runs RuntimeWorkerLoop: each pass      *)
(* takes pending typed, vision or mode work, or waits for a trigger and runs  *)
(* a voice turn.  The Qt thread queues work, presses push-to-talk, interrupts,*)
(* applies Quiet Hours and closes; both share four threading.Events.          *)
(*                                                                            *)
(* A worker step is one critical section or one read of shared state.  The    *)
(* content of a turn (transcript, model text, tool) is abstracted to how it   *)
(* ends.  Notifications post SPEAKING and IDLE from other threads at any      *)
(* time, so the state that gates interrupt() and toggle_ptt() is unknown here.*)
EXTENDS Naturals, Sequences, FiniteSets

CONSTANTS Vision,        \* the vision requests a view may queue, each once
          Mode,          \* menu-visible interaction modes
          Suspends,      \* the modes whose input policy is SUSPENDED
          NoMode,        \* no mode is active
          MaxTyped,      \* bound: typed requests submitted
          MaxLaunches    \* bound: mode launches waiting at a time

ASSUME TurnConstants == /\ Suspends \subseteq Mode
                        /\ NoMode \notin Mode
                        /\ MaxTyped \in Nat /\ MaxLaunches \in Nat

VARIABLES pc,            \* where the worker is
          recheck,       \* the pending work is looked at after a MENU trigger
          turn,          \* the kind of turn in progress, <<kind, what>>
          typed,         \* _typed_requests: how many are waiting
          submitted,     \* how many typed requests were ever submitted
          visionQ,       \* _vision_requests
          modeQ,         \* _mode_requests
          answered,      \* vision requests whose on_complete was posted
          active,        \* the mode that owns input
          wake,          \* wake_event, alias menu_action_event
          interrupted, ptt, recording,   \* the other threading.Events
          locked,        \* KioskAccessPolicy.is_locked
          covered,       \* _quiet_hours_active: the lock has been applied
          ui,            \* where the Qt thread is
          exiting, closed

worker == <<pc, recheck, turn>>
queues == <<typed, submitted, visionQ, modeQ, answered>>
signals == <<wake, interrupted, ptt, recording>>
kiosk == <<locked, covered>>
life == <<ui, exiting, closed>>
turnVars == <<worker, queues, signals, kiosk, life, active>>

NoTurn == <<"none">>
PcRange == {"init", "loop", "quiet", "typed", "typed_clear", "vision", "mode",
            "idle_clear", "policy", "arm", "wait", "gate", "capture", "begin",
            "chat", "start_mode", "done", "failed"}
Turns == {NoTurn, <<"typed">>} \cup ({"vision"} \X Vision) \cup ({"mode"} \X Mode)
         \cup ({"voice"} \X {"PTT", "WAKE", "MODE", "STOP"})

TurnInit ==
    /\ pc = "init" /\ recheck = FALSE /\ turn = NoTurn
    /\ typed = 0 /\ submitted = 0 /\ visionQ = <<>> /\ modeQ = <<>>
    /\ answered = {} /\ active = NoMode
    /\ wake = FALSE /\ interrupted = FALSE /\ ptt = FALSE /\ recording = FALSE
    /\ locked = FALSE /\ covered = FALSE
    /\ ui = "free" /\ exiting = FALSE /\ closed = FALSE

-----------------------------------------------------------------------------
(* The worker thread *)

\* slip: a wait that does not poll the exit flags
StopNotPolled == FALSE

\* _stopping, and the loop's own test of the same two flags
Stopping == exiting

Goto(l) == pc' = l /\ UNCHANGED <<recheck, turn>>

\* slips: one queue forgotten, or the event cleared after every turn
WakeKeptForVision(v, m) == wake /\ (closed \/ v # <<>>)
WakeCleared(v, m) == wake /\ closed

\* _clear_wake_if_idle_locked: only the two menu queues are looked at
WakeUnlessIdle(v, m) == wake /\ (closed \/ v # <<>> \/ m # <<>>)

\* warm-up and the start of the speech thread; a failure here ends the worker
Initialize ==
    /\ pc = "init"
    /\ Goto("loop") \/ Goto("failed")
    /\ UNCHANGED <<queues, signals, kiosk, life, active>>

LoopTest ==
    /\ pc = "loop"
    /\ pc' = (IF Stopping THEN "done" ELSE "quiet")
    /\ turn' = NoTurn /\ recheck' = FALSE
    /\ UNCHANGED <<queues, signals, kiosk, life, active>>

\* the wait through Quiet Hours at the head of next_turn
QuietWait ==
    /\ pc = "quiet"
    /\ \/ Stopping /\ Goto("done")
       \/ ~Stopping /\ ~locked /\ Goto("typed")
    /\ UNCHANGED <<queues, signals, kiosk, life, active>>

TakeTyped ==
    /\ pc = "typed"
    /\ IF typed = 0
       THEN Goto("vision") /\ UNCHANGED typed
       ELSE /\ typed' = typed - 1
            /\ turn' = <<"typed">>
            /\ pc' = (IF typed = 1 THEN "typed_clear" ELSE "begin")
            /\ UNCHANGED recheck
    /\ UNCHANGED <<submitted, visionQ, modeQ, answered, signals, kiosk, life, active>>

TypedClear ==
    /\ pc = "typed_clear"
    /\ wake' = WakeUnlessIdle(visionQ, modeQ)
    /\ Goto("begin")
    /\ UNCHANGED <<queues, interrupted, ptt, recording, kiosk, life, active>>

TakeVision ==
    /\ pc = "vision"
    /\ IF closed \/ visionQ = <<>>
       THEN Goto("mode") /\ UNCHANGED <<visionQ, wake>>
       ELSE /\ visionQ' = Tail(visionQ)
            /\ wake' = WakeUnlessIdle(visionQ', modeQ)
            /\ turn' = <<"vision", Head(visionQ)>>
            /\ pc' = "begin" /\ UNCHANGED recheck
    /\ UNCHANGED <<typed, submitted, modeQ, answered, interrupted, ptt, recording,
                   kiosk, life, active>>

TakeMode ==
    /\ pc = "mode"
    /\ IF closed \/ modeQ = <<>>
       THEN Goto("idle_clear") /\ UNCHANGED <<modeQ, wake>>
       ELSE /\ modeQ' = Tail(modeQ)
            /\ wake' = WakeUnlessIdle(visionQ, modeQ')
            /\ turn' = <<"mode", Head(modeQ)>>
            /\ pc' = "start_mode" /\ UNCHANGED recheck
    /\ UNCHANGED <<typed, submitted, visionQ, answered, interrupted, ptt, recording,
                   kiosk, life, active>>

\* clear_wake_if_idle when nothing was pending; after a MENU trigger the turn
\* is HANDLED whether or not anything was found
IdleClear ==
    /\ pc = "idle_clear"
    /\ wake' = WakeUnlessIdle(visionQ, modeQ)
    /\ Goto(IF recheck THEN "loop" ELSE "policy")
    /\ UNCHANGED <<queues, interrupted, ptt, recording, kiosk, life, active>>

\* the input policy of the active mode: SUSPENDED waits, CONTINUOUS captures
\* at once, no mode waits for a trigger
ChoosePolicy ==
    /\ pc = "policy"
    /\ \/ Stopping /\ pc' = "done" /\ UNCHANGED turn
       \/ /\ ~Stopping /\ active = NoMode
          /\ pc' = "arm" /\ UNCHANGED turn
       \/ /\ ~Stopping /\ active \in Mode \ Suspends
          /\ pc' = "gate" /\ turn' = <<"voice", "MODE">>
    /\ UNCHANGED <<recheck, queues, signals, kiosk, life, active>>

\* wait_for_trigger begins by clearing the push-to-talk event
Arm ==
    /\ pc = "arm" /\ ptt' = FALSE /\ Goto("wait")
    /\ UNCHANGED <<queues, wake, interrupted, recording, kiosk, life, active>>

\* the events wait_for_trigger polls
Signalled ==
    /\ pc = "wait"
    /\ \/ exiting /\ pc' = "gate" /\ turn' = <<"voice", "STOP">> /\ UNCHANGED <<recheck, ptt>>
       \/ ~exiting /\ wake /\ pc' = "typed" /\ recheck' = TRUE /\ UNCHANGED <<turn, ptt>>
       \/ /\ ~exiting /\ ~wake /\ ptt
          /\ ptt' = FALSE /\ pc' = "gate" /\ turn' = <<"voice", "PTT">> /\ UNCHANGED recheck
    /\ UNCHANGED <<queues, wake, interrupted, recording, kiosk, life, active>>

\* the wake word, or a line on standard input
Heard ==
    /\ pc = "wait" /\ ~exiting
    /\ pc' = "gate" /\ turn' = <<"voice", "WAKE">>
    /\ UNCHANGED <<recheck, queues, signals, kiosk, life, active>>

\* the checks between a trigger and the capture
Gate ==
    /\ pc = "gate"
    /\ IF exiting THEN Goto("done") /\ UNCHANGED interrupted
       ELSE IF interrupted THEN interrupted' = FALSE /\ Goto("loop")
       ELSE Goto("capture") /\ UNCHANGED interrupted
    /\ UNCHANGED <<queues, wake, ptt, recording, kiosk, life, active>>

\* capture and transcription: nothing heard, or a transcript to answer
Capture ==
    /\ pc = "capture"
    /\ (turn = <<"voice", "PTT">>) => (~recording \/ exiting)
    /\ Goto("loop") \/ Goto("begin")
    /\ UNCHANGED <<queues, signals, kiosk, life, active>>

\* each kind of turn clears the interrupt before it runs
Begin ==
    /\ pc = "begin"
    /\ interrupted' = FALSE
    /\ Goto("chat")
    /\ UNCHANGED <<queues, wake, ptt, recording, kiosk, life, active>>

\* what chat_and_respond leaves the registry with: an image turn is not routed;
\* otherwise the active mode may end, or a matching mode may start
Routed == IF turn[1] = "vision" \/ closed THEN {active}
          ELSE IF active = NoMode THEN Mode \cup {NoMode}
          ELSE {active, NoMode}

\* on_complete is posted in the finally block of a vision turn
Answers == answered \cup (IF turn[1] = "vision" THEN {turn[2]} ELSE {})

Chat ==
    /\ pc = "chat"
    /\ active' \in Routed
    /\ answered' = Answers
    /\ Goto("loop")
    /\ UNCHANGED <<typed, submitted, visionQ, modeQ, signals, kiosk, life>>

\* start_menu_item: the same mode is an idempotent launch, another one is an error
StartMode ==
    /\ pc = "start_mode"
    /\ active \in {NoMode, turn[2]} /\ ~closed
    /\ active' \in {turn[2], NoMode}
    /\ Goto("loop")
    /\ UNCHANGED <<queues, signals, kiosk, life>>

\* slip: an exception that escapes the loop
FailureEscapes == "done"

\* an exception in a turn: recovered (which clears the interrupt) unless closing
AfterFailure == IF exiting THEN "done" ELSE "loop"

Fail ==
    /\ pc \in {"policy", "capture", "chat", "start_mode"}
    /\ (pc = "policy") => (active # NoMode)
    /\ pc' = AfterFailure /\ UNCHANGED <<recheck, turn>>
    /\ interrupted' = (interrupted /\ exiting)
    /\ answered' = (IF pc = "chat" THEN Answers ELSE answered)
    /\ active' \in {active, NoMode}
    /\ UNCHANGED <<typed, submitted, visionQ, modeQ, wake, ptt, recording, kiosk, life>>

-----------------------------------------------------------------------------
(* The Qt thread *)

Free == ui = "free" /\ ~covered

\* submit_text: the request is queued, then, in a second statement, the worker woken
SubmitText ==
    /\ Free /\ submitted < MaxTyped
    /\ typed' = typed + 1 /\ submitted' = submitted + 1
    /\ ui' = "submit"
    /\ UNCHANGED <<worker, visionQ, modeQ, answered, signals, kiosk, exiting, closed, active>>

SubmitWake ==
    /\ ui = "submit" /\ ui' = "free" /\ wake' = TRUE
    /\ UNCHANGED <<worker, queues, interrupted, ptt, recording, kiosk, exiting, closed, active>>

QueueVision(v) ==
    /\ Free /\ v \notin answered /\ turn # <<"vision", v>>
    /\ \A i \in DOMAIN visionQ : visionQ[i] # v
    /\ visionQ' = Append(visionQ, v) /\ wake' = TRUE
    /\ UNCHANGED <<worker, typed, submitted, modeQ, answered, interrupted, ptt,
                   recording, kiosk, life, active>>

QueueMode(m) ==
    /\ Free /\ Len(modeQ) < MaxLaunches
    /\ modeQ' = Append(modeQ, m) /\ wake' = TRUE
    /\ UNCHANGED <<worker, typed, submitted, visionQ, answered, interrupted, ptt,
                   recording, kiosk, life, active>>

\* the view of the active mode is closed by the user
LeaveMode ==
    /\ Free /\ active # NoMode /\ active' = NoMode
    /\ UNCHANGED <<worker, queues, signals, kiosk, life>>

TogglePTT ==
    /\ ui = "free" /\ ~locked
    /\ recording' = ~recording
    /\ ptt' = (ptt \/ ~recording)
    /\ UNCHANGED <<worker, queues, wake, interrupted, kiosk, life, active>>

Interrupt ==
    /\ ui = "free" /\ interrupted' = TRUE
    /\ UNCHANGED <<worker, queues, wake, ptt, recording, kiosk, life, active>>

\* the wall clock enters or leaves the scheduled period
ClockMoves ==
    /\ ~exiting /\ locked' = ~locked
    /\ UNCHANGED <<worker, queues, signals, covered, life, active>>

\* check_quiet_hours, on a one second timer
CheckQuietHours ==
    /\ ui = "free" /\ locked # covered
    /\ covered' = locked
    /\ interrupted' = locked
    /\ wake' = (wake \/ locked)
    /\ UNCHANGED <<worker, queues, ptt, recording, locked, life, active>>

UnlockQuietHours ==
    /\ ui = "free" /\ locked
    /\ locked' = FALSE /\ covered' = FALSE /\ interrupted' = FALSE
    /\ UNCHANGED <<worker, queues, wake, ptt, recording, life, active>>

\* slip: the flag is forgotten
CloseWithoutFlag ==
    /\ ui = "free" /\ ui' = "closing"
    /\ UNCHANGED <<worker, queues, signals, kiosk, exiting, closed, active>>

\* close(): the flag, then the coordinator and its registries, then the
\* remaining events
CloseBegin ==
    /\ ui = "free" /\ ui' = "closing" /\ exiting' = TRUE
    /\ UNCHANGED <<worker, queues, signals, kiosk, closed, active>>

CloseExtensions ==
    /\ ui = "closing" /\ ui' = "closed" /\ closed' = TRUE
    /\ wake' = TRUE /\ visionQ' = <<>> /\ modeQ' = <<>> /\ active' = NoMode
    /\ UNCHANGED <<worker, typed, submitted, answered, interrupted, ptt, recording,
                   kiosk, exiting>>

CloseEvents ==
    /\ ui = "closed" /\ ui' = "gone"
    /\ interrupted' = TRUE /\ ptt' = TRUE /\ recording' = FALSE
    /\ UNCHANGED <<worker, queues, wake, kiosk, exiting, closed, active>>

-----------------------------------------------------------------------------
WorkerStep == \/ Initialize \/ LoopTest \/ QuietWait \/ TakeTyped \/ TypedClear
              \/ TakeVision \/ TakeMode \/ IdleClear \/ ChoosePolicy \/ Arm
              \/ Signalled \/ Gate \/ Capture \/ Begin \/ Chat \/ StartMode

\* a start that is refused can only fail, and then it does
RefusedStart == pc = "start_mode" /\ Fail

TurnNext == \/ WorkerStep \/ Heard \/ Fail
            \/ SubmitText \/ SubmitWake
            \/ \E v \in Vision : QueueVision(v)
            \/ \E m \in Mode : QueueMode(m)
            \/ LeaveMode \/ TogglePTT \/ Interrupt
            \/ ClockMoves \/ CheckQuietHours \/ UnlockQuietHours
            \/ CloseBegin \/ CloseExtensions \/ CloseEvents

TurnSpec == TurnInit /\ [][TurnNext]_turnVars

\* The worker thread is never starved and every turn ends; the second statement
\* of a Qt handler runs; whoever holds push-to-talk lets go, and because taps
\* are debounced by 0.5 s while the recorder polls every 50 ms it sees that they
\* did; close() completes.
FairTurnSpec == /\ TurnSpec
                /\ WF_turnVars(WorkerStep \/ RefusedStart)
                /\ SF_turnVars(Capture)
                /\ WF_turnVars(SubmitWake)
                /\ WF_turnVars(CloseExtensions \/ CloseEvents)
                /\ WF_turnVars(pc = "capture" /\ recording /\ TogglePTT)

-----------------------------------------------------------------------------
(* Properties *)

WorkerTyped == pc \in PcRange /\ recheck \in BOOLEAN /\ turn \in Turns

QueuesTyped ==
    /\ typed \in 0..submitted /\ submitted \in 0..MaxTyped
    /\ visionQ \in Seq(Vision) /\ modeQ \in Seq(Mode) /\ Len(modeQ) <= MaxLaunches
    /\ answered \subseteq Vision /\ active \in Mode \cup {NoMode}

EventsTyped ==
    /\ wake \in BOOLEAN /\ interrupted \in BOOLEAN /\ ptt \in BOOLEAN
    /\ recording \in BOOLEAN /\ locked \in BOOLEAN /\ covered \in BOOLEAN

LifeTyped ==
    /\ ui \in {"free", "submit", "closing", "closed", "gone"}
    /\ exiting \in BOOLEAN /\ closed \in BOOLEAN
    /\ exiting <=> ui \in {"closing", "closed", "gone"}

TurnTypeOK == WorkerTyped /\ QueuesTyped /\ EventsTyped /\ LifeTyped

\* While a mode launch or a vision request waits, the event that wakes the
\* worker is set, whatever the worker takes and clears in between: the lock
\* around both queues and the clear is what no test of one thread can show
\* (runtime_extensions.py, queue_mode to _clear_wake_if_idle_locked).
MenuWorkWakes == (visionQ # <<>> \/ modeQ # <<>>) => wake

\* The worker ends only because close() was called, whatever a turn raised
\* (RuntimeWorkerLoop.run, recover_failure).
EndsOnlyOnClose == pc = "done" => exiting

Usable == ~locked /\ active \notin Suspends

\* A view's vision request is answered, by success or by failure, however the
\* worker's own clearing of the wake event interleaves with the request, unless
\* the assistant closes, or a suspended mode or Quiet Hours holds the worker
\* for ever (queue_vision, take_pending_vision, _start_pending_menu_vision).
VisionAnswered ==
    <>[]Usable =>
        \A v \in Vision : ((\E i \in DOMAIN visionQ : visionQ[i] = v)
                              ~> (v \in answered \/ exiting \/ pc = "failed"))

\* close() gets the worker out of every wait it may be in: Quiet Hours, a
\* suspended mode, the trigger, a push-to-talk capture (AssistantRuntime.close).
CloseEndsWorker == exiting ~> pc \in {"done", "failed"}

\* What the README promises of Quiet Hours: once the cover is up no voice turn
\* is answered.  The executor clears the interrupt the cover set.
CoverBlocksVoice ==
    [][(turn[1] = "voice" /\ pc = "begin" /\ pc' = "chat") => ~covered]_turnVars

=============================================================================
