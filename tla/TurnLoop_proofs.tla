--------------------------- MODULE TurnLoop_proofs ---------------------------
(* Four guarantees of the worker loop, for any set of views and modes.  The    *)
(* first two are inductive as they stand: the lock makes the queues and event  *)
(* change together, and the worker reads the exit flags before it ends.        *)
(* The last follows the steps themselves: what is taken from the queue is the  *)
(* turn in progress, and its end posts the answer, failed or not.              *)
EXTENDS TurnLoop, TLAPS

(* Whenever menu work is queued the wake event is set: each worker step that   *)
(* clears the event does so under the lock, after looking at both queues.      *)
THEOREM WorkAlwaysWakes == TurnSpec => []MenuWorkWakes
<1>1. TurnInit => MenuWorkWakes
  BY DEF TurnInit, MenuWorkWakes
<1>2. MenuWorkWakes /\ [TurnNext]_turnVars => MenuWorkWakes'
  <2> SUFFICES ASSUME MenuWorkWakes, [TurnNext]_turnVars PROVE MenuWorkWakes'
    OBVIOUS
  <2>1. CASE TypedClear \/ IdleClear
    BY <2>1 DEF TypedClear, IdleClear, WakeUnlessIdle, queues, MenuWorkWakes
  <2>2. CASE TakeVision
    BY <2>2 DEF TakeVision, WakeUnlessIdle, MenuWorkWakes
  <2>3. CASE TakeMode
    BY <2>3 DEF TakeMode, WakeUnlessIdle, MenuWorkWakes
  <2>4. CASE SubmitWake \/ CheckQuietHours
    BY <2>4 DEF SubmitWake, CheckQuietHours, queues, MenuWorkWakes
  <2>5. CASE (\E v \in Vision : QueueVision(v)) \/ (\E m \in Mode : QueueMode(m))
    BY <2>5 DEF QueueVision, QueueMode, MenuWorkWakes
  <2>6. CASE CloseExtensions
    BY <2>6 DEF CloseExtensions, MenuWorkWakes
  <2>7. CASE UNCHANGED <<visionQ, modeQ, wake>>
    BY <2>7 DEF MenuWorkWakes
  <2>8. QED
    <3>1. CASE Initialize \/ LoopTest \/ QuietWait \/ ChoosePolicy \/ Heard
      BY <3>1, <2>7 DEF Initialize, LoopTest, QuietWait, ChoosePolicy, Heard,
                        queues, signals
    <3>2. CASE TakeTyped \/ Arm \/ Signalled \/ Gate \/ Capture \/ Begin
      BY <3>2, <2>7 DEF TakeTyped, Arm, Signalled, Gate, Capture, Begin,
                        queues, signals
    <3>3. CASE Chat \/ StartMode \/ Fail
      BY <3>3, <2>7 DEF Chat, StartMode, Fail, queues, signals
    <3>4. CASE SubmitText \/ LeaveMode \/ TogglePTT \/ Interrupt
      BY <3>4, <2>7 DEF SubmitText, LeaveMode, TogglePTT, Interrupt, queues, signals
    <3>5. CASE ClockMoves \/ UnlockQuietHours \/ CloseBegin \/ CloseEvents
      BY <3>5, <2>7 DEF ClockMoves, UnlockQuietHours, CloseBegin, CloseEvents,
                        queues, signals
    <3>6. CASE UNCHANGED turnVars
      BY <3>6, <2>7 DEF turnVars, queues, signals
    <3>7. QED
      BY <2>1, <2>2, <2>3, <2>4, <2>5, <2>6, <3>1, <3>2, <3>3, <3>4, <3>5, <3>6
      DEF TurnNext, WorkerStep
<1>3. QED
  BY <1>1, <1>2, PTL DEF TurnSpec

(* The worker is done only after close() began, whatever its turns raised.     *)
THEOREM OnlyCloseEndsWorker == TurnSpec => []EndsOnlyOnClose
<1>1. TurnInit => EndsOnlyOnClose
  BY DEF TurnInit, EndsOnlyOnClose
<1>2. EndsOnlyOnClose /\ [TurnNext]_turnVars => EndsOnlyOnClose'
  <2> SUFFICES ASSUME EndsOnlyOnClose, [TurnNext]_turnVars PROVE EndsOnlyOnClose'
    OBVIOUS
  <2>1. CASE WorkerStep
    <3>1. pc' = "done" => exiting
      <4>1. CASE Initialize \/ LoopTest \/ QuietWait \/ ChoosePolicy
        BY <4>1 DEF Initialize, LoopTest, QuietWait, ChoosePolicy, Goto, Stopping
      <4>2. CASE TakeTyped \/ TypedClear \/ TakeVision \/ TakeMode \/ IdleClear
        BY <4>2 DEF TakeTyped, TypedClear, TakeVision, TakeMode, IdleClear, Goto
      <4>3. CASE Arm \/ Signalled \/ Gate \/ Capture \/ Begin \/ Chat \/ StartMode
        BY <4>3 DEF Arm, Signalled, Gate, Capture, Begin, Chat, StartMode, Goto
      <4>4. QED
        BY <2>1, <4>1, <4>2, <4>3 DEF WorkerStep
    <3>2. exiting' = exiting
      BY <2>1 DEF WorkerStep, Initialize, LoopTest, QuietWait, ChoosePolicy, TakeTyped,
                  TypedClear, TakeVision, TakeMode, IdleClear, Arm, Signalled, Gate,
                  Capture, Begin, Chat, StartMode, life
    <3>3. QED
      BY <3>1, <3>2 DEF EndsOnlyOnClose
  <2>2. CASE Heard \/ Fail
    BY <2>2 DEF Heard, Fail, AfterFailure, life, EndsOnlyOnClose
  <2>3. CASE CloseBegin
    BY <2>3 DEF CloseBegin, EndsOnlyOnClose
  <2>4. CASE UNCHANGED <<pc, exiting>>
    BY <2>4 DEF EndsOnlyOnClose
  <2>5. QED
    <3>1. CASE SubmitText \/ SubmitWake \/ LeaveMode \/ TogglePTT \/ Interrupt
      BY <3>1, <2>4 DEF SubmitText, SubmitWake, LeaveMode, TogglePTT, Interrupt,
                        worker, life
    <3>2. CASE (\E v \in Vision : QueueVision(v)) \/ (\E m \in Mode : QueueMode(m))
      BY <3>2, <2>4 DEF QueueVision, QueueMode, worker, life
    <3>3. CASE ClockMoves \/ CheckQuietHours \/ UnlockQuietHours
      BY <3>3, <2>4 DEF ClockMoves, CheckQuietHours, UnlockQuietHours, worker, life
    <3>4. CASE CloseExtensions \/ CloseEvents \/ UNCHANGED turnVars
      BY <3>4, <2>4 DEF CloseExtensions, CloseEvents, turnVars, worker, life
    <3>5. QED
      BY <2>1, <2>2, <2>3, <3>1, <3>2, <3>3, <3>4 DEF TurnNext
<1>3. QED
  BY <1>1, <1>2, PTL DEF TurnSpec

(* A mode is launched only from a request for one, so the mode the registry is *)
(* left with is always a mode.  With the types this is inductive; each part of *)
(* the type invariant has a lemma of its own.                                  *)
LaunchesAMode == pc = "start_mode" => turn \in {"mode"} \X Mode

TurnInv == TurnTypeOK /\ LaunchesAMode

(* What the steps of the worker use of Turns.                                  *)
LEMMA TurnKinds ==
    /\ NoTurn \in Turns /\ <<"typed">> \in Turns
    /\ \A v \in Vision : <<"vision", v>> \in Turns
    /\ \A m \in Mode : <<"mode", m>> \in Turns /\ <<"mode", m>> \in {"mode"} \X Mode
    /\ \A k \in {"PTT", "WAKE", "MODE", "STOP"} : <<"voice", k>> \in Turns
  BY DEF Turns, NoTurn

LEMMA VisionTurns == ASSUME NEW t \in Turns, t[1] = "vision" PROVE t[2] \in Vision
  BY DEF Turns, NoTurn

LEMMA HeadTail ==
    ASSUME NEW S, NEW q \in Seq(S), q # <<>>
    PROVE  Head(q) \in S /\ Tail(q) \in Seq(S) /\ Len(Tail(q)) = Len(q) - 1 /\ Len(q) \in Nat
  OBVIOUS

LEMMA WorkerStaysTyped ==
    ASSUME TurnInv, [TurnNext]_turnVars PROVE WorkerTyped' /\ LaunchesAMode'
<1> USE DEF TurnInv, TurnTypeOK, WorkerTyped, LaunchesAMode, PcRange
<1>1. CASE Initialize \/ QuietWait \/ TypedClear \/ IdleClear \/ Arm
  BY <1>1 DEF Initialize, QuietWait, TypedClear, IdleClear, Arm, Goto
<1>2. CASE Gate \/ Capture \/ Begin \/ Chat \/ StartMode \/ Fail
  BY <1>2 DEF Gate, Capture, Begin, Chat, StartMode, Fail, AfterFailure, Goto
<1>3. CASE LoopTest \/ TakeTyped
  BY <1>3, TurnKinds DEF LoopTest, TakeTyped, Goto
<1>4. CASE TakeVision
  BY <1>4, TurnKinds, HeadTail DEF TakeVision, QueuesTyped, Goto
<1>5. CASE TakeMode
  BY <1>5, TurnKinds, HeadTail DEF TakeMode, QueuesTyped, Goto
<1>6. CASE ChoosePolicy \/ Signalled \/ Heard
  BY <1>6, TurnKinds DEF ChoosePolicy, Signalled, Heard
<1>7. CASE UNCHANGED worker
  BY <1>7 DEF worker
<1>8. QED
  <2>1. CASE SubmitText \/ SubmitWake \/ LeaveMode \/ TogglePTT \/ Interrupt
    BY <2>1, <1>7 DEF SubmitText, SubmitWake, LeaveMode, TogglePTT, Interrupt
  <2>2. CASE (\E v \in Vision : QueueVision(v)) \/ (\E m \in Mode : QueueMode(m))
    BY <2>2, <1>7 DEF QueueVision, QueueMode
  <2>3. CASE ClockMoves \/ CheckQuietHours \/ UnlockQuietHours
    BY <2>3, <1>7 DEF ClockMoves, CheckQuietHours, UnlockQuietHours
  <2>4. CASE CloseBegin \/ CloseExtensions \/ CloseEvents \/ UNCHANGED turnVars
    BY <2>4, <1>7 DEF CloseBegin, CloseExtensions, CloseEvents, turnVars
  <2>5. QED
    BY <1>1, <1>2, <1>3, <1>4, <1>5, <1>6, <2>1, <2>2, <2>3, <2>4
    DEF TurnNext, WorkerStep

LEMMA QueuesStayTyped ==
    ASSUME TurnInv, [TurnNext]_turnVars PROVE QueuesTyped'
<1> USE TurnConstants DEF TurnInv, TurnTypeOK, QueuesTyped
<1>1. CASE TakeTyped \/ SubmitText
  BY <1>1 DEF TakeTyped, SubmitText
<1>2. CASE TakeVision
  BY <1>2, HeadTail DEF TakeVision
<1>3. CASE TakeMode
  BY <1>3, HeadTail, SMTT(40) DEF TakeMode
<1>4. Answers \subseteq Vision
  BY VisionTurns DEF Answers, WorkerTyped
<1>5. CASE Chat \/ Fail
  BY <1>4, <1>5 DEF Chat, Routed, Fail
<1>6. CASE StartMode
  BY <1>6 DEF StartMode, LaunchesAMode, queues
<1>7. CASE (\E v \in Vision : QueueVision(v)) \/ (\E m \in Mode : QueueMode(m))
  <2>1. CASE \E v \in Vision : QueueVision(v)
    BY <2>1 DEF QueueVision
  <2>2. CASE \E m \in Mode : QueueMode(m)
    <3> PICK m \in Mode : QueueMode(m)
      BY <2>2
    <3>1. Len(Append(modeQ, m)) = Len(modeQ) + 1 /\ Append(modeQ, m) \in Seq(Mode)
      OBVIOUS
    <3>2. modeQ' \in Seq(Mode) /\ Len(modeQ') <= MaxLaunches
      BY <3>1 DEF QueueMode
    <3>3. QED
      BY <3>2 DEF QueueMode
  <2>3. QED
    BY <1>7, <2>1, <2>2
<1>8. CASE LeaveMode \/ CloseExtensions
  <2>1. <<>> \in Seq(Vision) /\ <<>> \in Seq(Mode) /\ Len(<<>>) = 0
    OBVIOUS
  <2>2. CASE LeaveMode
    BY <2>2 DEF LeaveMode, queues
  <2>3. CASE CloseExtensions
    BY <2>1, <2>3 DEF CloseExtensions
  <2>4. QED
    BY <1>8, <2>2, <2>3
<1>9. CASE UNCHANGED <<queues, active>>
  BY <1>9 DEF queues
<1>10. QED
  <2>1. CASE Initialize \/ LoopTest \/ QuietWait \/ TypedClear \/ IdleClear \/ ChoosePolicy
    BY <2>1, <1>9 DEF Initialize, LoopTest, QuietWait, TypedClear, IdleClear, ChoosePolicy
  <2>2. CASE Arm \/ Signalled \/ Heard \/ Gate \/ Capture \/ Begin
    BY <2>2, <1>9 DEF Arm, Signalled, Heard, Gate, Capture, Begin
  <2>3. CASE SubmitWake \/ TogglePTT \/ Interrupt \/ ClockMoves \/ CheckQuietHours
    BY <2>3, <1>9 DEF SubmitWake, TogglePTT, Interrupt, ClockMoves, CheckQuietHours
  <2>4. CASE UnlockQuietHours \/ CloseBegin \/ CloseEvents \/ UNCHANGED turnVars
    BY <2>4, <1>9 DEF UnlockQuietHours, CloseBegin, CloseEvents, turnVars
  <2>5. QED
    BY <1>1, <1>2, <1>3, <1>5, <1>6, <1>7, <1>8, <2>1, <2>2, <2>3, <2>4
    DEF TurnNext, WorkerStep

LEMMA EventsStayTyped ==
    ASSUME TurnInv, [TurnNext]_turnVars PROVE EventsTyped'
<1> USE DEF TurnInv, TurnTypeOK, EventsTyped, LifeTyped, signals, kiosk
<1>1. CASE TypedClear \/ IdleClear
  BY <1>1 DEF TypedClear, IdleClear, WakeUnlessIdle
<1>2. CASE TakeVision \/ TakeMode
  BY <1>2 DEF TakeVision, TakeMode, WakeUnlessIdle
<1>3. CASE Arm \/ Signalled \/ Gate \/ Begin
  BY <1>3 DEF Arm, Signalled, Gate, Begin
<1>4. CASE Fail
  BY <1>4 DEF Fail
<1>5. CASE SubmitWake \/ TogglePTT \/ Interrupt
  BY <1>5 DEF SubmitWake, TogglePTT, Interrupt
<1>6. CASE (\E v \in Vision : QueueVision(v)) \/ (\E m \in Mode : QueueMode(m))
  BY <1>6 DEF QueueVision, QueueMode
<1>7. CASE ClockMoves \/ CheckQuietHours \/ UnlockQuietHours
  BY <1>7 DEF ClockMoves, CheckQuietHours, UnlockQuietHours
<1>8. CASE CloseExtensions \/ CloseEvents
  BY <1>8 DEF CloseExtensions, CloseEvents
<1>9. CASE UNCHANGED <<signals, kiosk>>
  BY <1>9
<1>10. QED
  <2>1. CASE Initialize \/ LoopTest \/ QuietWait \/ TakeTyped \/ ChoosePolicy
    BY <2>1, <1>9 DEF Initialize, LoopTest, QuietWait, TakeTyped, ChoosePolicy
  <2>2. CASE Heard \/ Capture \/ Chat \/ StartMode
    BY <2>2, <1>9 DEF Heard, Capture, Chat, StartMode
  <2>3. CASE SubmitText \/ LeaveMode \/ CloseBegin \/ UNCHANGED turnVars
    BY <2>3, <1>9 DEF SubmitText, LeaveMode, CloseBegin, turnVars
  <2>4. QED
    BY <1>1, <1>2, <1>3, <1>4, <1>5, <1>6, <1>7, <1>8, <2>1, <2>2, <2>3
    DEF TurnNext, WorkerStep

LEMMA LifeStaysTyped ==
    ASSUME TurnInv, [TurnNext]_turnVars PROVE LifeTyped'
<1> USE DEF TurnInv, TurnTypeOK, LifeTyped
<1>1. CASE SubmitText \/ SubmitWake
  BY <1>1 DEF SubmitText, SubmitWake, Free
<1>2. CASE CloseBegin \/ CloseExtensions \/ CloseEvents
  BY <1>2 DEF CloseBegin, CloseExtensions, CloseEvents
<1>3. CASE UNCHANGED life
  BY <1>3 DEF life
<1>4. QED
  <2>1. CASE WorkerStep
    BY <2>1, <1>3 DEF WorkerStep, Initialize, LoopTest, QuietWait, TakeTyped, TypedClear,
      TakeVision, TakeMode, IdleClear, ChoosePolicy, Arm, Signalled, Gate, Capture, Begin,
      Chat, StartMode
  <2>2. CASE Heard \/ Fail \/ LeaveMode \/ TogglePTT \/ Interrupt
    BY <2>2, <1>3 DEF Heard, Fail, LeaveMode, TogglePTT, Interrupt
  <2>3. CASE (\E v \in Vision : QueueVision(v)) \/ (\E m \in Mode : QueueMode(m))
    BY <2>3, <1>3 DEF QueueVision, QueueMode
  <2>4. CASE ClockMoves \/ CheckQuietHours \/ UnlockQuietHours \/ UNCHANGED turnVars
    BY <2>4, <1>3 DEF ClockMoves, CheckQuietHours, UnlockQuietHours, turnVars
  <2>5. QED
    BY <1>1, <1>2, <2>1, <2>2, <2>3, <2>4 DEF TurnNext

(* Every state the runtime reaches is well formed: the typed requests taken    *)
(* are among those submitted, only queued vision requests are answered, only a *)
(* registered mode ever owns the input, and the exit flag says where close is. *)
THEOREM TurnTypeCorrect == TurnSpec => []TurnTypeOK
<1>1. TurnInit => TurnInv
  <2> SUFFICES ASSUME TurnInit PROVE TurnInv
    OBVIOUS
  <2>1. WorkerTyped /\ LaunchesAMode
    BY TurnKinds DEF TurnInit, WorkerTyped, LaunchesAMode, PcRange
  <2>2. QueuesTyped
    BY TurnConstants DEF TurnInit, QueuesTyped
  <2>3. EventsTyped /\ LifeTyped
    BY DEF TurnInit, EventsTyped, LifeTyped
  <2>4. QED
    BY <2>1, <2>2, <2>3 DEF TurnInv, TurnTypeOK
<1>2. TurnInv /\ [TurnNext]_turnVars => TurnInv'
  BY WorkerStaysTyped, QueuesStayTyped, EventsStayTyped, LifeStaysTyped
  DEF TurnInv, TurnTypeOK
<1>3. QED
  BY <1>1, <1>2, PTL DEF TurnSpec, TurnInv

(* A vision request of a view: queued, or the turn in progress.                *)
QueuedVision(v) == \E i \in 1..Len(visionQ) : visionQ[i] = v
OnItsWay(v) == QueuedVision(v) \/ (turn = <<"vision", v>> /\ pc \in {"begin", "chat"})

(* A vision request is never dropped: each step leaves it on its way, answers  *)
(* it, or is taken after close() has begun (queue_vision, take_pending_vision, *)
(* _start_pending_menu_vision).                                                *)
VisionIsKept ==
    [][\A v \in Vision : OnItsWay(v) => OnItsWay(v)' \/ v \in answered' \/ exiting']_turnVars

LEMMA QueueKeepsVision ==
    ASSUME visionQ \in Seq(Vision), NEW v \in Vision, NEW w \in Vision, QueuedVision(v),
           visionQ' = Append(visionQ, w)
    PROVE  QueuedVision(v)'
<1>1. PICK i \in 1..Len(visionQ) : visionQ[i] = v
  BY DEF QueuedVision
<1>2. i \in 1..Len(visionQ') /\ visionQ'[i] = visionQ[i]
  BY <1>1
<1>3. QED
  BY <1>1, <1>2 DEF QueuedVision

LEMMA TakenIsNext ==
    ASSUME visionQ \in Seq(Vision), NEW v \in Vision, QueuedVision(v), visionQ # <<>>,
           visionQ' = Tail(visionQ)
    PROVE  v = Head(visionQ) \/ QueuedVision(v)'
<1>1. PICK i \in 1..Len(visionQ) : visionQ[i] = v
  BY DEF QueuedVision
<1>2. CASE i = 1
  BY <1>1, <1>2
<1>3. CASE i # 1
  <2>1. i - 1 \in 1..Len(visionQ') /\ visionQ'[i - 1] = visionQ[i]
    BY <1>1, <1>3
  <2>2. QED
    BY <1>1, <2>1 DEF QueuedVision
<1>4. QED
  BY <1>2, <1>3

LEMMA VisionStays ==
    ASSUME TurnTypeOK, [TurnNext]_turnVars, NEW v \in Vision, OnItsWay(v)
    PROVE  OnItsWay(v)' \/ v \in answered' \/ exiting'
<1>0. visionQ \in Seq(Vision)
  BY DEF TurnTypeOK, QueuesTyped
<1>1. CASE UNCHANGED <<visionQ, pc, turn>>
  BY <1>1 DEF OnItsWay, QueuedVision
<1>2. CASE UNCHANGED visionQ /\ pc \notin {"begin", "chat"}
  BY <1>2 DEF OnItsWay, QueuedVision
<1>3. CASE Initialize \/ LoopTest \/ QuietWait \/ TakeTyped \/ TypedClear \/ TakeMode
  BY <1>2, <1>3 DEF Initialize, LoopTest, QuietWait, TakeTyped, TypedClear, TakeMode, queues
<1>4. CASE IdleClear \/ ChoosePolicy \/ Arm \/ Signalled \/ Heard \/ Gate \/ Capture \/ StartMode
  BY <1>2, <1>4 DEF IdleClear, ChoosePolicy, Arm, Signalled, Heard, Gate, Capture, StartMode, queues
<1>5. CASE TakeVision
  <2>1. QueuedVision(v)
    BY <1>5 DEF TakeVision, OnItsWay
  <2>2. CASE UNCHANGED visionQ
    BY <2>1, <2>2 DEF OnItsWay, QueuedVision
  <2>3. CASE visionQ # <<>> /\ visionQ' = Tail(visionQ) /\ turn' = <<"vision", Head(visionQ)>> /\ pc' = "begin"
    BY <1>0, <2>1, <2>3, TakenIsNext DEF OnItsWay
  <2>4. QED
    BY <1>5, <2>2, <2>3 DEF TakeVision
<1>6. CASE Begin
  BY <1>6 DEF Begin, Goto, queues, OnItsWay, QueuedVision
<1>7. CASE Chat \/ (Fail /\ pc = "chat")
  <2>1. UNCHANGED visionQ /\ answered' = Answers
    BY <1>7 DEF Chat, Fail
  <2>2. CASE QueuedVision(v)
    BY <2>1, <2>2 DEF OnItsWay, QueuedVision
  <2>3. CASE turn = <<"vision", v>>
    BY <2>1, <2>3 DEF Answers
  <2>4. QED
    BY <2>2, <2>3 DEF OnItsWay
<1>8. CASE Fail /\ pc # "chat"
  BY <1>2, <1>8 DEF Fail
<1>9. CASE \E w \in Vision : QueueVision(w)
  <2>1. PICK w \in Vision : QueueVision(w)
    BY <1>9
  <2>2. visionQ' = Append(visionQ, w) /\ UNCHANGED <<pc, turn>>
    BY <2>1 DEF QueueVision, worker
  <2>3. QED
    BY <1>0, <2>2, QueueKeepsVision DEF OnItsWay
<1>10. CASE SubmitText \/ SubmitWake \/ (\E m \in Mode : QueueMode(m)) \/ LeaveMode \/ TogglePTT \/ Interrupt
  BY <1>1, <1>10 DEF SubmitText, SubmitWake, QueueMode, LeaveMode, TogglePTT, Interrupt, worker, queues
<1>11. CASE ClockMoves \/ CheckQuietHours \/ UnlockQuietHours \/ CloseBegin \/ CloseEvents \/ UNCHANGED turnVars
  BY <1>1, <1>11 DEF ClockMoves, CheckQuietHours, UnlockQuietHours, CloseBegin, CloseEvents, worker, queues, turnVars
<1>12. CASE CloseExtensions
  BY <1>12 DEF CloseExtensions, TurnTypeOK, LifeTyped
<1>13. QED
  BY <1>3, <1>4, <1>5, <1>6, <1>7, <1>8, <1>9, <1>10, <1>11, <1>12 DEF TurnNext, WorkerStep

(* However queueing, taking, clearing, failing and Quiet Hours interleave, a   *)
(* view's vision request is kept until it is answered, for any requests, modes *)
(* and number of turns: the safety half of VisionAnswered.                     *)
THEOREM VisionKept == TurnSpec => VisionIsKept
<1>1. TurnTypeOK /\ [TurnNext]_turnVars =>
        [\A v \in Vision : OnItsWay(v) => OnItsWay(v)' \/ v \in answered' \/ exiting']_turnVars
  BY VisionStays
<1>2. QED
  BY TurnTypeCorrect, <1>1, PTL DEF TurnSpec, VisionIsKept

=============================================================================
