---------------------------- MODULE Features_proofs ---------------------------
(* The kiosk's timers, alarms, weather page, rover, music and calendar.        *)
(*                                                                             *)
(* CountdownTimers: the timers keep time for any number of timers and any      *)
(* durations: the thread's wake-up is no later than any active deadline, not   *)
(* only than the one it slept for (AwakeInTime); a timer is active, taken or   *)
(* rung, one after the other, and a cancelled one is none of them              *)
(* (OneAfterTheOther); what shows on the face is waiting to be acknowledged    *)
(* (Shown).                                                                    *)
(*                                                                             *)
(* AlarmClock: an alarm is fired once.  What was fired in this run is          *)
(* remembered until it is too old to be due again (FiredKept), and what was    *)
(* saved as spent is not due again unless it is set to a later time            *)
(* (SpentStays).                                                               *)
(*                                                                             *)
(* WeatherPage, for any number of places, fetches and hours: a page that says  *)
(* it is loading has a fetch whose answer counts.  A place under way has one   *)
(* of the current token (UnderWay), and the page shown is under way as long as *)
(* it has neither a forecast nor an error (Awaited).  The picture is shown     *)
(* honest for every reading and any hours of sunrise and sunset.               *)
(*                                                                             *)
(* RoverRemote, for any settings files, sticks and telemetry: a colour that    *)
(* waits is the one chosen last, and one taken off to be sent is on its way to *)
(* the strip (PendingIsSelected, ColorOnItsWay); without a gamepad nothing is  *)
(* driven, from the reading to the command (Undriven).  The loop that takes a  *)
(* telemetry frame apart is a recursive function, of which seven bytes have at *)
(* most seven rounds.                                                          *)
(*                                                                             *)
(* MusicPlayer and MusicShelf, for any songs, orders and limits: while a       *)
(* shuffle plays, its order says which song that is (OrderIsPlayed), and an    *)
(* order has every song at one place; what is remembered is a library within   *)
(* its limits, and so is its file unless it was never readable (ShelfInv).     *)
(*                                                                             *)
(* Calendar and CalendarAttentions, for any events, edits and days: what is    *)
(* chosen occurs on the day shown (ChosenOccurs), so that a change of one date *)
(* takes a date its series had.  Without an overlap one thread at most is      *)
(* publishing, and what it publishes is due by now (Alone).                    *)
EXTENDS CountdownTimers, AlarmClock, WeatherPage, RoverRemote, MusicShelf, Calendar,
        CalendarAttentions, Lists_proofs, FiniteSetTheorems, FunctionTheorems, WellFoundedInduction, TLAPS

(***************************************************************************)
(* Countdown timers and alarms                                             *)
(***************************************************************************)

-----------------------------------------------------------------------------
(* Countdown timers *)

Made == 1..(nextId - 1)

Horizon ==
    \A t \in Made : Due(t) \in Nat /\ Due(t) <= LastTick + MaxDuration

AwakeInTime ==
    scheduler.pc = "asleep" /\ ~notified => \A t \in active : scheduler.wake <= Due(t)

\* The timer being announced has rung and is still among those taken.
Announcing == scheduler.pc = "notify" =>
    /\ scheduler.due # {}
    /\ First(scheduler.due) \in rung \cap expired
    /\ rung \cap scheduler.due = {First(scheduler.due)}

OneAfterTheOther ==
    /\ active \cap (rung \cup withdrawn \cup scheduler.due) = {}
    /\ withdrawn \cap (rung \cup scheduler.due) = {}
    /\ scheduler.pc # "notify" => rung \cap scheduler.due = {}
    /\ \A t \in rung \cup scheduler.due : Due(t) <= tick
    /\ Announcing

\* Between its ring and its attention no one can acknowledge a timer.
Shown == attention \subseteq expired \cap rung /\ attention \cap scheduler.due = {}

-----------------------------------------------------------------------------
(* The least of a set of numbers *)

LEMMA MinIsLeast ==
    ASSUME NEW S, S \subseteq Nat, S # {}
    PROVE  Min(S) \in S /\ \A y \in S : Min(S) <= y
<1>1. IsWellFoundedOn(OpToRel(<, Nat), Nat)
      BY NatLessThanWellFounded
<1>2. \E x \in S : \A y \in S : ~ (<<y, x>> \in OpToRel(<, Nat))
      BY <1>1, WFMin
<1>3. PICK x \in S : \A y \in S : ~ (<<y, x>> \in OpToRel(<, Nat))
      BY <1>2
<1>4. \A y \in S : x <= y
  <2> TAKE y \in S
  <2>1. ~(y < x)
        BY <1>3 DEF OpToRel
  <2> QED BY <2>1
<1> QED BY <1>4 DEF Min

LEMMA EarliestIsDue ==
    ASSUME NEW ts, ts # {}, \A t \in ts : Due(t) \in Nat
    PROVE  /\ Earliest(ts) \in {Due(t) : t \in ts}
           /\ \A t \in ts : Earliest(ts) <= Due(t)
<1>1. {Due(t) : t \in ts} \subseteq Nat /\ {Due(t) : t \in ts} # {}
      OBVIOUS
<1> QED BY <1>1, MinIsLeast DEF Earliest

LEMMA FirstIsOne ==
    ASSUME NEW ts, ts # {}, ts \subseteq Nat, \A t \in ts : Due(t) \in Nat
    PROVE  First(ts) \in ts
<1>1. {t \in ts : Due(t) = Earliest(ts)} # {}
      BY EarliestIsDue
<1> QED BY <1>1, MinIsLeast DEF First

-----------------------------------------------------------------------------
(* TimerTypeOK in parts: the queue, the thread, what became of the timers,     *)
(* and the menu                                                                *)

QueueTyped ==
    /\ tick \in 0..LastTick /\ nextId \in 1..(LastTimer + 1)
    /\ deadlines \in [Made -> [at : Nat, lasts : 1..MaxDuration]]
    /\ active \subseteq Made /\ heap = active /\ Cardinality(active) <= MaxActive

Stages == {"none", "scan", "asleep", "due", "notify", "stopped"}

ThreadTyped ==
    /\ scheduler \in [pc : Stages, wake : 0..Never, due : SUBSET Made]
    /\ notified \in BOOLEAN /\ stopped \in BOOLEAN

OutcomesTyped == rung \cup withdrawn \cup expired \cup attention \subseteq Made

Menus == [open : BOOLEAN, items : SUBSET Timer, adding : BOOLEAN,
          draft : 0..MaxDuration, error : BOOLEAN]
MenuTyped == menu \in Menus

\* What the menu does not touch, and all of it.
Kept ==
    /\ QueueTyped /\ ThreadTyped /\ OutcomesTyped
    /\ Horizon /\ AwakeInTime /\ OneAfterTheOther /\ Shown

TimerInv == Kept /\ MenuTyped

LEMMA TypeInParts ==
    QueueTyped /\ ThreadTyped /\ OutcomesTyped /\ MenuTyped => TimerTypeOK
BY DEF TimerTypeOK, QueueTyped, ThreadTyped, OutcomesTyped, MenuTyped, Menus, Made, Stages

LEMMA Sizes ==
    /\ LastTimer \in Nat \ {0} /\ MaxActive \in Nat \ {0}
    /\ MaxDuration \in Nat \ {0} /\ LastTick \in Nat \ {0}
BY TimerConstants DEF TimerConstants

LEMMA EmptyMenu == NoMenu \in Menus
BY Sizes DEF NoMenu, Menus

LEMMA InitTimers == TimerInit => TimerInv
<1> SUFFICES ASSUME TimerInit PROVE TimerInv
    OBVIOUS
<1>1. Made = {}
      BY DEF TimerInit, Made
<1>2. QueueTyped
  <2>1. deadlines \in [Made -> [at : Nat, lasts : 1..MaxDuration]]
        BY <1>1 DEF TimerInit
  <2> QED BY <1>1, <2>1, Sizes, FS_EmptySet DEF TimerInit, QueueTyped
<1>3. /\ scheduler.pc = "none" /\ scheduler.wake = 0 /\ scheduler.due = {}
      /\ notified = FALSE /\ stopped = FALSE
      BY DEF TimerInit
<1>4. ThreadTyped /\ OutcomesTyped
  <2>1. 0 \in 0..Never
        BY Sizes DEF Never
  <2>2. scheduler \in [pc : Stages, wake : 0..Never, due : SUBSET Made]
        BY <2>1 DEF TimerInit, Stages
  <2>3. OutcomesTyped
        BY DEF TimerInit, OutcomesTyped
  <2> QED BY <1>3, <2>1, <2>2, <2>3 DEF ThreadTyped
<1>5. MenuTyped
      BY EmptyMenu DEF TimerInit, MenuTyped
<1>6. Horizon /\ AwakeInTime /\ OneAfterTheOther /\ Shown
      BY <1>1, <1>3 DEF TimerInit, Horizon, AwakeInTime, OneAfterTheOther, Announcing, Shown
<1> QED BY <1>2, <1>3, <1>4, <1>5, <1>6 DEF TimerInv, Kept

-----------------------------------------------------------------------------
(* The steps of the queue *)

LEMMA WithdrawKeeps ==
    ASSUME Kept, NEW ts, Withdraw(ts),
           UNCHANGED <<tick, nextId, deadlines, scheduler, stopped, rung, expired, attention>>
    PROVE  Kept' /\ active' \subseteq Timer
<1>1. Made' = Made /\ IsFiniteSet(active) /\ Cardinality(active') <= Cardinality(active)
  <2>1. IsFiniteSet(Made)
        BY FS_Interval DEF Kept, QueueTyped, Made
  <2>2. IsFiniteSet(active)
        BY <2>1, FS_Subset DEF Kept, QueueTyped
  <2> QED BY <2>2, FS_Subset DEF Withdraw, Made
<1>2. QueueTyped'
  <2>1. IsFiniteSet(active') /\ Cardinality(active') \in Nat /\ Cardinality(active) \in Nat
        BY <1>1, FS_Subset, FS_CardinalityType DEF Withdraw
  <2> QED BY <1>1, <2>1, Sizes DEF Kept, QueueTyped, Withdraw
<1>3. ThreadTyped' /\ OutcomesTyped'
      BY <1>1 DEF Kept, QueueTyped, ThreadTyped, OutcomesTyped, Withdraw, WakeScheduler
<1>4. Horizon' /\ AwakeInTime' /\ Shown'
      BY <1>1 DEF Kept, Horizon, AwakeInTime, Shown, Withdraw, WakeScheduler, Due
<1>5. OneAfterTheOther'
  <2>1. Announcing'
    <3>1. First(scheduler.due)' = First(scheduler.due)
          BY DEF First, Earliest, Due
    <3> QED BY <3>1 DEF Kept, OneAfterTheOther, Announcing
  <2> QED BY <2>1 DEF Kept, OneAfterTheOther, Withdraw, Due
<1>6. active' \subseteq Timer
      BY Sizes DEF Kept, QueueTyped, Made, Withdraw, Timer
<1> QED BY <1>2, <1>3, <1>4, <1>5, <1>6 DEF Kept

\* The timers made before keep their deadlines, the new one is none of them.
LEMMA ScheduleKeeps ==
    ASSUME Kept, NEW d \in 1..MaxDuration, Schedule(d),
           UNCHANGED <<tick, stopped, rung, withdrawn, expired, attention>>
    PROVE  Kept' /\ active' \subseteq Timer
<1>1. nextId \in 1..LastTimer /\ nextId' = nextId + 1
      BY Sizes DEF Schedule, Kept, QueueTyped
<1>2. Made' = Made \cup {nextId} /\ nextId \notin Made /\ Made' = 1..nextId
      BY <1>1, Sizes DEF Made
<1>3. \A t \in Made : Due(t)' = Due(t)
      BY <1>1, <1>2 DEF Schedule, Due
<1>4. deadlines'[nextId].at = tick + d
  <2>1. deadlines' = [t \in 1..nextId |-> IF t = nextId THEN [at |-> tick + d, lasts |-> d]
                                                       ELSE deadlines[t]]
        BY DEF Schedule
  <2>2. deadlines'[nextId] = [at |-> tick + d, lasts |-> d]
        BY <1>1, <2>1
  <2> QED BY <2>2
<1>5. /\ scheduler'.due = scheduler.due
      /\ scheduler'.pc # "none" /\ (scheduler.pc # "none" => scheduler' = scheduler)
      /\ scheduler'.pc \in {scheduler.pc, "scan"}
      /\ ThreadTyped'
  <2>1. Made \subseteq Made' /\ Never' = Never
        BY <1>2 DEF Never
  <2>2. CASE scheduler.pc = "none"
    <3>1. scheduler' = [scheduler EXCEPT !.pc = "scan"]
          BY <2>2 DEF Schedule
    <3>2. "scan" \in Stages /\ scheduler \in [pc : Stages, wake : 0..Never, due : SUBSET Made]
          BY DEF Kept, ThreadTyped, Stages
    <3>3. scheduler'.due = scheduler.due /\ scheduler'.pc = "scan"
          /\ scheduler' \in [pc : Stages, wake : 0..Never, due : SUBSET Made']
          BY <2>1, <3>1, <3>2
    <3> QED BY <2>1, <2>2, <3>3 DEF Kept, ThreadTyped, Schedule, WakeScheduler
  <2>3. CASE scheduler.pc # "none"
    <3>1. scheduler' = scheduler
          BY <2>3 DEF Schedule
    <3> QED BY <2>1, <2>3, <3>1 DEF Kept, ThreadTyped, Schedule, WakeScheduler
  <2> QED BY <2>2, <2>3
<1>6. QueueTyped'
  <2>1. deadlines' \in [Made' -> [at : Nat, lasts : 1..MaxDuration]]
        BY <1>1, <1>2, Sizes DEF Schedule, Kept, QueueTyped
  <2>2. IsFiniteSet(Made)
        BY <1>1, FS_Interval DEF Made
  <2>3. IsFiniteSet(active)
        BY <2>2, FS_Subset DEF Kept, QueueTyped
  <2>4. Cardinality(active') = Cardinality(active) + 1 /\ Cardinality(active) \in Nat
        BY <1>2, <2>3, FS_AddElement, FS_CardinalityType DEF Schedule, Kept, QueueTyped
  <2>5. Cardinality(active') <= MaxActive
        BY <2>4, Sizes DEF Schedule
  <2> QED BY <1>1, <1>2, <2>1, <2>5, Sizes DEF Schedule, Kept, QueueTyped
<1>7. OutcomesTyped'
      BY <1>2 DEF Kept, OutcomesTyped
<1>8. Horizon'
  <2>1. tick + d \in Nat /\ tick + d <= LastTick + MaxDuration
        BY Sizes DEF Kept, QueueTyped
  <2> QED BY <1>2, <1>3, <1>4, <2>1 DEF Kept, Horizon, Due
<1>9. AwakeInTime' /\ Shown'
      BY DEF Schedule, Kept, AwakeInTime, Shown, WakeScheduler
<1>10. OneAfterTheOther'
  <2>1. Announcing'
    <3>1. {Due(t)' : t \in scheduler.due} = {Due(t) : t \in scheduler.due}
          BY <1>3 DEF Kept, ThreadTyped
    <3>2. Earliest(scheduler.due)' = Earliest(scheduler.due)
          BY <1>5, <3>1 DEF Earliest
    <3>3. First(scheduler.due)' = First(scheduler.due)
          BY <1>3, <1>5, <3>2 DEF First, Kept, ThreadTyped
    <3> QED BY <1>5, <3>3 DEF Kept, OneAfterTheOther, Announcing
  <2> QED BY <1>2, <1>3, <1>5, <2>1
          DEF Kept, OneAfterTheOther, Schedule, QueueTyped, ThreadTyped, OutcomesTyped
<1>11. active' \subseteq Timer
      BY <1>6, <1>1, <1>2, Sizes DEF QueueTyped, Timer
<1> QED BY <1>5, <1>6, <1>7, <1>8, <1>9, <1>10, <1>11 DEF Kept

-----------------------------------------------------------------------------
(* The thread *)

LEMMA ScanKeeps ==
    ASSUME Kept, Scan
    PROVE  Kept'
<1> DEFINE late == {t \in active : Due(t) <= tick}
<1>1. /\ Made' = Made /\ \A t : Due(t)' = Due(t)
      /\ heap' = active \ late /\ active' = active \ late /\ notified' = FALSE
      /\ UNCHANGED <<tick, nextId, deadlines, stopped, rung, withdrawn, expired, attention>>
      BY DEF Scan, Kept, QueueTyped, Made, Due
<1>2. scheduler.pc # "notify" /\ rung \cap late = {} /\ withdrawn \cap late = {}
      BY DEF Scan, Kept, OneAfterTheOther
<1>3. scheduler' = CASE stopped -> [pc |-> "stopped", wake |-> 0, due |-> {}]
                     [] ~stopped /\ late # {} -> [pc |-> "due", wake |-> 0, due |-> late]
                     [] OTHER -> [pc |-> "asleep", due |-> {},
                                  wake |-> IF active = {} THEN Never ELSE Earliest(active)]
      BY DEF Scan, Kept, QueueTyped
<1>4. \/ stopped /\ scheduler' = [pc |-> "stopped", wake |-> 0, due |-> {}]
      \/ late # {} /\ scheduler' = [pc |-> "due", wake |-> 0, due |-> late]
      \/ /\ late = {}
         /\ scheduler' = [pc |-> "asleep", due |-> {},
                          wake |-> IF active = {} THEN Never ELSE Earliest(active)]
      BY <1>3
<1>5. QueueTyped'
  <2>1. IsFiniteSet(Made)
        BY FS_Interval DEF Kept, QueueTyped, Made
  <2>2. IsFiniteSet(active)
        BY <2>1, FS_Subset DEF Kept, QueueTyped
  <2>3. /\ Cardinality(active \ late) \in Nat /\ Cardinality(active) \in Nat
        /\ Cardinality(active \ late) <= Cardinality(active)
        BY <2>2, FS_Subset, FS_CardinalityType
  <2> QED BY <1>1, <2>3, Sizes DEF Kept, QueueTyped
<1>6. ThreadTyped' /\ AwakeInTime'
  <2>1. 0 \in 0..Never /\ Never \in 0..Never
        BY Sizes DEF Never
  <2>2. active # {} => Earliest(active) \in 0..Never /\ \A t \in active : Earliest(active) <= Due(t)
    <3> SUFFICES ASSUME active # {}
                 PROVE  Earliest(active) \in 0..Never /\ \A t \in active : Earliest(active) <= Due(t)
        OBVIOUS
    <3>1. active \subseteq Made /\ \A t \in active : Due(t) \in Nat /\ Due(t) <= LastTick + MaxDuration
          BY DEF Kept, QueueTyped, Horizon
    <3>2. Earliest(active) \in {Due(t) : t \in active} /\ \A t \in active : Earliest(active) <= Due(t)
          BY <3>1, EarliestIsDue
    <3>3. Earliest(active) \in Nat /\ Earliest(active) <= LastTick + MaxDuration
          BY <3>1, <3>2
    <3> QED BY <3>2, <3>3, Sizes DEF Never
  <2>3. late \subseteq Made /\ {} \subseteq Made
        BY DEF Kept, QueueTyped
  <2>4. /\ scheduler' \in [pc : Stages, wake : 0..Never, due : SUBSET Made]
        /\ scheduler'.pc = "asleep" => \A t \in active : scheduler'.wake <= Due(t)
        BY <1>4, <2>1, <2>2, <2>3 DEF Stages
  <2> QED BY <1>1, <2>4 DEF Kept, ThreadTyped, AwakeInTime, Never
<1>7. scheduler'.pc # "notify" /\ scheduler'.due \subseteq late
      BY <1>4
<1>8. OneAfterTheOther'
      BY <1>1, <1>2, <1>7 DEF Kept, OneAfterTheOther, Announcing
<1>9. OutcomesTyped' /\ Horizon' /\ Shown'
      BY <1>1, <1>2, <1>7 DEF Kept, OutcomesTyped, Horizon, Shown
<1> QED BY <1>5, <1>6, <1>8, <1>9 DEF Kept

LEMMA DueIsMade ==
    ASSUME Kept, scheduler.due # {}
    PROVE  First(scheduler.due) \in scheduler.due
<1>1. scheduler.due \subseteq Nat /\ \A t \in scheduler.due : Due(t) \in Nat
      BY DEF Kept, ThreadTyped, Made, Horizon
<1> QED BY <1>1, FirstIsOne

LEMMA RingKeeps ==
    ASSUME Kept, Ring
    PROVE  Kept'
<1> DEFINE t == First(scheduler.due)
<1>1. /\ scheduler' = [scheduler EXCEPT !.pc = "notify"]
      /\ rung' = rung \cup {t} /\ expired' = expired \cup {t}
      /\ UNCHANGED <<tick, nextId, deadlines, active, heap, notified, stopped, withdrawn, attention>>
      BY DEF Ring, queueVars
<1>2. t \in scheduler.due /\ scheduler.due \subseteq Made
      BY DueIsMade DEF Ring, Kept, ThreadTyped
<1>3. /\ scheduler'.pc = "notify" /\ scheduler'.due = scheduler.due
      /\ scheduler' \in [pc : Stages, wake : 0..Never, due : SUBSET Made]
  <2>1. "notify" \in Stages /\ scheduler \in [pc : Stages, wake : 0..Never, due : SUBSET Made]
        BY DEF Kept, ThreadTyped, Stages
  <2> QED BY <1>1, <2>1
<1>4. First(scheduler.due)' = t /\ (\A s : Due(s)' = Due(s)) /\ Made' = Made
      BY <1>1, <1>3 DEF First, Earliest, Due, Made
<1>5. QueueTyped' /\ ThreadTyped' /\ OutcomesTyped'
      BY <1>1, <1>2, <1>3, <1>4 DEF Kept, QueueTyped, ThreadTyped, OutcomesTyped, Never
<1>6. Horizon' /\ AwakeInTime' /\ Shown'
      BY <1>1, <1>3, <1>4 DEF Kept, Horizon, AwakeInTime, Shown
<1>7. OneAfterTheOther'
  <2>1. scheduler.pc = "due" /\ rung \cap scheduler.due = {}
        BY DEF Ring, Kept, OneAfterTheOther
  <2>2. Announcing'
        BY <1>1, <1>2, <1>3, <1>4, <2>1 DEF Announcing
  <2> QED BY <1>1, <1>2, <1>3, <1>4, <2>2 DEF Kept, OneAfterTheOther
<1> QED BY <1>5, <1>6, <1>7 DEF Kept

LEMMA NotifyKeeps ==
    ASSUME Kept, Notify
    PROVE  Kept'
<1> DEFINE t == First(scheduler.due)
<1>1. /\ scheduler' = [scheduler EXCEPT !.pc = "due", !.due = @ \ {t}]
      /\ attention' = attention \cup {t}
      /\ UNCHANGED <<tick, nextId, deadlines, active, heap, notified, stopped, rung,
                     withdrawn, expired>>
      BY DEF Notify, queueVars
<1>2. t \in rung \cap expired /\ rung \cap scheduler.due = {t}
      BY DEF Notify, Kept, OneAfterTheOther, Announcing
<1>3. /\ scheduler'.pc = "due" /\ scheduler'.due = scheduler.due \ {t}
      /\ scheduler' \in [pc : Stages, wake : 0..Never, due : SUBSET Made]
  <2>1. "due" \in Stages /\ scheduler \in [pc : Stages, wake : 0..Never, due : SUBSET Made]
        BY DEF Kept, ThreadTyped, Stages
  <2> QED BY <1>1, <2>1
<1>4. (\A s : Due(s)' = Due(s)) /\ Made' = Made
      BY <1>1 DEF Due, Made
<1>5. QueueTyped' /\ ThreadTyped' /\ OutcomesTyped'
      BY <1>1, <1>2, <1>3, <1>4 DEF Kept, QueueTyped, ThreadTyped, OutcomesTyped, Never
<1>6. Horizon' /\ AwakeInTime' /\ Shown'
      BY <1>1, <1>2, <1>3, <1>4 DEF Kept, Horizon, AwakeInTime, Shown
<1>7. OneAfterTheOther'
      BY <1>1, <1>2, <1>3, <1>4 DEF Kept, OneAfterTheOther, Announcing
<1> QED BY <1>5, <1>6, <1>7 DEF Kept

LEMMA EndPassKeeps ==
    ASSUME Kept, EndPass
    PROVE  Kept'
<1>1. /\ UNCHANGED <<tick, nextId, deadlines, active, heap, notified, stopped, rung, withdrawn,
                     expired, attention>>
      /\ scheduler.pc = "due"
      BY DEF EndPass, queueVars
<1>2. /\ scheduler'.pc \notin {"notify", "asleep"} /\ scheduler'.due \subseteq scheduler.due
      /\ scheduler' \in [pc : Stages, wake : 0..Never, due : SUBSET Made]
  <2>1. /\ scheduler \in [pc : Stages, wake : 0..Never, due : SUBSET Made]
        /\ "stopped" \in Stages /\ "scan" \in Stages
        BY DEF Kept, ThreadTyped, Stages
  <2>2. CASE scheduler' = [scheduler EXCEPT !.pc = "stopped", !.due = {}]
        BY <2>1, <2>2
  <2>3. CASE scheduler' = [scheduler EXCEPT !.pc = "scan"]
        BY <2>1, <2>3
  <2> QED BY <2>2, <2>3 DEF EndPass
<1>3. (\A s : Due(s)' = Due(s)) /\ Made' = Made
      BY <1>1 DEF Due, Made
<1>4. QueueTyped' /\ ThreadTyped' /\ OutcomesTyped'
      BY <1>1, <1>2, <1>3 DEF Kept, QueueTyped, ThreadTyped, OutcomesTyped, Never
<1>5. Horizon' /\ AwakeInTime' /\ Shown'
      BY <1>1, <1>2, <1>3 DEF Kept, Horizon, AwakeInTime, Shown
<1>6. OneAfterTheOther'
      BY <1>1, <1>2, <1>3 DEF Kept, OneAfterTheOther, Announcing
<1> QED BY <1>4, <1>5, <1>6 DEF Kept

-----------------------------------------------------------------------------
(* The owner and the clock *)

\* What leaves the queue and the thread alone, takes attentions away or lets time pass.
LEMMA OutcomesKeep ==
    ASSUME Kept, tick' \in 0..LastTick, tick <= tick',
           UNCHANGED <<queueVars, scheduler, notified, stopped, rung, withdrawn>>,
           expired' \subseteq expired, attention' \subseteq attention \cap expired',
           scheduler.pc = "notify" => First(scheduler.due) \in expired'
    PROVE  Kept'
<1>1. UNCHANGED <<nextId, deadlines, active, heap>>
      BY DEF queueVars
<1>2. Made' = Made /\ (\A s : Due(s)' = Due(s)) /\ First(scheduler.due)' = First(scheduler.due)
      BY <1>1 DEF Due, Made, First, Earliest
<1>3. attention' \subseteq Made /\ expired' \subseteq Made
      BY DEF Kept, OutcomesTyped
<1>4. QueueTyped' /\ ThreadTyped' /\ OutcomesTyped'
      BY <1>1, <1>2, <1>3 DEF Kept, QueueTyped, ThreadTyped, OutcomesTyped, Never
<1>5. Horizon' /\ AwakeInTime' /\ Shown'
      BY <1>1, <1>2 DEF Kept, Horizon, AwakeInTime, Shown
<1>6. OneAfterTheOther'
  <2>1. Announcing'
        BY <1>2 DEF Kept, OneAfterTheOther, Announcing
  <2>2. \A t \in rung \cup scheduler.due : Due(t)' <= tick'
        BY <1>2 DEF Kept, OneAfterTheOther, Horizon, QueueTyped, ThreadTyped, OutcomesTyped
  <2> QED BY <1>1, <1>2, <2>1, <2>2 DEF Kept, OneAfterTheOther
<1> QED BY <1>4, <1>5, <1>6 DEF Kept

LEMMA AcknowledgeKeeps ==
    ASSUME Kept, NEW t \in Timer, Acknowledge(t)
    PROVE  Kept'
<1>1. scheduler.pc = "notify" => First(scheduler.due) \in expired'
      BY DEF Acknowledge, Kept, OneAfterTheOther, Announcing, Shown
<1>2. tick' = tick /\ tick \in 0..LastTick
      BY DEF Acknowledge, Kept, QueueTyped
<1>3. /\ expired' \subseteq expired /\ attention' \subseteq attention \cap expired'
      /\ UNCHANGED <<queueVars, scheduler, notified, stopped, rung, withdrawn>>
      BY DEF Acknowledge, Kept, Shown
<1> QED BY <1>1, <1>2, <1>3, Sizes, OutcomesKeep

LEMMA DismissKeeps ==
    ASSUME Kept, DismissAll
    PROVE  Kept'
<1>1. tick' = tick /\ tick \in 0..LastTick
      BY DEF DismissAll, Kept, QueueTyped
<1>2. /\ expired' \subseteq expired /\ attention' \subseteq attention \cap expired'
      /\ scheduler.pc # "notify"
      /\ UNCHANGED <<queueVars, scheduler, notified, stopped, rung, withdrawn>>
      BY DEF DismissAll, Kept, Shown
<1> QED BY <1>1, <1>2, Sizes, OutcomesKeep

LEMMA PassKeeps ==
    ASSUME Kept, Pass
    PROVE  Kept'
<1>1. tick' \in 0..LastTick /\ tick <= tick'
      BY Sizes DEF Pass, Kept, QueueTyped
<1>2. UNCHANGED <<queueVars, scheduler, notified, stopped, rung, withdrawn, expired, attention>>
      BY DEF Pass
<1>3. scheduler.pc = "notify" => First(scheduler.due) \in expired'
      BY <1>2 DEF Kept, OneAfterTheOther, Announcing
<1>4. attention' \subseteq attention \cap expired'
      BY <1>2 DEF Kept, Shown
<1> QED BY <1>1, <1>2, <1>3, <1>4, OutcomesKeep

\* What touches the menu alone.
LEMMA MenuKeeps ==
    ASSUME Kept, UNCHANGED <<tick, queueVars, scheduler, notified, stopped, rung, withdrawn,
                             expired, attention>>
    PROVE  Kept'
<1>1. tick' = tick /\ tick \in 0..LastTick
      BY DEF Kept, QueueTyped
<1>2. attention' \subseteq attention \cap expired'
      BY DEF Kept, Shown
<1>3. scheduler.pc = "notify" => First(scheduler.due) \in expired'
      BY DEF Kept, OneAfterTheOther, Announcing
<1> QED BY <1>1, <1>2, <1>3, Sizes, OutcomesKeep

LEMMA StopKeeps ==
    ASSUME Kept, StopScheduler
    PROVE  Kept'
<1>1. /\ UNCHANGED <<tick, nextId, deadlines, rung, withdrawn, expired, attention>>
      /\ active' = {} /\ heap' = {} /\ notified' = TRUE /\ stopped' = TRUE
      BY DEF StopScheduler
<1>2. /\ scheduler'.due = scheduler.due
      /\ scheduler'.pc = "notify" <=> scheduler.pc = "notify"
      /\ scheduler' \in [pc : Stages, wake : 0..Never, due : SUBSET Made]
  <2>1. scheduler \in [pc : Stages, wake : 0..Never, due : SUBSET Made] /\ "stopped" \in Stages
        BY DEF Kept, ThreadTyped, Stages
  <2>2. CASE scheduler.pc = "none"
    <3>1. scheduler' = [scheduler EXCEPT !.pc = "stopped"]
          BY <2>2 DEF StopScheduler
    <3> QED BY <2>1, <2>2, <3>1
  <2>3. CASE scheduler.pc # "none"
        BY <2>1, <2>3 DEF StopScheduler
  <2> QED BY <2>2, <2>3
<1>3. Made' = Made /\ (\A s : Due(s)' = Due(s)) /\ First(scheduler.due)' = First(scheduler.due)
      BY <1>1, <1>2 DEF Due, Made, First, Earliest
<1>4. QueueTyped' /\ ThreadTyped' /\ OutcomesTyped'
      BY <1>1, <1>2, <1>3, Sizes, FS_EmptySet
      DEF Kept, QueueTyped, ThreadTyped, OutcomesTyped, Never
<1>5. Horizon' /\ AwakeInTime' /\ Shown'
      BY <1>1, <1>2, <1>3 DEF Kept, Horizon, AwakeInTime, Shown
<1>6. OneAfterTheOther'
  <2>1. Announcing'
        BY <1>1, <1>2, <1>3 DEF Kept, OneAfterTheOther, Announcing
  <2> QED BY <1>1, <1>2, <1>3, <2>1 DEF Kept, OneAfterTheOther
<1> QED BY <1>4, <1>5, <1>6 DEF Kept

-----------------------------------------------------------------------------
(* Every step, and the theorem *)

LEMMA MenuOpened ==
    ASSUME NEW is \in SUBSET Timer
    PROVE  [NoMenu EXCEPT !.open = TRUE, !.items = is] \in Menus
BY EmptyMenu DEF Menus

LEMMA MenuUpdated ==
    ASSUME MenuTyped, NEW is \in SUBSET Timer, NEW e \in BOOLEAN
    PROVE  [menu EXCEPT !.items = is, !.error = e] \in Menus
BY DEF Menus, MenuTyped

LEMMA MenuEdited ==
    ASSUME MenuTyped, NEW is \in SUBSET Timer, NEW a \in BOOLEAN, NEW d \in 0..MaxDuration
    PROVE  [menu EXCEPT !.items = is, !.adding = a, !.draft = d, !.error = FALSE] \in Menus
BY DEF Menus, MenuTyped

LEMMA MenuAfter == ASSUME menu' \in Menus PROVE MenuTyped'
BY DEF MenuTyped, Menus, Timer

LEMMA MenuLeft == ASSUME MenuTyped, UNCHANGED menu PROVE MenuTyped'
BY DEF MenuTyped, Menus, Timer

LEMMA ActiveIsTimer == ASSUME Kept PROVE active \subseteq Timer
BY Sizes DEF Kept, QueueTyped, Made, Timer

LEMMA StepKeeps ==
    ASSUME TimerInv, TimerNext
    PROVE  TimerInv'
<1> SUFFICES Kept' /\ MenuTyped'
    BY DEF TimerInv
<1> Kept /\ MenuTyped
    BY DEF TimerInv
<1>1. ASSUME NEW d \in 1..MaxDuration, SetTimer(d) PROVE Kept' /\ MenuTyped'
      BY <1>1, ScheduleKeeps, MenuLeft DEF SetTimer
<1>2. ASSUME NEW request \in CancelRequests, CancelTimer(request) PROVE Kept' /\ MenuTyped'
      BY <1>2, WithdrawKeeps, MenuLeft DEF CancelTimer
<1>3. CASE CancelAllTimers
      BY <1>3, WithdrawKeeps, MenuLeft DEF CancelAllTimers
<1>4. CASE SchedulerStep
  <2>1. Kept'
        BY <1>4, ScanKeeps, RingKeeps, NotifyKeeps, EndPassKeeps DEF SchedulerStep
  <2> QED BY <1>4, <2>1, MenuLeft DEF SchedulerStep, Scan, Ring, Notify, EndPass
<1>5. ASSUME NEW t \in Timer, Acknowledge(t) PROVE Kept' /\ MenuTyped'
      BY <1>5, AcknowledgeKeeps, MenuLeft DEF Acknowledge
<1>6. ASSUME NEW t \in Timer, CancelFromMenu(t) PROVE Kept' /\ MenuTyped'
  <2>1. CASE t \in active
    <3>1. Withdraw({t}) /\ menu' = [menu EXCEPT !.items = active', !.error = FALSE]
          BY <1>6, <2>1 DEF CancelFromMenu
    <3>2. Kept' /\ active' \subseteq Timer
          BY <1>6, <3>1, WithdrawKeeps DEF CancelFromMenu
    <3>3. menu' \in Menus
          BY <3>1, <3>2, MenuUpdated
    <3> QED BY <3>2, <3>3, MenuAfter
  <2>2. CASE t \notin active
    <3>1. menu' = [menu EXCEPT !.items = active, !.error = TRUE]
          /\ UNCHANGED <<active, heap, withdrawn, notified>>
          BY <1>6, <2>2 DEF CancelFromMenu
    <3>2. Kept'
          BY <1>6, <3>1, MenuKeeps DEF CancelFromMenu, queueVars
    <3>3. menu' \in Menus
          BY <3>1, ActiveIsTimer, MenuUpdated
    <3> QED BY <3>2, <3>3, MenuAfter
  <2> QED BY <2>1, <2>2
<1>7. CASE OpenTimers
  <2>1. Kept'
        BY <1>7, MenuKeeps DEF OpenTimers
  <2>2. menu' \in Menus
        BY <1>7, ActiveIsTimer, MenuOpened DEF OpenTimers
  <2> QED BY <2>1, <2>2, MenuAfter
<1>8. CASE EditTimer
  <2>1. Kept'
        BY <1>8, MenuKeeps DEF EditTimer
  <2>2. PICK a \in BOOLEAN, d \in 0..MaxDuration :
            menu' = [menu EXCEPT !.items = active, !.adding = a, !.draft = d, !.error = FALSE]
        BY <1>8 DEF EditTimer
  <2>3. menu' \in Menus
        BY <2>2, ActiveIsTimer, MenuEdited
  <2> QED BY <2>1, <2>3, MenuAfter
<1>9. CASE CreateFromMenu
  <2>1. CASE /\ menu.draft > 0 /\ Schedule(menu.draft)
             /\ menu' = [NoMenu EXCEPT !.open = TRUE, !.items = active']
    <3>1. menu.draft \in 1..MaxDuration
          BY <2>1, Sizes DEF MenuTyped, Menus
    <3>2. Kept' /\ active' \subseteq Timer
          BY <1>9, <2>1, <3>1, ScheduleKeeps DEF CreateFromMenu
    <3>3. menu' \in Menus
          BY <2>1, <3>2, MenuOpened
    <3> QED BY <3>2, <3>3, MenuAfter
  <2>2. CASE /\ menu' = [menu EXCEPT !.items = active, !.error = TRUE]
             /\ UNCHANGED <<queueVars, scheduler, notified>>
    <3>1. Kept'
          BY <1>9, <2>2, MenuKeeps DEF CreateFromMenu
    <3>2. menu' \in Menus
          BY <2>2, ActiveIsTimer, MenuUpdated
    <3> QED BY <3>1, <3>2, MenuAfter
  <2> QED BY <1>9, <2>1, <2>2 DEF CreateFromMenu
<1>10. CASE CloseTimers \/ StopScheduler
  <2>1. Kept'
        BY <1>10, MenuKeeps, StopKeeps DEF CloseTimers
  <2> QED BY <1>10, <2>1, EmptyMenu, MenuAfter DEF CloseTimers, StopScheduler
<1>11. CASE DismissAll \/ Pass
      BY <1>11, DismissKeeps, PassKeeps, MenuLeft DEF DismissAll, Pass
<1> QED BY <1>1, <1>2, <1>3, <1>4, <1>5, <1>6, <1>7, <1>8, <1>9, <1>10, <1>11 DEF TimerNext

LEMMA TimersAreKept == ASSUME TimerInv PROVE TimersKeepTime
<1>1. TimerTypeOK
      BY TypeInParts DEF TimerInv, Kept
<1>2. NeverOversleeps
  <2> SUFFICES ASSUME scheduler.pc = "asleep", ~notified, active # {}
               PROVE  scheduler.wake <= Earliest(active)
      BY DEF NeverOversleeps
  <2>1. \A t \in active : Due(t) \in Nat /\ scheduler.wake <= Due(t)
        BY DEF TimerInv, Kept, Horizon, AwakeInTime, QueueTyped
  <2> QED BY <2>1, EarliestIsDue
<1>3. CancelledStaysSilent
      BY DEF CancelledStaysSilent, TimerInv, Kept, OneAfterTheOther
<1>4. NoAttentionOutlivesClose
      BY DEF NoAttentionOutlivesClose, TimerInv, Kept, Shown
<1> QED BY <1>1, <1>2, <1>3, <1>4 DEF TimersKeepTime

\* No timer is slept through, rings early, twice or after it was cancelled, and
\* no attention of one is left once the tool is closed, whatever is added,
\* cancelled and acknowledged while the thread sleeps or rings.
THEOREM TimersOnTime == TimerSpec => []TimersKeepTime
<1>1. ASSUME TimerInv, [TimerNext]_timerVars PROVE TimerInv'
  <2>1. CASE UNCHANGED timerVars
    <3>1. Kept'
          BY <1>1, <2>1, MenuKeeps DEF TimerInv, timerVars
    <3> QED BY <1>1, <2>1, <3>1, MenuLeft DEF TimerInv, timerVars
  <2> QED BY <1>1, <2>1, StepKeeps
<1> QED BY InitTimers, <1>1, TimersAreKept, PTL DEF TimerSpec

-----------------------------------------------------------------------------
(* Alarms: numbers, and the times an alarm is for *)

\* AlarmConstants, one number at a time.
LEMMA AlarmNumbers ==
    /\ MaxAlarms \in Nat /\ LastAlarm \in Nat /\ Day \in Nat /\ Week \in Nat
    /\ Grace \in Nat /\ Snooze \in Nat /\ LastMinute \in Nat
    /\ Day > 0 /\ Grace > 0 /\ Snooze > 0 /\ LastMinute > 0
    /\ Grace <= 2 * Day /\ Day <= LastMinute /\ Off = -1
    /\ \A days \in Repeats : days \subseteq 0..Week - 1
  BY AlarmConstants DEF Off

\* A moment lies in its day.
LEMMA DayOfTime ==
  ASSUME NEW t \in Nat
  PROVE  DayOf(t) \in Nat /\ DayOf(t) * Day <= t /\ t < DayOf(t) * Day + Day
  BY AlarmNumbers DEF DayOf

\* The date chosen for a one-time alarm puts it after the present minute.
LEMMA NextDateLater ==
  ASSUME minute \in Nat, NEW at \in 0..Day - 1
  PROVE  NextDate(at) \in Nat /\ NextDate(at) * Day + at > minute
<1>1. DayOf(minute) \in Nat /\ minute < DayOf(minute) * Day + Day
  BY DayOfTime
<1>2. (DayOf(minute) + 1) * Day = DayOf(minute) * Day + Day
  BY <1>1, AlarmNumbers
<1>3. QED
  BY <1>1, <1>2, AlarmNumbers DEF NextDate

\* A date is kept for a one-time alarm, and none for one that repeats.
LEMMA DateOK ==
  ASSUME minute \in Nat, NEW at \in 0..Day - 1, NEW days
  PROVE  DateFor(at, days) \in Int /\ (days = {} => DateFor(at, days) # Off)
         /\ (days # {} => DateFor(at, days) = Off)
  BY NextDateLater, AlarmNumbers DEF DateFor

\* What is due at the minute looked at was not fired, is for that minute or
\* less than the grace before it, and of a one-time alarm is either its snooze or
\* the very date and time it is switched on for.
LEMMA DueIsLate ==
  ASSUME StoreOK, looked \in Nat, NEW i \in DueAt(looked)
  PROVE  /\ i \in DOMAIN alarms /\ Occurrence(i, looked) \notin fired
         /\ Occurrence(i, looked)[1] = i
         /\ Occurrence(i, looked)[2] \in Int /\ Occurrence(i, looked)[2] <= looked
         /\ Occurrence(i, looked)[2] > looked - Grace
         /\ alarms[i].days = {} =>
              \/ alarms[i].snoozed # Off /\ Occurrence(i, looked)[2] = alarms[i].snoozed
              \/ alarms[i].enabled
                 /\ Occurrence(i, looked)[2] = alarms[i].date * Day + alarms[i].at
<1> DEFINE a == alarms[i]
<1>1. /\ i \in DOMAIN alarms /\ Occurrence(i, looked) \notin fired
      /\ IsSnooze(a, looked) \/ IsRegular(a, looked)
  BY DEF DueAt
<1>2. /\ a.at \in 0..Day - 1 /\ a.date \in Int /\ a.snoozed \in Int /\ a.enabled \in BOOLEAN
  BY <1>1 DEF StoreOK, AlarmOK
<1>3. RegularTarget(a, looked) \in Int
  BY <1>2, DayOfTime, AlarmNumbers DEF RegularTarget
<1>4. \A t \in Int : Late(t, looked) => t <= looked /\ t > looked - Grace
  BY AlarmNumbers DEF Late
<1>5. CASE IsSnooze(a, looked)
  BY <1>1, <1>2, <1>4, <1>5 DEF Occurrence, IsSnooze
<1>6. CASE ~IsSnooze(a, looked)
  <2>1. Occurrence(i, looked) = <<i, RegularTarget(a, looked)>>
    BY <1>6 DEF Occurrence
  <2>2. a.enabled /\ Late(RegularTarget(a, looked), looked)
    BY <1>1, <1>6 DEF IsRegular
  <2>3. a.days = {} => RegularTarget(a, looked) = a.date * Day + a.at
    BY DEF RegularTarget
  <2>4. QED
    BY <1>1, <1>3, <1>4, <2>1, <2>2, <2>3
<1>7. QED
  BY <1>5, <1>6

\* A check leaves an alarm as it is for, and spends a one-time alarm that is due.
LEMMA CheckedOK ==
  ASSUME StoreOK, NEW i \in DOMAIN alarms, NEW now
  PROVE  /\ AlarmOK(Checked(i, now))
         /\ Checked(i, now).days = alarms[i].days /\ Checked(i, now).at = alarms[i].at
         /\ Checked(i, now).date = alarms[i].date
         /\ Checked(i, now).enabled => alarms[i].enabled
         /\ Checked(i, now).snoozed # Off => Checked(i, now).snoozed = alarms[i].snoozed
         /\ (i \in DueAt(now) /\ alarms[i].days = {}) =>
               ~Checked(i, now).enabled /\ Checked(i, now).snoozed = Off
<1>1. /\ alarms[i] \in [at : 0..Day - 1, days : Repeats, date : Int, enabled : BOOLEAN, snoozed : Int]
      /\ ValidAlarm(alarms[i]) /\ (alarms[i].days = {} => alarms[i].date # Off)
  BY DEF StoreOK, AlarmOK
<1>2. Off \in Int
  BY DEF Off
<1>3. QED
  BY <1>1, <1>2 DEF Checked, AlarmOK, ValidAlarm

\* The fields of an alarm, as in AlarmOK.
AlarmRecord == [at : 0..Day - 1, days : Repeats, date : Int, enabled : BOOLEAN, snoozed : Int]

\* An alarm is well formed when its date goes with its repetition.
LEMMA RecordOK ==
  ASSUME NEW at \in 0..Day - 1, NEW days \in Repeats, NEW date \in Int, NEW enabled \in BOOLEAN,
         NEW snoozed \in Int, days = {} => date # Off, days # {} => date = Off
  PROVE  AlarmOK([at |-> at, days |-> days, date |-> date, enabled |-> enabled, snoozed |-> snoozed])
<1>1. days \subseteq 0..Week - 1
  BY AlarmNumbers
<1>2. QED
  BY <1>1 DEF AlarmOK, ValidAlarm

\* Editing an alarm, or switching it, leaves it well formed.
LEMMA EditedOK ==
  ASSUME NEW r \in AlarmRecord, NEW at \in 0..Day - 1, NEW days \in Repeats, NEW date \in Int,
         NEW enabled \in BOOLEAN, days = {} => date # Off, days # {} => date = Off
  PROVE  /\ AlarmOK([r EXCEPT !.at = at, !.days = days, !.date = date, !.snoozed = Off])
         /\ (at = r.at /\ days = r.days) =>
               AlarmOK([r EXCEPT !.enabled = enabled, !.snoozed = Off, !.date = date])
<1> DEFINE x == [r EXCEPT !.at = at, !.days = days, !.date = date, !.snoozed = Off]
           y == [r EXCEPT !.enabled = enabled, !.snoozed = Off, !.date = date]
<1>1. days \subseteq 0..Week - 1 /\ Off \in Int
  BY AlarmNumbers
<1>2. x \in AlarmRecord /\ x.at = at /\ x.days = days /\ x.date = date
  BY <1>1 DEF AlarmRecord
<1>3. y \in AlarmRecord /\ y.at = r.at /\ y.days = r.days /\ y.date = date
  BY <1>1 DEF AlarmRecord
<1> HIDE DEF x, y
<1>4. AlarmOK(x)
  BY <1>1, <1>2 DEF AlarmOK, ValidAlarm, AlarmRecord
<1>5. (at = r.at /\ days = r.days) => AlarmOK(y)
  BY <1>1, <1>3 DEF AlarmOK, ValidAlarm, AlarmRecord
<1>6. QED
  BY <1>4, <1>5 DEF x, y

\* Every step leaves the saved alarms well formed, under ids given out.
LEMMA StoreStep == ASSUME AlarmTypeOK, [AlarmNext]_alarmVars PROVE StoreOK'
<1> USE DEF AlarmTypeOK
<1>1. CASE UNCHANGED alarmStore
  BY <1>1 DEF alarmStore, StoreOK, AlarmOK, ValidAlarm
<1>2. CASE CheckDue
  <2>1. alarmNext' = alarmNext
    BY <1>2 DEF CheckDue
  <2>2. CASE alarms' = alarms
    BY <2>1, <2>2 DEF StoreOK, AlarmOK, ValidAlarm
  <2>3. CASE alarms' = [i \in DOMAIN alarms |-> Checked(i, looked)]
    <3>1. \A i \in DOMAIN alarms : AlarmOK(Checked(i, looked))
      BY CheckedOK
    <3>2. QED
      BY <2>1, <2>3, <3>1 DEF StoreOK, AlarmOK, ValidAlarm
  <2>4. QED
    BY <1>2, <2>2, <2>3 DEF CheckDue
<1>3. ASSUME NEW at \in 0..Day - 1, NEW days \in Repeats, SetAlarm(at, days) PROVE StoreOK'
  <2> DEFINE new == [at |-> at, days |-> days, date |-> DateFor(at, days),
                     enabled |-> TRUE, snoozed |-> Off]
  <2>1. AlarmOK(new)
    <3>1. DateFor(at, days) \in Int /\ (days = {} => DateFor(at, days) # Off)
          /\ (days # {} => DateFor(at, days) = Off) /\ Off \in Int
      BY DateOK, AlarmNumbers
    <3>2. QED
      BY <3>1, RecordOK
  <2>2. /\ alarmNext <= LastAlarm /\ alarmNext' = alarmNext + 1
        /\ alarms' = [i \in DOMAIN alarms \union {alarmNext} |->
                         IF i = alarmNext THEN new ELSE alarms[i]]
    BY <1>3 DEF SetAlarm
  <2> HIDE DEF new
  <2>3. \A i \in DOMAIN alarms' : AlarmOK(alarms'[i])
    BY <2>1, <2>2 DEF StoreOK
  <2>4. alarmNext' \in 1..(LastAlarm + 1) /\ DOMAIN alarms' \subseteq 1..(alarmNext' - 1)
    BY <2>2, AlarmNumbers DEF StoreOK
  <2>5. QED
    BY <2>3, <2>4 DEF StoreOK, AlarmOK, ValidAlarm
<1>4. ASSUME NEW at \in 0..Day - 1, NEW days \in Repeats, UpdateAlarm(at, days) PROVE StoreOK'
  <2> DEFINE old == alarms[editor.id]
             new == [old EXCEPT !.at = at, !.days = days, !.date = DateFor(at, days), !.snoozed = Off]
  <2>1. old \in [at : 0..Day - 1, days : Repeats, date : Int, enabled : BOOLEAN, snoozed : Int]
    BY <1>4 DEF UpdateAlarm, StoreOK, AlarmOK
  <2>2. AlarmOK(new)
    <3>1. /\ DateFor(at, days) \in Int /\ (days = {} => DateFor(at, days) # Off)
          /\ (days # {} => DateFor(at, days) = Off)
      BY DateOK, AlarmNumbers
    <3>2. old \in AlarmRecord
      BY <2>1 DEF AlarmRecord
    <3>3. QED
      BY <3>1, <3>2, EditedOK
  <2>3. alarmNext' = alarmNext /\ alarms' = [alarms EXCEPT ![editor.id] = new]
    BY <1>4 DEF UpdateAlarm
  <2> HIDE DEF new
  <2>4. QED
    BY <2>2, <2>3 DEF StoreOK, AlarmOK, ValidAlarm
<1>5. ASSUME NEW i \in AlarmId, NEW on \in BOOLEAN, ToggleAlarm(i, on) PROVE StoreOK'
  <2> DEFINE a == alarms[i]
             new == [a EXCEPT !.enabled = on, !.snoozed = Off,
                              !.date = IF a.days = {} /\ on THEN NextDate(a.at) ELSE @]
  <2>1. /\ a \in [at : 0..Day - 1, days : Repeats, date : Int, enabled : BOOLEAN, snoozed : Int]
        /\ ValidAlarm(a) /\ (a.days = {} => a.date # Off)
    BY <1>5 DEF ToggleAlarm, StoreOK, AlarmOK
  <2>2. NextDate(a.at) \in Int /\ NextDate(a.at) # Off
    BY <2>1, NextDateLater, AlarmNumbers
  <2>3. AlarmOK(new)
    <3> DEFINE date == IF a.days = {} /\ on THEN NextDate(a.at) ELSE a.date
    <3>2. /\ a.at \in 0..Day - 1 /\ a.days \in Repeats /\ date \in Int /\ a \in AlarmRecord
          /\ (a.days = {} => date # Off) /\ (a.days # {} => date = Off)
      BY <2>1, <2>2, AlarmNumbers DEF ValidAlarm, AlarmRecord
    <3>3. new = [a EXCEPT !.enabled = on, !.snoozed = Off, !.date = date]
      OBVIOUS
    <3> HIDE DEF a, new, date
    <3>4. QED
      BY <3>2, <3>3, EditedOK
  <2>4. alarmNext' = alarmNext /\ alarms' = [alarms EXCEPT ![i] = new]
    BY <1>5 DEF ToggleAlarm
  <2> HIDE DEF new
  <2>5. QED
    BY <2>3, <2>4 DEF StoreOK, AlarmOK, ValidAlarm
<1>6. ASSUME NEW i \in AlarmId, SnoozeAlarm(i) PROVE StoreOK'
  <2> DEFINE new(j) == [alarms[j] EXCEPT !.snoozed = minute + Snooze]
  <2>1. \A j \in DOMAIN alarms : AlarmOK(new(j))
    BY AlarmNumbers DEF StoreOK, AlarmOK, ValidAlarm
  <2>2. alarmNext' = alarmNext /\ alarms' = [j \in DOMAIN alarms |-> IF j = i THEN new(j) ELSE alarms[j]]
    BY <1>6 DEF SnoozeAlarm
  <2> HIDE DEF new
  <2>3. QED
    BY <2>1, <2>2 DEF StoreOK, AlarmOK, ValidAlarm
<1>7. CASE (\E i \in AlarmId : DeleteAlarm(i)) \/ DeleteAllAlarms
  <2>1. CASE \E i \in AlarmId : DeleteAlarm(i)
    BY <2>1 DEF DeleteAlarm, StoreOK, AlarmOK, ValidAlarm
  <2>2. CASE DeleteAllAlarms
    <3>1. DOMAIN alarms' = {} /\ alarmNext' = alarmNext
      BY <2>2 DEF DeleteAllAlarms
    <3>2. QED
      BY <3>1 DEF StoreOK
  <2>3. QED
    BY <1>7, <2>1, <2>2
<1>8. QED
  <2>1. CASE LookAtClock \/ RingAlarm \/ AnnounceAlarm \/ OpenEditor \/ CloseEditor
    BY <2>1, <1>1 DEF LookAtClock, RingAlarm, AnnounceAlarm, OpenEditor, CloseEditor, alarmStore
  <2>2. CASE DismissAllRinging \/ MinutePasses \/ RestartClock \/ UNCHANGED alarmVars
    BY <2>2, <1>1 DEF DismissAllRinging, MinutePasses, RestartClock, alarmVars
  <2>3. CASE \E i \in AlarmId : DismissAlarm(i) \/ PopRinging(i) \/ DropAttention(i)
    BY <2>3, <1>1 DEF DismissAlarm, PopRinging, DropAttention
  <2>4. QED
    BY <1>2, <1>3, <1>4, <1>5, <1>6, <1>7, <2>1, <2>2, <2>3 DEF AlarmNext, AlarmChange

\* The rest of the type invariant.
Rest ==
    /\ minute \in 0..LastMinute /\ looked \in {Off} \union 0..minute
    /\ due \subseteq AlarmId /\ ringing \subseteq AlarmId /\ shownAlarms \subseteq AlarmId
    /\ ringer \in AlarmId \union {0}
    /\ dismissing \subseteq ({"pop", "tell"} \X AlarmId) \union {<<"all", 0>>}
    /\ editor \in [on : BOOLEAN, id : AlarmId \union {0}]

\* What the touch editor can be.
LEMMA EditorRecord ==
  ASSUME NEW on \in BOOLEAN, NEW i \in AlarmId \union {0}
  PROVE  [on |-> on, id |-> i] \in [on : BOOLEAN, id : AlarmId \union {0}]
  OBVIOUS

\* Every step leaves the rest of the type invariant.
LEMMA RestStep == ASSUME StoreOK, Rest, [AlarmNext]_alarmVars PROVE Rest'
<1> USE AlarmNumbers DEF Rest
<1>1. \A i \in DOMAIN alarms : i \in AlarmId
  BY DEF StoreOK, AlarmId
<1>2. CASE LookAtClock
  BY <1>2 DEF LookAtClock, alarmStore
<1>3. CASE CheckDue
  <2>1. due' \subseteq AlarmId
    BY <1>1, <1>3 DEF CheckDue, DueAt
  <2>2. QED
    BY <1>3, <2>1 DEF CheckDue
<1>4. CASE RingAlarm
  <2>1. Min(due) \in due
    <3>1. due \subseteq Nat /\ due # {}
      BY <1>4 DEF RingAlarm, AlarmId
    <3>2. QED
      BY <3>1, MinIsLeast
  <2>2. QED
    BY <1>4, <2>1 DEF RingAlarm, alarmStore
<1>5. CASE AnnounceAlarm
  BY <1>5 DEF AnnounceAlarm, alarmStore
<1>6. CASE OpenEditor \/ CloseEditor
  <2>1. editor' \in [on : BOOLEAN, id : AlarmId \union {0}]
    BY <1>1, <1>6, EditorRecord DEF OpenEditor, CloseEditor, NoEditor
  <2>2. QED
    BY <1>6, <2>1 DEF OpenEditor, CloseEditor, Unringing, worker
<1>7. ASSUME NEW at, NEW days, SetAlarm(at, days) \/ UpdateAlarm(at, days) PROVE Rest'
  <2>1. editor' = editor \/ editor' = NoEditor
    BY <1>7 DEF SetAlarm, UpdateAlarm
  <2>2. editor' \in [on : BOOLEAN, id : AlarmId \union {0}]
    BY <2>1, EditorRecord DEF NoEditor
  <2>3. QED
    BY <1>7, <2>2 DEF SetAlarm, UpdateAlarm, Unringing, worker
<1>8. ASSUME NEW i \in AlarmId, NEW on \in BOOLEAN, ToggleAlarm(i, on) PROVE Rest'
  BY <1>8 DEF ToggleAlarm, Unringing, worker
<1>9. ASSUME NEW i \in AlarmId, DeleteAlarm(i) \/ SnoozeAlarm(i) \/ DismissAlarm(i) PROVE Rest'
  BY <1>9 DEF DeleteAlarm, SnoozeAlarm, DismissAlarm, Unringing, worker
<1>10. CASE DeleteAllAlarms \/ DismissAllRinging
  BY <1>10 DEF DeleteAllAlarms, DismissAllRinging, Unringing, worker
<1>11. ASSUME NEW i \in AlarmId, PopRinging(i) \/ DropAttention(i) PROVE Rest'
  BY <1>11 DEF PopRinging, DropAttention, worker
<1>12. CASE MinutePasses
  BY <1>12 DEF MinutePasses, worker
<1>13. CASE RestartClock
  BY <1>13 DEF RestartClock, NoEditor
<1>14. CASE UNCHANGED alarmVars
  BY <1>14 DEF alarmVars, worker
<1>15. QED
  BY <1>2, <1>3, <1>4, <1>5, <1>6, <1>7, <1>8, <1>9, <1>10, <1>11, <1>12, <1>13, <1>14
  DEF AlarmNext, AlarmChange

-----------------------------------------------------------------------------
(* What was fired and what was spent *)

\* Too old to be due again, at the minute of the check to come or any later one.
Dropped(t) == t < minute - 2 * Day /\ (looked # Off => t < looked - 2 * Day)

\* A one-time alarm that will ring only for something after t.
Beyond(a, t) ==
    a.days = {} => /\ a.enabled => a.date * Day + a.at > t
                   /\ a.snoozed # Off => a.snoozed > t

\* The occurrences the ghost remembers.
FiredRecord == [of : AlarmId \X Int, thisRun : BOOLEAN, spent : BOOLEAN]

\* Ids given out, moments past; a start forgets all but what was spent.
RangTyped ==
    \A r \in rang : /\ r \in FiredRecord /\ r.of[1] < alarmNext /\ r.of[2] <= minute
                    /\ r.thisRun \/ r.spent

\* What was fired in this run is remembered as long as it can be due.
FiredKept == \A r \in rang : r.thisRun => r.of \in fired \/ Dropped(r.of[2])

\* What was saved as spent is not due again: whoever changes the alarm since
\* gives it a later time.
SpentStays ==
    \A r \in rang : r.spent /\ r.of[1] \in DOMAIN alarms => Beyond(alarms[r.of[1]], r.of[2])

\* The inductive invariant of the alarm clock.
AlarmInv == AlarmTypeOK /\ RangTyped /\ FiredKept /\ SpentStays

\* A change of the file keeps the invariant when each alarm changed is new, or no
\* earlier for it.
LEMMA ChangeKeeps ==
  ASSUME AlarmInv, UNCHANGED <<minute, looked, fired, rang>>,
         alarmNext' \in Nat, alarmNext <= alarmNext',
         \A i \in DOMAIN alarms' :
            \/ i \in DOMAIN alarms /\ alarms'[i] = alarms[i]
            \/ i = alarmNext
            \/ /\ i \in DOMAIN alarms
               /\ \A t \in Int : t <= minute /\ Beyond(alarms[i], t) => Beyond(alarms'[i], t)
  PROVE  (RangTyped /\ FiredKept /\ SpentStays)'
<1>1. alarmNext \in Nat /\ minute \in Nat
  BY AlarmNumbers DEF AlarmInv, AlarmTypeOK, StoreOK
<1>2. \A r \in rang : /\ r.of[1] \in Nat /\ r.of[2] \in Int
  BY DEF AlarmInv, RangTyped, FiredRecord, AlarmId
<1>3. RangTyped'
  BY <1>1, <1>2 DEF AlarmInv, RangTyped
<1>4. FiredKept'
  BY DEF AlarmInv, FiredKept, Dropped
<1>5. SpentStays'
  <2> SUFFICES ASSUME NEW r \in rang, r.spent, r.of[1] \in DOMAIN alarms'
               PROVE  Beyond(alarms'[r.of[1]], r.of[2])
    BY DEF SpentStays
  <2>1. r.of[1] < alarmNext /\ r.of[2] <= minute /\ r.of[1] \in Nat /\ r.of[2] \in Int
    BY <1>2 DEF AlarmInv, RangTyped
  <2>2. r.of[1] # alarmNext
    BY <1>1, <2>1
  <2>3. r.of[1] \in DOMAIN alarms => Beyond(alarms[r.of[1]], r.of[2])
    BY DEF AlarmInv, SpentStays
  <2>4. QED
    BY <2>1, <2>2, <2>3
<1>6. QED
  BY <1>3, <1>4, <1>5

\* Every change by voice or by touch gives the alarm it changes a later time.
LEMMA ChangesAreLater ==
  ASSUME AlarmInv, AlarmChange
  PROVE  (RangTyped /\ FiredKept /\ SpentStays)'
<1> USE AlarmNumbers
<1>1. /\ minute \in Nat /\ alarmNext \in Nat /\ StoreOK /\ alarmNext >= 1
  BY DEF AlarmInv, AlarmTypeOK, StoreOK
<1>2. ASSUME NEW at \in 0..Day - 1, NEW days \in Repeats, SetAlarm(at, days)
      PROVE  (RangTyped /\ FiredKept /\ SpentStays)'
  <2>1. UNCHANGED <<minute, looked, fired, rang>> /\ alarmNext' = alarmNext + 1
    BY <1>2 DEF SetAlarm, Unringing, worker
  <2>2. /\ DOMAIN alarms' = DOMAIN alarms \union {alarmNext}
        /\ \A i \in DOMAIN alarms : i # alarmNext => alarms'[i] = alarms[i]
    BY <1>2 DEF SetAlarm
  <2>3. QED
    BY <1>1, <2>1, <2>2, ChangeKeeps
<1>3. ASSUME NEW at \in 0..Day - 1, NEW days \in Repeats, UpdateAlarm(at, days)
      PROVE  (RangTyped /\ FiredKept /\ SpentStays)'
  <2> DEFINE old == alarms[editor.id]
             new == [old EXCEPT !.at = at, !.days = days, !.date = DateFor(at, days), !.snoozed = Off]
  <2>1. UNCHANGED <<minute, looked, fired, rang, alarmNext>>
    BY <1>3 DEF UpdateAlarm, Unringing, worker
  <2>2. alarms' = [alarms EXCEPT ![editor.id] = new]
    BY <1>3 DEF UpdateAlarm
  <2>3. old \in AlarmRecord
    BY <1>1, <1>3 DEF UpdateAlarm, StoreOK, AlarmOK, AlarmRecord
  <2>4. new.at = at /\ new.days = days /\ new.date = DateFor(at, days) /\ new.snoozed = Off
    BY <2>3 DEF AlarmRecord
  <2>5. days = {} => DateFor(at, days) * Day + at > minute /\ DateFor(at, days) \in Nat
    BY <1>1, NextDateLater DEF DateFor
  <2> HIDE DEF old, new
  <2>6. \A t \in Int : t <= minute => Beyond(new, t)
    <3> SUFFICES ASSUME NEW t \in Int, t <= minute, new.days = {}
                 PROVE  new.date * Day + new.at > t
      BY <2>4 DEF Beyond
    <3>1. new.date * Day \in Nat /\ new.at \in Nat /\ new.date * Day + new.at > minute
      BY <2>4, <2>5
    <3>2. QED
      BY <1>1, <3>1
  <2>7. \A i \in DOMAIN alarms' :
            \/ i \in DOMAIN alarms /\ alarms'[i] = alarms[i]
            \/ /\ i \in DOMAIN alarms
               /\ \A t \in Int : t <= minute /\ Beyond(alarms[i], t) => Beyond(alarms'[i], t)
    BY <2>2, <2>6
  <2>8. QED
    BY <1>1, <2>1, <2>7, ChangeKeeps
<1>4. ASSUME NEW i \in AlarmId, NEW on \in BOOLEAN, ToggleAlarm(i, on)
      PROVE  (RangTyped /\ FiredKept /\ SpentStays)'
  <2> DEFINE a == alarms[i]
             new == [a EXCEPT !.enabled = on, !.snoozed = Off,
                              !.date = IF a.days = {} /\ on THEN NextDate(a.at) ELSE @]
  <2>1. UNCHANGED <<minute, looked, fired, rang, alarmNext>>
    BY <1>4 DEF ToggleAlarm, Unringing, worker
  <2>2. alarms' = [alarms EXCEPT ![i] = new]
    BY <1>4 DEF ToggleAlarm
  <2>3. a \in AlarmRecord
    BY <1>1, <1>4 DEF ToggleAlarm, StoreOK, AlarmOK, AlarmRecord
  <2>4. /\ new.at = a.at /\ new.days = a.days /\ new.enabled = on /\ new.snoozed = Off
        /\ (a.days = {} /\ on) => new.date = NextDate(a.at)
    BY <2>3 DEF AlarmRecord
  <2>5. NextDate(a.at) * Day + a.at > minute /\ NextDate(a.at) \in Nat /\ a.at \in Nat
    BY <1>1, <2>3, NextDateLater DEF AlarmRecord
  <2> HIDE DEF a, new
  <2>6. \A t \in Int : t <= minute => Beyond(new, t)
    <3> SUFFICES ASSUME NEW t \in Int, t <= minute, new.days = {}, on
                 PROVE  new.date * Day + new.at > t
      BY <2>4 DEF Beyond
    <3>1. new.date * Day \in Nat /\ new.at \in Nat /\ new.date * Day + new.at > minute
      BY <2>4, <2>5
    <3>2. QED
      BY <1>1, <3>1
  <2>7. \A j \in DOMAIN alarms' :
            \/ j \in DOMAIN alarms /\ alarms'[j] = alarms[j]
            \/ /\ j \in DOMAIN alarms
               /\ \A t \in Int : t <= minute /\ Beyond(alarms[j], t) => Beyond(alarms'[j], t)
    BY <2>2, <2>6
  <2>8. QED
    BY <1>1, <2>1, <2>7, ChangeKeeps
<1>5. ASSUME NEW i \in AlarmId, SnoozeAlarm(i)
      PROVE  (RangTyped /\ FiredKept /\ SpentStays)'
  <2>1. UNCHANGED <<minute, looked, fired, rang, alarmNext>>
    BY <1>5 DEF SnoozeAlarm, Unringing, worker
  <2>2. alarms' = [j \in DOMAIN alarms |->
                      IF j = i THEN [alarms[j] EXCEPT !.snoozed = minute + Snooze] ELSE alarms[j]]
    BY <1>5 DEF SnoozeAlarm
  <2>3. \A j \in DOMAIN alarms : alarms[j] \in AlarmRecord
    BY <1>1 DEF StoreOK, AlarmOK, AlarmRecord
  <2> DEFINE new == [alarms[i] EXCEPT !.snoozed = minute + Snooze]
  <2>4. i \in DOMAIN alarms => /\ new.at = alarms[i].at /\ new.days = alarms[i].days
                               /\ new.date = alarms[i].date /\ new.enabled = alarms[i].enabled
                               /\ new.snoozed = minute + Snooze
    BY <2>3 DEF AlarmRecord
  <2> HIDE DEF new
  <2>5. i \in DOMAIN alarms =>
           \A t \in Int : t <= minute /\ Beyond(alarms[i], t) => Beyond(new, t)
    BY <1>1, <2>4 DEF Beyond
  <2>6. \A j \in DOMAIN alarms' :
            \/ j \in DOMAIN alarms /\ alarms'[j] = alarms[j]
            \/ /\ j \in DOMAIN alarms
               /\ \A t \in Int : t <= minute /\ Beyond(alarms[j], t) => Beyond(alarms'[j], t)
    BY <2>2, <2>5 DEF new
  <2>7. QED
    BY <1>1, <2>1, <2>6, ChangeKeeps
<1>6. CASE (\E i \in AlarmId : DeleteAlarm(i)) \/ DeleteAllAlarms
  <2>1. UNCHANGED <<minute, looked, fired, rang, alarmNext>>
    BY <1>6 DEF DeleteAlarm, DeleteAllAlarms, Unringing, worker
  <2>2. \A j \in DOMAIN alarms' : j \in DOMAIN alarms /\ alarms'[j] = alarms[j]
    <3>1. CASE DeleteAllAlarms
      <4>1. DOMAIN alarms' = {}
        BY <3>1 DEF DeleteAllAlarms
      <4>2. QED
        BY <4>1
    <3>2. CASE \E i \in AlarmId : DeleteAlarm(i)
      BY <3>2 DEF DeleteAlarm
    <3>3. QED
      BY <1>6, <3>1, <3>2
  <2>3. QED
    BY <1>1, <2>1, <2>2, ChangeKeeps
<1>7. QED
  BY <1>2, <1>3, <1>4, <1>5, <1>6 DEF AlarmChange

\* A check remembers what it fires, and spends it when the save succeeds.
LEMMA CheckKeeps ==
  ASSUME AlarmInv, CheckDue
  PROVE  (RangTyped /\ FiredKept /\ SpentStays)'
<1> USE AlarmNumbers
<1>1. /\ minute \in Nat /\ alarmNext \in Nat /\ StoreOK /\ looked \in Nat /\ looked <= minute
      /\ looked' = Off /\ minute' = minute /\ alarmNext' = alarmNext
  BY DEF AlarmInv, AlarmTypeOK, StoreOK, CheckDue
<1>2. PICK saved \in BOOLEAN :
          /\ alarms' = IF saved THEN [i \in DOMAIN alarms |-> Checked(i, looked)] ELSE alarms
          /\ rang' = rang \union {[of |-> Occurrence(i, looked), thisRun |-> TRUE,
                                   spent |-> saved /\ alarms[i].days = {}] : i \in DueAt(looked)}
  BY DEF CheckDue
<1>3. fired' = {o \in fired \union {Occurrence(i, looked) : i \in DueAt(looked)} : o[2] >= looked - 2 * Day}
  BY DEF CheckDue, Remembered
<1> DEFINE New(r) == \E i \in DueAt(looked) :
               r = [of |-> Occurrence(i, looked), thisRun |-> TRUE, spent |-> saved /\ alarms[i].days = {}]
<1>4. \A r \in rang' : r \in rang \/ New(r)
  BY <1>2
<1>5. ASSUME NEW i \in DueAt(looked)
      PROVE  /\ i \in DOMAIN alarms /\ i \in AlarmId /\ i < alarmNext
             /\ Occurrence(i, looked) \in AlarmId \X Int /\ Occurrence(i, looked)[1] = i
             /\ Occurrence(i, looked)[2] <= looked /\ Occurrence(i, looked)[2] > looked - Grace
             /\ Occurrence(i, looked)[2] \in Int
  <2>1. /\ i \in DOMAIN alarms
        /\ Occurrence(i, looked)[1] = i
        /\ Occurrence(i, looked)[2] \in Int /\ Occurrence(i, looked)[2] <= looked
        /\ Occurrence(i, looked)[2] > looked - Grace
    BY <1>1, DueIsLate
  <2>2. i \in AlarmId /\ i < alarmNext
    BY <1>1, <2>1 DEF StoreOK, AlarmId
  <2>3. Occurrence(i, looked) \in AlarmId \X Int
    BY <2>1, <2>2 DEF Occurrence
  <2>4. QED
    BY <2>1, <2>2, <2>3
<1>6. RangTyped'
  <2> SUFFICES ASSUME NEW r \in rang'
               PROVE  /\ r \in FiredRecord /\ r.of[1] < alarmNext /\ r.of[2] <= minute
                      /\ r.thisRun \/ r.spent
    BY <1>1 DEF RangTyped
  <2>1. CASE r \in rang
    BY <2>1 DEF AlarmInv, RangTyped
  <2>2. CASE New(r)
    <3>1. PICK i \in DueAt(looked) :
             r = [of |-> Occurrence(i, looked), thisRun |-> TRUE, spent |-> saved /\ alarms[i].days = {}]
      BY <2>2
    <3>2. r.of = Occurrence(i, looked) /\ r.thisRun = TRUE /\ r \in FiredRecord
      <4>1. (saved /\ alarms[i].days = {}) \in BOOLEAN
        OBVIOUS
      <4>2. QED
        BY <1>5, <3>1, <4>1 DEF FiredRecord
    <3>3. QED
      BY <1>1, <1>5, <3>2
  <2>3. QED
    BY <1>4, <2>1, <2>2
<1>7. FiredKept'
  <2> SUFFICES ASSUME NEW r \in rang', r.thisRun, r.of \notin fired'
               PROVE  r.of[2] < minute - 2 * Day
    BY <1>1 DEF FiredKept, Dropped
  <2>1. CASE r \in rang
    <3>1. r.of \in fired \/ r.of[2] < minute - 2 * Day
      BY <2>1 DEF AlarmInv, FiredKept, Dropped
    <3>2. r.of[2] \in Int
      BY <2>1 DEF AlarmInv, RangTyped, FiredRecord
    <3>3. QED
      BY <1>1, <1>3, <3>1, <3>2
  <2>2. CASE New(r)
    <3>1. PICK i \in DueAt(looked) : r.of = Occurrence(i, looked)
      BY <2>2
    <3>2. r.of \in fired'
      BY <1>1, <1>3, <1>5, <3>1
    <3>3. QED
      BY <3>2
  <2>3. QED
    BY <1>4, <2>1, <2>2
<1>8. SpentStays'
  <2> SUFFICES ASSUME NEW r \in rang', r.spent, r.of[1] \in DOMAIN alarms'
               PROVE  Beyond(alarms'[r.of[1]], r.of[2])
    BY DEF SpentStays
  <2> DEFINE i == r.of[1]
  <2>1. i \in DOMAIN alarms
    BY <1>2
  <2>2. /\ Checked(i, looked).days = alarms[i].days /\ Checked(i, looked).at = alarms[i].at
        /\ Checked(i, looked).date = alarms[i].date
        /\ Checked(i, looked).enabled => alarms[i].enabled
        /\ Checked(i, looked).snoozed # Off => Checked(i, looked).snoozed = alarms[i].snoozed
        /\ (i \in DueAt(looked) /\ alarms[i].days = {}) =>
              ~Checked(i, looked).enabled /\ Checked(i, looked).snoozed = Off
    BY <1>1, <2>1, CheckedOK
  <2>3. alarms'[i] = IF saved THEN Checked(i, looked) ELSE alarms[i]
    BY <1>2, <2>1
  <2>4. CASE r \in rang
    <3>1. Beyond(alarms[i], r.of[2])
      BY <2>1, <2>4 DEF AlarmInv, SpentStays
    <3> HIDE DEF i
    <3>2. QED
      BY <2>2, <2>3, <3>1 DEF Beyond, i
  <2>5. CASE New(r)
    <3>1. PICK j \in DueAt(looked) :
             r = [of |-> Occurrence(j, looked), thisRun |-> TRUE, spent |-> saved /\ alarms[j].days = {}]
      BY <2>5
    <3>2. i = j /\ saved /\ alarms[j].days = {}
      BY <1>5, <3>1
    <3>3. QED
      BY <2>2, <2>3, <3>2 DEF Beyond
  <2>6. QED
    BY <1>4, <2>4, <2>5
<1>9. QED
  BY <1>6, <1>7, <1>8

\* What neither checks nor changes alarms lets time pass, or forgets a run.
LEMMA RestKeeps ==
  ASSUME AlarmInv, [AlarmNext]_alarmVars, ~CheckDue, ~AlarmChange
  PROVE  (RangTyped /\ FiredKept /\ SpentStays)'
<1> USE AlarmNumbers
<1>1. /\ minute \in Nat /\ looked \in {Off} \union 0..minute /\ alarmNext \in Nat
      /\ \A r \in rang : r.of[2] \in Int /\ r.of[2] <= minute /\ r \in FiredRecord
  BY DEF AlarmInv, AlarmTypeOK, StoreOK, RangTyped, FiredRecord
<1>2. CASE RestartClock
  <2>1. /\ rang' = {[r EXCEPT !.thisRun = FALSE] : r \in {q \in rang : q.spent}}
        /\ minute' \in Nat /\ minute <= minute' /\ UNCHANGED alarmStore
    BY <1>1, <1>2 DEF RestartClock
  <2>2. ASSUME NEW r \in rang'
        PROVE  /\ r \in FiredRecord /\ ~r.thisRun /\ r.spent
               /\ \E q \in rang : q.spent /\ r.of = q.of
    <3>1. PICK q \in rang : q.spent /\ r = [q EXCEPT !.thisRun = FALSE]
      BY <2>1
    <3>2. q \in FiredRecord
      BY <1>1
    <3>3. r \in FiredRecord /\ r.thisRun = FALSE /\ r.spent = q.spent /\ r.of = q.of
      BY <3>1, <3>2 DEF FiredRecord
    <3>4. QED
      BY <3>1, <3>3
  <2>3. RangTyped'
    <3> SUFFICES ASSUME NEW r \in rang'
                 PROVE  /\ r \in FiredRecord /\ r.of[1] < alarmNext' /\ r.of[2] <= minute'
                        /\ r.thisRun \/ r.spent
      BY DEF RangTyped
    <3>1. PICK q \in rang : q.spent /\ r.of = q.of
      BY <2>2
    <3>2. q.of[1] < alarmNext /\ q.of[2] <= minute /\ q.of[2] \in Int
      BY <1>1 DEF AlarmInv, RangTyped
    <3>3. QED
      BY <1>1, <2>1, <2>2, <3>1, <3>2 DEF alarmStore
  <2>4. FiredKept'
    BY <2>2 DEF FiredKept
  <2>5. SpentStays'
    BY <2>1, <2>2 DEF AlarmInv, SpentStays, alarmStore
  <2>6. QED
    BY <2>3, <2>4, <2>5
<1>3. CASE ~RestartClock
  <2>1. /\ UNCHANGED <<alarms, alarmNext, fired, rang>>
        /\ minute' \in Nat /\ minute <= minute'
        /\ looked' = looked \/ (minute' = minute /\ looked' = minute)
    <3>1. CASE LookAtClock \/ RingAlarm \/ AnnounceAlarm
      BY <1>1, <3>1 DEF LookAtClock, RingAlarm, AnnounceAlarm, alarmStore
    <3>2. CASE OpenEditor \/ CloseEditor \/ DismissAllRinging
      BY <1>1, <3>2 DEF OpenEditor, CloseEditor, DismissAllRinging, Unringing, alarmStore, worker
    <3>3. CASE \E i \in AlarmId : DismissAlarm(i) \/ PopRinging(i) \/ DropAttention(i)
      BY <1>1, <3>3 DEF DismissAlarm, PopRinging, DropAttention, Unringing, alarmStore, worker
    <3>4. CASE MinutePasses \/ UNCHANGED alarmVars
      BY <1>1, <3>4 DEF MinutePasses, alarmVars, alarmStore, worker
    <3>5. QED
      BY <1>3, <3>1, <3>2, <3>3, <3>4 DEF AlarmNext
  <2>2. RangTyped'
    BY <1>1, <2>1 DEF AlarmInv, RangTyped
  <2>3. \A t \in Int : Dropped(t) =>
           t < minute' - 2 * Day /\ (looked' # Off => t < looked' - 2 * Day)
    <3> SUFFICES ASSUME NEW t \in Int, Dropped(t)
                 PROVE  t < minute' - 2 * Day /\ (looked' # Off => t < looked' - 2 * Day)
      OBVIOUS
    <3>1. t < minute - 2 * Day /\ (looked # Off => t < looked - 2 * Day)
      BY DEF Dropped
    <3>2. t < minute' - 2 * Day
      <4>1. minute \in Nat /\ minute' \in Nat /\ minute <= minute' /\ 2 * Day \in Nat
        BY <1>1, <2>1
      <4>2. \A m, n, d \in Nat : m <= n /\ t < m - d => t < n - d
        OBVIOUS
      <4>3. QED
        BY <3>1, <4>1, <4>2
    <3>3. CASE looked' = looked
      BY <3>1, <3>2, <3>3
    <3>4. CASE minute' = minute /\ looked' = minute
      BY <3>1, <3>2, <3>4
    <3>5. QED
      BY <2>1, <3>3, <3>4
  <2>4. FiredKept'
    BY <1>1, <2>1, <2>3 DEF AlarmInv, FiredKept, Dropped
  <2>5. SpentStays'
    BY <2>1 DEF AlarmInv, SpentStays
  <2>6. QED
    BY <2>2, <2>4, <2>5
<1>4. QED
  BY <1>2, <1>3

\* The invariant is inductive.
LEMMA AlarmInvStep == ASSUME AlarmInv, [AlarmNext]_alarmVars PROVE AlarmInv'
<1>1. AlarmTypeOK'
  <2>1. StoreOK /\ Rest
    BY DEF AlarmInv, AlarmTypeOK, Rest
  <2>2. StoreOK' /\ Rest'
    BY <2>1, StoreStep, RestStep DEF AlarmInv
  <2>3. QED
    BY <2>2 DEF AlarmTypeOK, Rest
<1>2. (RangTyped /\ FiredKept /\ SpentStays)'
  BY CheckKeeps, ChangesAreLater, RestKeeps
<1>3. QED
  BY <1>1, <1>2 DEF AlarmInv

\* It holds when the kiosk starts without alarms.
LEMMA AlarmInvInit == AlarmInit => AlarmInv
<1> USE AlarmNumbers
<1> HAVE AlarmInit
<1>1. DOMAIN alarms = {} /\ alarmNext = 1 /\ rang = {}
  BY DEF AlarmInit
<1>2. StoreOK
  BY <1>1 DEF StoreOK
<1>3. editor \in [on : BOOLEAN, id : AlarmId \union {0}]
  BY EditorRecord DEF AlarmInit, NoEditor
<1>4. AlarmTypeOK
  BY <1>2, <1>3 DEF AlarmInit, AlarmTypeOK
<1>5. QED
  BY <1>1, <1>4 DEF AlarmInv, RangTyped, FiredKept, SpentStays

\* Only a check takes alarms, and never an occurrence fired or spent before.
LEMMA FiresOnceStep ==
  ASSUME AlarmInv, [AlarmNext]_alarmVars, NEW i \in due' \ due, due = {},
         NEW r \in rang, r.of = Occurrence(i, looked)
  PROVE  ~r.thisRun /\ alarms[i].days # {}
<1> USE AlarmNumbers
<1>1. CheckDue
  <2>1. CASE LookAtClock \/ RingAlarm \/ AnnounceAlarm \/ OpenEditor \/ CloseEditor \/ DismissAllRinging
    BY <2>1 DEF LookAtClock, RingAlarm, AnnounceAlarm, OpenEditor, CloseEditor, DismissAllRinging, Unringing, worker
  <2>2. CASE \E j \in AlarmId : DismissAlarm(j) \/ PopRinging(j) \/ DropAttention(j)
    BY <2>2 DEF DismissAlarm, PopRinging, DropAttention, Unringing, worker
  <2>3. CASE AlarmChange
    BY <2>3 DEF AlarmChange, SetAlarm, UpdateAlarm, ToggleAlarm, DeleteAlarm, DeleteAllAlarms, SnoozeAlarm, Unringing, worker
  <2>4. CASE MinutePasses \/ RestartClock \/ UNCHANGED alarmVars
    BY <2>4 DEF MinutePasses, RestartClock, alarmVars, worker
  <2>5. QED
    BY <2>1, <2>2, <2>3, <2>4 DEF AlarmNext
<1>2. /\ minute \in Nat /\ looked \in Nat /\ looked # Off /\ StoreOK /\ i \in DueAt(looked)
  BY <1>1 DEF CheckDue, AlarmInv, AlarmTypeOK
<1>3. /\ i \in DOMAIN alarms /\ r.of \notin fired /\ r.of[1] = i /\ r.of[2] \in Int
      /\ r.of[2] > looked - Grace
      /\ alarms[i].days = {} => \/ alarms[i].snoozed # Off /\ r.of[2] = alarms[i].snoozed
                                \/ alarms[i].enabled /\ r.of[2] = alarms[i].date * Day + alarms[i].at
  BY <1>2, DueIsLate
<1>4. ~r.thisRun
  <2>1. r.thisRun => r.of[2] < looked - 2 * Day
    BY <1>2, <1>3 DEF AlarmInv, FiredKept, Dropped
  <2>2. QED
    BY <1>2, <1>3, <2>1
<1>5. alarms[i].days # {}
  <2> SUFFICES ASSUME alarms[i].days = {} PROVE FALSE
    OBVIOUS
  <2>1. r.spent
    BY <1>4 DEF AlarmInv, RangTyped
  <2>2. Beyond(alarms[i], r.of[2])
    BY <1>3, <2>1 DEF AlarmInv, SpentStays
  <2>3. QED
    BY <1>3, <2>2 DEF Beyond
<1>6. QED
  BY <1>4, <1>5

-----------------------------------------------------------------------------
(* What is said and what is meant *)

\* A time that is said is understood as the same time.
LEMMA TimesAreMeant ==
  ASSUME NEW hour \in 0..23, NEW min \in {0, 1, 30, 59}, NEW use24Hour \in BOOLEAN
  PROVE  ParseTimeText(FormatAlarmTime(hour, min, use24Hour)) = {<<hour, min>>}
<1>1. CASE use24Hour
  BY <1>1 DEF ParseTimeText, FormatAlarmTime, TimeText, Off
<1>2. CASE ~use24Hour
  <2> DEFINE h == IF hour % 12 = 0 THEN 12 ELSE hour % 12
             m == IF hour < 12 THEN "am" ELSE "pm"
  <2>1. FormatAlarmTime(hour, min, use24Hour) = [hour |-> h, minute |-> min, meridiem |-> m]
    BY <1>2 DEF FormatAlarmTime, TimeText
  <2>2. h \in 1..12 /\ (h % 12) + (IF m = "pm" THEN 12 ELSE 0) = hour /\ m # "none"
    OBVIOUS
  <2> HIDE DEF h, m
  <2>3. min <= 59 /\ min # -1
    OBVIOUS
  <2>4. ParseTimeText([hour |-> h, minute |-> min, meridiem |-> m])
           = {x \in {<<(h % 12) + (IF m = "pm" THEN 12 ELSE 0), min>>} : min <= 59 /\ h \in 1..12}
    BY <2>2, <2>3 DEF ParseTimeText, Off
  <2>5. QED
    BY <2>1, <2>2, <2>3, <2>4
<1>3. QED
  BY <1>1, <1>2

\* A time given as numbers means what its text does.
LEMMA NumbersAreTexts ==
  ASSUME NEW hour \in 0..25, NEW min \in {Off, 0, 59, 60}, NEW meridiem \in {"none", "am", "pm"}
  PROVE  LET text == TimeText(hour, min, meridiem)
         IN /\ ParseAlarmTime(TRUE, text) = ParseAlarmTime(FALSE, text)
            /\ ParseAlarmTime(TRUE, text) \subseteq (0..23) \X (0..59)
<1> DEFINE text == TimeText(hour, min, meridiem)
           m == IF min = Off THEN 0 ELSE min
<1>1. text.hour = hour /\ text.minute = min /\ text.meridiem = meridiem
  BY DEF TimeText
<1>2. m \in Int /\ 0 <= m /\ (m <= 59 <=> m \in 0..59)
  <2>1. min = Off \/ min = 0 \/ min = 59 \/ min = 60
    OBVIOUS
  <2>2. m = 0 \/ m = 59 \/ m = 60
    BY <2>1
  <2> HIDE DEF m
  <2>3. QED
    BY <2>2
<1> HIDE DEF text, m
<1>3. CASE meridiem = "none"
  <2>1. ParseAlarmTime(TRUE, text) = {x \in {<<hour, m>>} : m <= 59 /\ hour \in 0..23}
    BY <1>1, <1>3 DEF ParseAlarmTime, ParseTimeText, m
  <2>2. ParseAlarmTime(FALSE, text) = {x \in {<<hour, m>>} : x \in (0..23) \X (0..59)}
    BY <1>1, <1>3 DEF ParseAlarmTime, m
  <2>3. <<hour, m>> \in (0..23) \X (0..59) <=> (m <= 59 /\ hour \in 0..23)
    BY <1>2
  <2>4. QED
    BY <2>1, <2>2, <2>3, ZenonT(60) DEF text
<1>4. CASE meridiem # "none"
  <2> DEFINE h == (hour % 12) + (IF meridiem = "pm" THEN 12 ELSE 0)
  <2>1. h \in 0..23
    <3>1. \A n \in Nat : n % 12 \in 0..11
      OBVIOUS
    <3>2. hour \in Nat
      OBVIOUS
    <3>3. \A n \in 0..11, k \in {0, 12} : n + k \in 0..23
      OBVIOUS
    <3>4. (IF meridiem = "pm" THEN 12 ELSE 0) \in {0, 12} /\ hour % 12 \in 0..11
      BY <3>1, <3>2
    <3>5. QED
      BY <3>3, <3>4
  <2>2. ParseTimeText(text) = {x \in {<<h, m>>} : m <= 59 /\ hour \in 1..12}
    BY <1>1, <1>4 DEF ParseTimeText, m
  <2> HIDE DEF h
  <2>3. ParseAlarmTime(TRUE, text) = ParseTimeText(text) /\ ParseAlarmTime(FALSE, text) = ParseTimeText(text)
    BY <1>1, <1>4 DEF ParseAlarmTime
  <2>4. m <= 59 => <<h, m>> \in (0..23) \X (0..59)
    BY <1>2, <2>1
  <2>5. QED
    BY <2>2, <2>3, <2>4, ZenonT(60) DEF text
<1>5. QED
  BY <1>3, <1>4

\* A word for several days means them.
LEMMA SayWord ==
  ASSUME NEW w, w # "none" PROVE ParseWeekdays([word |-> w, names |-> {}]) = {DaysOf[w]}
<1>1. ParseWeekdays([word |-> w, names |-> {}]) = {DaysOf[w] : x \in {y \in {0} : {} = {}}}
  BY DEF ParseWeekdays
<1>2. QED
  BY <1>1

\* Names of days mean those days.
LEMMA SayNames ==
  ASSUME NEW names, names \subseteq 0..6 PROVE ParseWeekdays([word |-> "none", names |-> names]) = {names}
<1>1. ParseWeekdays([word |-> "none", names |-> names]) = {x \in {names} : names \subseteq 0..6}
  BY DEF ParseWeekdays
<1>2. QED
  BY <1>1

\* A repetition that is said is understood as the same days.
LEMMA RepeatsAreMeant ==
  ASSUME NEW days \in SUBSET (0..6) PROVE ParseWeekdays(FormatRepeat(days)) = {days}
<1>1. CASE \E w \in DOMAIN DaysOf : DaysOf[w] = days
  <2> DEFINE w == CHOOSE w \in DOMAIN DaysOf : DaysOf[w] = days
  <2>1. w \in DOMAIN DaysOf /\ DaysOf[w] = days
    BY <1>1
  <2>2. w # "none"
    <3>1. DOMAIN DaysOf = {"day", "weekday", "weekend"}
      BY DEF DaysOf
    <3> HIDE DEF w
    <3>2. QED
      BY <2>1, <3>1
  <2>3. FormatRepeat(days) = [word |-> w, names |-> {}]
    BY <1>1 DEF FormatRepeat
  <2> HIDE DEF w
  <2>4. ParseWeekdays([word |-> w, names |-> {}]) = {DaysOf[w]}
    BY <2>2, SayWord
  <2>5. QED
    BY <2>1, <2>3, <2>4
<1>2. CASE ~ \E w \in DOMAIN DaysOf : DaysOf[w] = days
  <2>1. FormatRepeat(days) = [word |-> "none", names |-> days]
    BY <1>2 DEF FormatRepeat
  <2>2. QED
    BY <2>1, SayNames
<1>3. QED
  BY <1>1, <1>2

\* A sentence taken without the model never asks for refused days.
LEMMA SentencesAskForDays ==
  ASSUME NEW words \in SUBSET DOMAIN DaysOf, NEW names \in SUBSET {0, 4, 5}
  PROVE  \E days \in ParseWeekdays(DirectRepeat(words, names)) : (words = {} /\ names = {}) \/ days # {}
<1>1. DOMAIN DaysOf = {"day", "weekday", "weekend"}
  BY DEF DaysOf
<1>2. CASE words = {}
  <2>1. DirectRepeat(words, names) = [word |-> "none", names |-> names]
    BY <1>2 DEF DirectRepeat
  <2>2. ParseWeekdays([word |-> "none", names |-> names]) = {names}
    <3>1. names \subseteq 0..6
      OBVIOUS
    <3>2. QED
      BY <3>1, SayNames
  <2>3. QED
    BY <1>2, <2>1, <2>2
<1>3. CASE words # {}
  <2> DEFINE first == CASE "weekday" \in words -> "weekday" [] "day" \in words -> "day"
                        [] "weekend" \in words -> "weekend" [] OTHER -> "none"
  <2>1. first \in DOMAIN DaysOf /\ first # "none"
    BY <1>1, <1>3
  <2>2. DirectRepeat(words, names) = [word |-> first, names |-> {}]
    BY <2>1 DEF DirectRepeat
  <2> HIDE DEF first
  <2>3. DaysOf[first] # {}
    <3>1. DaysOf["day"] = 0..6 /\ DaysOf["weekday"] = 0..4 /\ DaysOf["weekend"] = {5, 6}
      BY DEF DaysOf
    <3>2. 0 \in 0..6 /\ 0 \in 0..4 /\ 5 \in {5, 6}
      OBVIOUS
    <3>3. QED
      BY <1>1, <2>1, <3>1, <3>2
  <2>4. ParseWeekdays([word |-> first, names |-> {}]) = {DaysOf[first]}
    BY <2>1, SayWord
  <2>5. QED
    BY <2>2, <2>3, <2>4
<1>4. QED
  BY <1>2, <1>3

\* An occurrence of an alarm is fired once, whatever is edited, switched, snoozed
\* or checked late and whenever the kiosk restarts; and what BMO says of a time
\* or a repetition is what it would understand.
THEOREM AlarmClockCorrect == AlarmSpec => AlarmsFireOnce
<1>1. SayingIsMeaning
  BY TimesAreMeant, NumbersAreTexts, RepeatsAreMeant, SentencesAskForDays DEF SayingIsMeaning
<1>2. AlarmInv => AlarmTypeOK /\ SayingIsMeaning
  BY <1>1 DEF AlarmInv
<1>3. AlarmInv /\ [AlarmNext]_alarmVars =>
         [\A i \in due' \ due : due = {} =>
            \A r \in rang : r.of = Occurrence(i, looked) => ~r.thisRun /\ alarms[i].days # {}]_alarmVars
  BY FiresOnceStep
<1>4. QED
  BY <1>2, <1>3, AlarmInvInit, AlarmInvStep, PTL DEF AlarmSpec, AlarmsFireOnce, FiresOnce

(***************************************************************************)
(* The weather page                                                        *)
(***************************************************************************)

FetchStages == {"fetching", "stored", "speaking", "telling"}
Voices == Tiles \cup {"alert", Silent}

Typed ==
    /\ spot \in Place /\ failures \subseteq Place /\ warned \subseteq Place
    /\ speaking \in Voices /\ subtitle \in 0..PlaceCount /\ hourNow \in Nat
    /\ tokens \in [Place -> Nat]
    /\ forecasts = [p \in Place |-> forecasts[p]]
    /\ \A f \in fetches : f \in [place : Place, token : Nat, stage : FetchStages, about : 0..PlaceCount]

NewFetch(p, t) == [place |-> p, token |-> t, stage |-> "fetching", about |-> 0]

\* Until it hands over, a worker has nothing to tell, so two of a token are one.
NothingYet == \A f \in fetches : f.stage = "fetching" => f.about = 0

UnderWay == ~weatherClosed => \A p \in inflight : NewFetch(p, tokens[p]) \in fetches

Awaited ==
    ~weatherClosed /\ forecasts[spot] = Missing /\ spot \notin failures => spot \in inflight

WeatherInv == Typed /\ NothingYet /\ UnderWay /\ Awaited /\ WarningIsNotMissed

-----------------------------------------------------------------------------
(* What the operators of the page return. *)

LEMMA NewFetchTyped ==
    ASSUME NEW p \in Place, NEW t \in Nat
    PROVE  /\ NewFetch(p, t) \in [place : Place, token : Nat, stage : FetchStages, about : 0..PlaceCount]
           /\ NewFetch(p, t).stage = "fetching" /\ NewFetch(p, t).about = 0
           /\ NewFetch(p, t).place = p /\ NewFetch(p, t).token = t
    BY WeatherConstants DEF NewFetch, FetchStages, WeatherConstants

LEMMA AnnounceTyped ==
    ASSUME Typed, NEW tile \in Tiles \cup {"alert"}, NEW p \in Place, Announce(tile, p)
    PROVE  speaking' \in Voices /\ subtitle' \in 0..PlaceCount
    BY WeatherConstants DEF Announce, Voices, Place, WeatherConstants

\* A page that is fetched is under way afterwards, whatever was under way stays
\* so, and a page that is shown again is loading only if it is under way.
LEMMA LoadKeeps ==
    ASSUME Typed, NothingYet, UnderWay, ~weatherClosed, ~weatherClosed',
           NEW p \in Place, NEW force \in BOOLEAN, LoadCurrent(p, force)
    PROVE  /\ tokens' \in [Place -> Nat]
           /\ \A f \in fetches' :
                 f \in [place : Place, token : Nat, stage : FetchStages, about : 0..PlaceCount]
           /\ NothingYet' /\ UnderWay'
           /\ fetches \subseteq fetches'
           /\ forecasts[p] = Missing \/ force => p \in inflight'
<1>1. CASE (forecasts[p] # Missing /\ ~force) \/ Busy(p)
  <2>1. UNCHANGED <<inflight, tokens, fetches>>
        BY <1>1 DEF LoadCurrent
  <2> QED BY <1>1, <2>1 DEF Typed, NothingYet, UnderWay, Busy
<1>2. CASE ~((forecasts[p] # Missing /\ ~force) \/ Busy(p))
  <2>1. /\ inflight' = inflight \cup {p} /\ p \notin inflight
        /\ tokens' = [tokens EXCEPT ![p] = @ + 1]
        /\ fetches' = fetches \cup {NewFetch(p, tokens[p] + 1)}
        BY <1>2 DEF LoadCurrent, NewFetch, Busy
  <2>2. tokens[p] + 1 \in Nat
        BY DEF Typed
  <2>3. tokens' \in [Place -> Nat] /\ tokens'[p] = tokens[p] + 1
        BY <2>1, <2>2 DEF Typed
  <2>4. NothingYet' /\ fetches \subseteq fetches'
        BY <2>1, <2>2, NewFetchTyped DEF NothingYet
  <2>5. \A f \in fetches' :
            f \in [place : Place, token : Nat, stage : FetchStages, about : 0..PlaceCount]
        BY <2>1, <2>2, NewFetchTyped DEF Typed
  <2>6. ASSUME NEW q \in inflight' PROVE NewFetch(q, tokens'[q]) \in fetches'
    <3>1. CASE q = p
          BY <2>1, <2>3, <3>1
    <3>2. CASE q # p
      <4>1. q \in inflight /\ tokens'[q] = tokens[q]
            BY <2>1, <2>6, <3>2 DEF Typed
      <4> QED BY <2>1, <4>1 DEF UnderWay
    <3> QED BY <3>1, <3>2
  <2> QED BY <2>1, <2>3, <2>4, <2>5, <2>6 DEF UnderWay
<1> QED BY <1>1, <1>2

LEMMA WeatherInitHolds == WeatherInit => WeatherInv
<1> SUFFICES ASSUME WeatherInit PROVE WeatherInv
    OBVIOUS
<1>1. fetches = {NewFetch(spot, 1)} /\ spot \in Place /\ tokens[spot] = 1
      BY DEF WeatherInit, NewFetch
<1>2. Typed
      BY <1>1, NewFetchTyped, WeatherConstants DEF WeatherInit, Typed, Voices, WeatherConstants
<1>3. NothingYet /\ UnderWay /\ Awaited
      BY <1>1, NewFetchTyped DEF WeatherInit, NothingYet, UnderWay, Awaited
<1>4. ~Warns(spot)
      BY <1>1 DEF WeatherInit, Warns, Missing
<1> QED BY <1>2, <1>3, <1>4 DEF WeatherInv, WarningIsNotMissed

-----------------------------------------------------------------------------
(* The steps. *)

\* An answer takes its place off what is under way, and leaves a page or an error.
LEMMA AnswerStep ==
    ASSUME WeatherInv, NEW f \in fetches, FetchAnswers(f)
    PROVE  WeatherInv'
<1> USE DEF WeatherInv
<1>1. /\ UNCHANGED <<spot, tokens, warned, speaking, voice, hourNow, weatherClosed>>
      /\ f.stage = "fetching" /\ f.place \in Place /\ f.about = 0
      BY DEF FetchAnswers, Typed, NothingYet
<1>2. CASE weatherClosed \/ tokens[f.place] # f.token
  <2>1. fetches' = fetches \ {f} /\ UNCHANGED <<forecasts, failures, inflight, subtitle>>
        BY <1>2 DEF FetchAnswers, Become, pageVars
  <2>2. Typed' /\ NothingYet' /\ Awaited'
        BY <1>1, <2>1 DEF Typed, NothingYet, Awaited
  <2>3. UnderWay'
    <3>1. ASSUME ~weatherClosed, NEW p \in inflight PROVE NewFetch(p, tokens[p]) # f
          BY <1>2, <3>1 DEF NewFetch
    <3> QED BY <1>1, <2>1, <3>1 DEF UnderWay
  <2>4. WarningIsNotMissed'
        BY <1>1, <2>1 DEF WarningIsNotMissed, Warns
  <2> QED BY <2>2, <2>3, <2>4
<1>3. CASE ~weatherClosed /\ tokens[f.place] = f.token
  <2>1. inflight' = inflight \ {f.place}
        BY <1>3 DEF FetchAnswers
  <2>2. PICK g : g = [f EXCEPT !.stage = "stored"]
        OBVIOUS
  <2>3. g.stage = "stored" /\ g.place = f.place /\ g.about = 0
        /\ g \in [place : Place, token : Nat, stage : FetchStages, about : 0..PlaceCount]
        BY <1>1, <2>2 DEF Typed, FetchStages
  <2>4. \/ /\ fetches' = (fetches \ {f}) \cup {g} /\ failures' = failures \ {f.place}
           /\ \E page \in Pages : forecasts' = [forecasts EXCEPT ![f.place] = page]
           /\ subtitle' = IF speaking = Silent THEN 0 ELSE subtitle
        \/ /\ fetches' = fetches \ {f} /\ failures' = failures \cup {f.place}
           /\ UNCHANGED <<forecasts, subtitle>>
        BY <1>3, <2>2, <2>3 DEF FetchAnswers, Become
  <2>5. NothingYet'
        BY <2>3, <2>4 DEF NothingYet
  <2>6. UnderWay'
    <3>1. ASSUME NEW p \in inflight' PROVE NewFetch(p, tokens[p]) \in fetches \ {f}
          BY <1>3, <2>1, <3>1 DEF UnderWay, NewFetch
    <3> QED BY <1>1, <2>4, <3>1 DEF UnderWay
  <2>7. CASE /\ fetches' = (fetches \ {f}) \cup {g} /\ failures' = failures \ {f.place}
             /\ \E page \in Pages : forecasts' = [forecasts EXCEPT ![f.place] = page]
             /\ subtitle' = IF speaking = Silent THEN 0 ELSE subtitle
    <3>1. PICK page \in Pages : forecasts' = [forecasts EXCEPT ![f.place] = page]
          BY <2>7
    <3>2. page # Missing
          BY DEF Pages, Missing, Typed
    <3>3. /\ forecasts' = [p \in Place |-> forecasts'[p]] /\ forecasts'[f.place] = page
          /\ \A p \in Place : p # f.place => forecasts'[p] = forecasts[p]
          BY <1>1, <3>1 DEF Typed
    <3>4. Typed'
          BY <1>1, <2>3, <2>7, <3>3, WeatherConstants DEF Typed, WeatherConstants
    <3>5. Awaited'
          BY <1>1, <1>3, <2>1, <2>7, <3>2, <3>3 DEF Awaited, Typed
    <3>6. WarningIsNotMissed'
      <4>1. CASE spot = f.place
            BY <1>1, <2>3, <2>7, <4>1 DEF WarningIsNotMissed
      <4>2. CASE spot # f.place
            BY <1>1, <2>7, <3>3, <4>2 DEF WarningIsNotMissed, Warns, Typed
      <4> QED BY <4>1, <4>2
    <3> QED BY <2>5, <2>6, <3>4, <3>5, <3>6
  <2>8. CASE /\ fetches' = fetches \ {f} /\ failures' = failures \cup {f.place}
             /\ UNCHANGED <<forecasts, subtitle>>
    <3>1. Typed'
          BY <1>1, <2>8 DEF Typed
    <3>2. Awaited'
          BY <1>1, <1>3, <2>1, <2>8 DEF Awaited
    <3>3. WarningIsNotMissed'
          BY <1>1, <2>8 DEF WarningIsNotMissed, Warns
    <3> QED BY <2>5, <2>6, <3>1, <3>2, <3>3
  <2> QED BY <2>4, <2>7, <2>8
<1> QED BY <1>2, <1>3

\* A worker that goes on keeps what is under way; what it no longer has to
\* announce was announced, by it or by a swipe.
LEMMA WorkerStep ==
    ASSUME WeatherInv, NEW f \in fetches, WorkerWarns(f) \/ WorkerReads(f) \/ WorkerTells(f)
    PROVE  WeatherInv'
<1> USE DEF WeatherInv
<1>1. /\ UNCHANGED <<spot, pageVars, inflight, tokens, hourNow, weatherClosed>>
      /\ f.stage # "fetching" /\ f.place \in Place /\ f.about \in 0..PlaceCount
      BY DEF WorkerWarns, WorkerReads, WorkerTells, Typed
<1>2. UNCHANGED <<forecasts, failures>>
      BY <1>1 DEF pageVars
<1>3. /\ warned' = warned \/ (warned' = warned \cup {spot})
      /\ speaking' \in Voices /\ subtitle' \in 0..PlaceCount
      BY DEF WorkerWarns, WorkerReads, WorkerTells, speechVars, Announce, Voices, Typed
<1>4. \/ fetches' = fetches \ {f}
      \/ \E g \in [place : Place, token : Nat, stage : FetchStages, about : 0..PlaceCount] :
            g.stage # "fetching" /\ fetches' = (fetches \ {f}) \cup {g}
  <2>1. CASE fetches' = fetches \ {f}
        BY <2>1
  <2>2. CASE Become(f, [f EXCEPT !.stage = "done"])
    <3>1. [f EXCEPT !.stage = "done"].stage = "done"
          BY DEF Typed
    <3> QED BY <2>2, <3>1 DEF Become
  <2>3. CASE Become(f, [f EXCEPT !.stage = "speaking"])
    <3>1. /\ [f EXCEPT !.stage = "speaking"] \in
                [place : Place, token : Nat, stage : FetchStages, about : 0..PlaceCount]
          /\ [f EXCEPT !.stage = "speaking"].stage = "speaking"
          BY DEF Typed, FetchStages
    <3> QED BY <2>3, <3>1 DEF Become
  <2>4. CASE Become(f, [f EXCEPT !.stage = "telling", !.about = spot])
    <3>1. spot \in 0..PlaceCount
          BY WeatherConstants DEF Typed, Place, WeatherConstants
    <3>2. /\ [f EXCEPT !.stage = "telling", !.about = spot] \in
                [place : Place, token : Nat, stage : FetchStages, about : 0..PlaceCount]
          /\ [f EXCEPT !.stage = "telling", !.about = spot].stage = "telling"
          BY <3>1 DEF Typed, FetchStages
    <3> QED BY <2>4, <3>2 DEF Become
  <2> QED BY <2>1, <2>2, <2>3, <2>4 DEF WorkerWarns, WorkerReads, WorkerTells
<1>5. Typed'
      BY <1>1, <1>2, <1>3, <1>4 DEF Typed
<1>6. NothingYet' /\ Awaited'
      BY <1>1, <1>2, <1>4 DEF NothingYet, Awaited
<1>7. UnderWay'
  <2>1. ASSUME ~weatherClosed, NEW p \in inflight PROVE NewFetch(p, tokens[p]) \in fetches \ {f}
        BY <1>1, <2>1 DEF UnderWay, NewFetch
  <2> QED BY <1>1, <1>4, <2>1 DEF UnderWay
<1>8. WarningIsNotMissed'
  <2>1. CASE f.stage = "stored" /\ f.place = spot
    <3>1. Warns(spot) => spot \in warned'
          BY <2>1 DEF WorkerWarns, WorkerReads, WorkerTells
    <3> QED BY <1>1, <1>2, <1>3, <3>1 DEF WarningIsNotMissed, Warns
  <2>2. CASE ~(f.stage = "stored" /\ f.place = spot)
        BY <1>1, <1>2, <1>3, <1>4, <2>2 DEF WarningIsNotMissed, Warns
  <2> QED BY <2>1, <2>2
<1> QED BY <1>5, <1>6, <1>7, <1>8

\* Speech, the clock and closing leave what is fetched alone.
LEMMA QuietStep ==
    ASSUME WeatherInv,
           (\E tile \in Tiles : Speak(tile)) \/ SpeechEnds \/ HourPasses \/ CloseWeather
               \/ UNCHANGED weatherVars
    PROVE  WeatherInv'
<1> USE DEF WeatherInv
<1>1. /\ UNCHANGED <<spot, forecasts, failures, inflight, warned, fetches>>
      /\ weatherClosed => weatherClosed'
      /\ hourNow' \in Nat
      BY DEF Speak, SpeechEnds, HourPasses, CloseWeather, weatherVars, pageVars, speechVars, Typed
<1>2. speaking' \in Voices /\ subtitle' \in 0..PlaceCount
  <2>1. CASE \E tile \in Tiles : Speak(tile)
        BY <2>1, AnnounceTyped DEF Speak, Typed
  <2>2. CASE ~\E tile \in Tiles : Speak(tile)
        BY <2>2 DEF SpeechEnds, HourPasses, CloseWeather, weatherVars, speechVars, Typed, Voices
  <2> QED BY <2>1, <2>2
<1>3. tokens' = tokens \/ (CloseWeather /\ weatherClosed')
      BY DEF Speak, SpeechEnds, HourPasses, CloseWeather, weatherVars
<1>4. tokens' \in [Place -> Nat]
      BY <1>3 DEF CloseWeather, Typed
<1>5. Typed'
      BY <1>1, <1>2, <1>4 DEF Typed
<1>6. NothingYet' /\ UnderWay' /\ Awaited'
      BY <1>1, <1>3 DEF NothingYet, UnderWay, Awaited
<1>7. WarningIsNotMissed'
      BY <1>1 DEF WarningIsNotMissed, Warns
<1> QED BY <1>5, <1>6, <1>7

\* Retry and the timer fetch the page shown; an error is forgotten only then.
LEMMA RefetchStep ==
    ASSUME WeatherInv, Retry \/ Tick
    PROVE  WeatherInv'
<1> USE DEF WeatherInv
<1>1. /\ ~weatherClosed /\ LoadCurrent(spot, TRUE) /\ spot \in Place
      /\ UNCHANGED <<spot, forecasts, loadedAt, speechVars, hourNow, weatherClosed>>
      /\ failures' \subseteq failures
      BY DEF Retry, Tick, Forgiven, Typed
<1>2. /\ tokens' \in [Place -> Nat] /\ NothingYet' /\ UnderWay'
      /\ fetches \subseteq fetches' /\ spot \in inflight'
      /\ \A f \in fetches' :
            f \in [place : Place, token : Nat, stage : FetchStages, about : 0..PlaceCount]
      BY <1>1, LoadKeeps
<1>3. Typed'
      BY <1>1, <1>2 DEF Typed, speechVars
<1>4. Awaited' /\ WarningIsNotMissed'
      BY <1>1, <1>2 DEF Awaited, WarningIsNotMissed, Warns, speechVars
<1> QED BY <1>2, <1>3, <1>4

\* A swipe comes to a place that is loaded, has failed, or is under way from
\* then on, and announces its warning itself.
LEMMA SwipeStep ==
    ASSUME WeatherInv, NEW step \in {-1, 1}, LocationChanged(step)
    PROVE  WeatherInv'
<1> USE DEF WeatherInv
<1>1. PICK p : p = ((spot - 1 + step) % PlaceCount) + 1
      OBVIOUS
<1>2. p \in Place
  <2>1. spot - 1 + step \in Int /\ PlaceCount \in Nat \ {0}
        BY WeatherConstants DEF Typed, Place, WeatherConstants
  <2>2. (spot - 1 + step) % PlaceCount \in 0..(PlaceCount - 1)
        BY <2>1
  <2> QED BY <1>1, <2>1, <2>2 DEF Place
<1>3. /\ ~weatherClosed /\ spot' = p /\ LoadCurrent(p, FALSE) /\ Forgiven(p, FALSE)
      /\ UNCHANGED <<forecasts, hourNow, weatherClosed>>
      /\ Warns(p) => warned' = warned \cup {p}
      /\ ~Warns(p) => warned' = warned
      /\ speaking' \in {"alert", Silent} /\ subtitle' \in {0, p}
      BY <1>1 DEF LocationChanged
<1>4. /\ tokens' \in [Place -> Nat] /\ NothingYet' /\ UnderWay'
      /\ forecasts[p] = Missing => p \in inflight'
      /\ \A f \in fetches' :
            f \in [place : Place, token : Nat, stage : FetchStages, about : 0..PlaceCount]
      BY <1>2, <1>3, LoadKeeps
<1>5. p \in 0..PlaceCount
      BY <1>2, WeatherConstants DEF Place, WeatherConstants
<1>6. Typed'
  <2>1. subtitle' \in 0..PlaceCount /\ speaking' \in Voices
        BY <1>3, <1>5, WeatherConstants DEF Voices, WeatherConstants
  <2>2. failures' \subseteq Place /\ warned' \subseteq Place
        BY <1>2, <1>3 DEF Forgiven, Typed
  <2> QED BY <1>2, <1>3, <1>4, <2>1, <2>2 DEF Typed
<1>7. Awaited' /\ WarningIsNotMissed'
      BY <1>3, <1>4 DEF Awaited, WarningIsNotMissed, Warns
<1> QED BY <1>4, <1>6, <1>7

LEMMA WeatherStep == WeatherInv /\ [WeatherNext]_weatherVars => WeatherInv'
    BY AnswerStep, WorkerStep, QuietStep, RefetchStep, SwipeStep DEF WeatherNext

-----------------------------------------------------------------------------
(* The picture. *)

\* Whatever was measured, and whatever part of the day it is: nothing that needs
\* care is played down, and no night gets the sun.
LEMMA PictureIsHonest ==
    ASSUME NEW r \in Readings, sky = WeatherViewState(r)
    PROVE  SkyIsHonest
<1> DEFINE period == DayPeriod(r)
           visual == VisualCondition(r)
<1>1. /\ sky.reading = r /\ sky.period = period /\ sky.visual = visual
      /\ sky.title = ConditionTitle(period, visual)
      /\ sky.modifier = ConditionModifier(r, period, visual)
      /\ sky.flavor = ConditionFlavor(period, visual)
      /\ sky.rain = NarrateRain(r) /\ sky.spoken = NarrateCondition(r)
      BY DEF WeatherViewState
<1>2. r.condition \in Calm \cup Unsafe
      BY DEF Readings
<1> HIDE DEF period
<1>3. /\ r.alert = "warning" => visual = "severe"
      /\ r.alert # "warning" /\ r.condition \in Unsafe => visual = r.condition
      /\ visual \in {"severe", "wind", "hot", "cold"} \cup Unsafe \/ visual = r.condition
      /\ visual \in Unsafe => visual = r.condition
      BY DEF VisualCondition, Unsafe
<1> HIDE DEF visual
<1>4. visual = "severe" => ConditionModifier(r, period, visual) = "official warning"
      BY DEF ConditionModifier
<1>5. visual \in {"storm", "hail", "freezing-rain", "sleet", "snow", "heavy-snow"} =>
          NarrateRain(r) \notin {"dry", "boots"}
  <2>1. visual \in {"storm", "hail", "freezing-rain", "sleet", "snow", "heavy-snow"} =>
            r.condition = visual
        BY <1>3 DEF Unsafe
  <2> QED BY <2>1 DEF NarrateRain
<1>6. period = "night" =>
          /\ {ConditionTitle(period, visual), ConditionFlavor(period, visual),
              ConditionModifier(r, period, visual)} \cap {"sunny", "mostly-clear"} = {}
          /\ {ConditionFlavor(period, visual), ConditionModifier(r, period, visual)}
                \cap {"partly", "hot"} = {}
      BY DEF ConditionTitle, ConditionFlavor, ConditionModifier
<1>7. r.isDay = "night" => NarrateCondition(r) \notin {"sunny", "mostly-clear"}
      BY DEF NarrateCondition
<1> QED BY <1>1, <1>3, <1>4, <1>5, <1>6, <1>7 DEF SkyIsHonest

-----------------------------------------------------------------------------
\* Of the answers a place waits for, the one of its token counts.
LEMMA InvIsHonest == WeatherInv => WeatherTypeOK /\ LoadingHasFetch /\ WarningIsNotMissed
<1> SUFFICES ASSUME WeatherInv PROVE WeatherTypeOK /\ LoadingHasFetch
    BY DEF WeatherInv
<1> USE DEF WeatherInv
<1>1. WeatherTypeOK
      BY DEF Typed, WeatherTypeOK, Voices, FetchStages
<1> DEFINE Alive(p) == {f \in fetches : f.place = p /\ f.stage = "fetching" /\ f.token = tokens[p]}
<1>2. ASSUME NEW p \in Place PROVE Cardinality(Alive(p)) <= 1
  <2>1. ASSUME NEW f \in Alive(p), NEW g \in Alive(p) PROVE f = g
        BY DEF Typed, NothingYet
  <2>2. CASE Alive(p) = {}
        BY <2>2, FS_EmptySet
  <2>3. CASE Alive(p) # {}
    <3>1. PICK f \in Alive(p) : TRUE
          BY <2>3
    <3>2. Alive(p) = {f}
          BY <2>1, <3>1
    <3>3. Cardinality({f}) = 1
          BY FS_Singleton
    <3> QED BY <3>2, <3>3
  <2> QED BY <2>2, <2>3
<1>3. ASSUME ~weatherClosed, Status(spot) = "loading" PROVE Alive(spot) # {}
  <2>1. spot \in inflight /\ spot \in Place
        BY <1>3 DEF Status, Awaited, Typed
  <2>2. NewFetch(spot, tokens[spot]) \in fetches
        BY <1>3, <2>1 DEF UnderWay
  <2> QED BY <2>1, <2>2, NewFetchTyped DEF Typed
<1> QED BY <1>1, <1>2, <1>3 DEF LoadingHasFetch

\* The weather page in every state, for any number of places and whatever swipes,
\* retries, answers and failures come in whatever order: a page that says it is
\* loading gets its answer, no warning is left unannounced, and the picture is
\* of what was measured (QtWeatherView, weather_view_state).
THEOREM WeatherHonest == WeatherSpec => []WeatherIsHonest
<1>1. WeatherInit /\ SkyInit => WeatherInv /\ (\E r \in Readings : sky = WeatherViewState(r))
      BY WeatherInitHolds DEF SkyInit
<1>2. /\ WeatherInv /\ \E r \in Readings : sky = WeatherViewState(r)
      /\ [WeatherNext /\ UNCHANGED sky]_<<weatherVars, sky>>
      => (WeatherInv /\ \E r \in Readings : sky = WeatherViewState(r))'
      BY WeatherStep
<1>3. WeatherInv /\ (\E r \in Readings : sky = WeatherViewState(r)) => WeatherIsHonest
      BY InvIsHonest, PictureIsHonest DEF WeatherIsHonest
<1> QED BY <1>1, <1>2, <1>3, PTL DEF WeatherSpec

(***************************************************************************)
(* The rover's remote                                                      *)
(***************************************************************************)

RoverTyped ==
    /\ driver \in [pc : {"idle", "loop", "connect", "controller", "read", "send", "sent", "wait", "finish", "ended"},
                   drive : BOOLEAN, color : Color \union {NoColor}]
    /\ link \in [up : BOOLEAN, motors : {"none", "stop", "drive"}, strip : Color \union {NoColor}]
    /\ gamepad \in [open : BOOLEAN, there : BOOLEAN, pushed : BOOLEAN]
    /\ lights \in [pending : Color \union {NoColor}, selected : Color \union {NoColor}]
    /\ photo \in [taking : BOOLEAN, saving : BOOLEAN]
    /\ remote \in [view : {"closed", "open", "joining"}, stop : BOOLEAN]

LinkDown == ~link.up => link.motors # "drive"
PendingIsSelected == lights.pending \in {NoColor, lights.selected}
PadPushed == gamepad.pushed => gamepad.there
SavingTakes == photo.saving => photo.taking
\* Without a gamepad nothing is driven, from the reading to the command.
Undriven ==
    ~gamepad.open =>
        /\ driver.pc = "send" => ~driver.drive
        /\ driver.pc \in {"sent", "wait"} /\ link.up => link.motors = "stop"
EndedIsStill == driver.pc = "ended" => link.motors # "drive"
\* The colour being sent is the one that waits, unless another was chosen meanwhile.
ColorOnItsWay ==
    /\ driver.pc = "send" /\ lights.pending = NoColor => driver.color = NoColor
    /\ driver.pc = "sent" /\ driver.color # NoColor => link.strip = driver.color
SentIsUp == driver.pc = "sent" => link.up

RoverInv ==
    /\ RoverTyped /\ LinkDown /\ PendingIsSelected /\ PadPushed /\ SavingTakes
    /\ Undriven /\ EndedIsStill /\ ColorOnItsWay /\ SentIsUp /\ StripHasChoice

\* At the start nothing is connected, driven or sent.
LEMMA RoverBegins == RoverInit => RoverInv
  BY DEF RoverInit, NewDriver, NoLink, NoLights, NoPhoto, RoverInv, RoverTyped, LinkDown, PendingIsSelected,
         PadPushed, SavingTakes, Undriven, EndedIsStill, ColorOnItsWay, SentIsUp, StripHasChoice

\* Every step keeps the invariant.
LEMMA RoverStep == RoverInv /\ [RoverNext]_roverVars => RoverInv'
<1> SUFFICES ASSUME RoverInv, [RoverNext]_roverVars PROVE RoverInv'
  OBVIOUS
<1>1. /\ driver \in [pc : {"idle", "loop", "connect", "controller", "read", "send", "sent", "wait", "finish", "ended"},
                     drive : BOOLEAN, color : Color \union {NoColor}]
      /\ link \in [up : BOOLEAN, motors : {"none", "stop", "drive"}, strip : Color \union {NoColor}]
      /\ gamepad \in [open : BOOLEAN, there : BOOLEAN, pushed : BOOLEAN]
      /\ lights \in [pending : Color \union {NoColor}, selected : Color \union {NoColor}]
      /\ photo \in [taking : BOOLEAN, saving : BOOLEAN]
      /\ remote \in [view : {"closed", "open", "joining"}, stop : BOOLEAN]
  BY DEF RoverInv, RoverTyped
<1>2. ASSUME NEW pc \in {"loop", "connect", "controller", "read", "send", "sent", "wait", "finish", "ended"}, Goto(pc)
      PROVE  /\ driver' \in [pc : {"idle", "loop", "connect", "controller", "read", "send", "sent", "wait", "finish", "ended"},
                             drive : BOOLEAN, color : Color \union {NoColor}]
             /\ driver'.pc = pc /\ driver'.drive = driver.drive /\ driver'.color = driver.color
  BY <1>1, <1>2 DEF Goto
<1> USE DEF RoverInv, RoverTyped, LinkDown, PendingIsSelected, PadPushed, SavingTakes, Undriven, EndedIsStill,
            ColorOnItsWay, SentIsUp, StripHasChoice
<1>3. CASE CheckStop
  <2>1. PICK pc \in {"finish", "connect", "controller"} : Goto(pc)
    BY <1>3 DEF CheckStop
  <2>2. link' = link /\ gamepad' = gamepad /\ lights' = lights /\ photo' = photo /\ remote' = remote
    BY <1>3 DEF CheckStop
  <2>3. QED
    BY <1>1, <1>2, <2>1, <2>2
<1>4. CASE ConnectRover
  <2>1. /\ Goto("controller") /\ gamepad' = gamepad /\ photo' = photo /\ remote' = remote
    BY <1>4 DEF ConnectRover
  <2>2. CASE link' = link /\ lights' = lights
    BY <1>1, <1>2, <2>1, <2>2
  <2>3. CASE link' = Connected /\ lights' = [lights EXCEPT !.pending = lights.selected]
    <3>1. /\ link' \in [up : BOOLEAN, motors : {"none", "stop", "drive"}, strip : Color \union {NoColor}]
          /\ link'.motors = "none" /\ link'.strip = NoColor
      BY <2>3 DEF Connected, NoLink
    <3>2. /\ lights' \in [pending : Color \union {NoColor}, selected : Color \union {NoColor}]
          /\ lights'.pending = lights.selected /\ lights'.selected = lights.selected
      BY <1>1, <2>3
    <3>3. QED
      BY <1>1, <1>2, <2>1, <3>1, <3>2
  <2>4. QED
    BY <1>4, <2>2, <2>3 DEF ConnectRover
<1>5. CASE OpenController
  <2>1. /\ Goto("read") /\ link' = link /\ lights' = lights /\ photo' = photo /\ remote' = remote
        /\ gamepad' \in [open : BOOLEAN, there : BOOLEAN, pushed : BOOLEAN]
        /\ gamepad'.pushed = gamepad.pushed /\ gamepad'.there = gamepad.there
    BY <1>1, <1>5 DEF OpenController, Opened
  <2>2. QED
    BY <1>1, <1>2, <2>1
<1>6. CASE ReadController
  <2>1. /\ driver' \in [pc : {"idle", "loop", "connect", "controller", "read", "send", "sent", "wait", "finish", "ended"},
                        drive : BOOLEAN, color : Color \union {NoColor}]
        /\ driver'.pc = "send" /\ driver'.color = lights.pending
        /\ lights' = lights /\ photo' = photo /\ remote' = remote
    BY <1>1, <1>6 DEF ReadController
  <2>2. gamepad' = gamepad \/ gamepad' = Released(gamepad)
    BY <1>6 DEF ReadController
  <2>3. /\ gamepad' \in [open : BOOLEAN, there : BOOLEAN, pushed : BOOLEAN]
        /\ gamepad'.pushed = gamepad.pushed /\ gamepad'.there = gamepad.there
    BY <1>1, <2>2 DEF Released
  <2>4. ~gamepad'.open => ~driver'.drive
    BY <1>1, <1>6 DEF ReadController
  <2>5. link' = link \/ link' \in Written(link, "stop")
    BY <1>6 DEF ReadController, SafeStop
  <2>6. /\ link' \in [up : BOOLEAN, motors : {"none", "stop", "drive"}, strip : Color \union {NoColor}]
        /\ link'.up = link.up /\ link'.strip = link.strip /\ (~link.up => link'.motors # "drive")
    BY <1>1, <2>5 DEF Written
  <2>7. QED
    BY <1>1, <2>1, <2>3, <2>4, <2>6
<1>7. CASE SendFrames
  <2>1. gamepad' = gamepad /\ lights' = lights /\ photo' = photo /\ remote' = remote /\ driver.pc = "send"
    BY <1>7 DEF SendFrames
  <2>2. CASE ~link.up /\ Goto("wait") /\ link' = link
    BY <1>1, <1>2, <2>1, <2>2
  <2>3. CASE /\ link.up /\ Goto(IF link'.up THEN "sent" ELSE "wait")
             /\ link' \in Polled([link EXCEPT !.motors = IF driver.drive THEN "drive" ELSE "stop",
                                         !.strip = IF driver.color = NoColor THEN @ ELSE driver.color])
    <3> DEFINE motors == IF driver.drive THEN "drive" ELSE "stop"
               strip == IF driver.color = NoColor THEN link.strip ELSE driver.color
    <3>1. link' \in Polled([link EXCEPT !.motors = motors, !.strip = strip])
      BY <1>1, <2>3
    <3>2. motors \in {"stop", "drive"} /\ strip \in Color \union {NoColor} /\ (~driver.drive => motors = "stop")
          /\ (driver.color = NoColor => strip = link.strip) /\ (driver.color # NoColor => strip = driver.color)
      BY <1>1
    <3> HIDE DEF motors, strip
    <3>3. /\ link' \in [up : BOOLEAN, motors : {"none", "stop", "drive"}, strip : Color \union {NoColor}]
          /\ link'.up => link'.motors = motors /\ link'.strip = strip
          /\ ~link'.up => link'.motors = "none"
      <4>1. CASE link' = NoLink
        BY <1>1, <3>2, <4>1 DEF NoLink
      <4>2. CASE link' = [link EXCEPT !.motors = motors, !.strip = strip]
        <5>1. link'.up = link.up /\ link'.motors = motors /\ link'.strip = strip
          BY <1>1, <4>2
        <5>2. link' \in [up : BOOLEAN, motors : {"none", "stop", "drive"}, strip : Color \union {NoColor}]
          BY <1>1, <3>2, <4>2
        <5>3. QED
          BY <2>3, <5>1, <5>2
      <4>3. QED
        BY <3>1, <4>1, <4>2 DEF Polled
    <3>4. CASE link'.up
      <4>1. Goto("sent")
        BY <2>3, <3>4
      <4>2. QED
        BY <1>1, <1>2, <2>1, <2>3, <3>2, <3>3, <3>4, <4>1
    <3>5. CASE ~link'.up
      <4>1. Goto("wait")
        BY <2>3, <3>5
      <4>2. QED
        BY <1>1, <1>2, <2>1, <3>3, <3>5, <4>1
    <3>6. QED
      BY <3>4, <3>5
  <2>4. QED
    BY <1>7, <2>2, <2>3 DEF SendFrames
<1>8. CASE ClearColor
  <2>1. /\ driver.pc = "sent" /\ Goto("wait") /\ link' = link /\ gamepad' = gamepad /\ photo' = photo /\ remote' = remote
        /\ lights' = [lights EXCEPT !.pending = IF lights.pending = driver.color THEN NoColor ELSE lights.pending]
    BY <1>1, <1>8 DEF ClearColor
  <2>2. /\ lights' \in [pending : Color \union {NoColor}, selected : Color \union {NoColor}]
        /\ lights'.selected = lights.selected
        /\ lights.pending = driver.color => lights'.pending = NoColor
        /\ lights.pending # driver.color => lights'.pending = lights.pending
    BY <1>1, <2>1
  <2>3. QED
    BY <1>1, <1>2, <2>1, <2>2
<1>9. CASE WaitTick
  <2>1. Goto("loop") /\ link' = link /\ gamepad' = gamepad /\ lights' = lights /\ photo' = photo /\ remote' = remote
    BY <1>9 DEF WaitTick
  <2>2. QED
    BY <1>1, <1>2, <2>1
<1>10. CASE FinishWorker
  <2>1. Goto("ended") /\ gamepad' = Released(gamepad) /\ lights' = lights /\ photo' = photo /\ remote' = remote
    BY <1>10 DEF FinishWorker
  <2>2. /\ gamepad' \in [open : BOOLEAN, there : BOOLEAN, pushed : BOOLEAN]
        /\ gamepad'.pushed = gamepad.pushed /\ gamepad'.there = gamepad.there
    BY <1>1, <2>1 DEF Released
  <2>3. /\ link' \in [up : BOOLEAN, motors : {"none", "stop", "drive"}, strip : Color \union {NoColor}]
        /\ ~link'.up /\ link'.motors # "drive"
    BY <1>1, <1>10, RoverConstants, ZenonT(60) DEF FinishWorker, Written, NoLink
  <2>4. QED
    BY <1>1, <1>2, <2>1, <2>2, <2>3
<1>11. CASE OpenRemote
  <2>1. /\ driver' = [NewDriver EXCEPT !.pc = "loop"] /\ link' = NoLink /\ lights' = NoLights /\ photo' = NoPhoto
        /\ gamepad' = gamepad /\ remote' = NewRemote
    BY <1>11 DEF OpenRemote
  <2>2. /\ driver' \in [pc : {"idle", "loop", "connect", "controller", "read", "send", "sent", "wait", "finish", "ended"},
                        drive : BOOLEAN, color : Color \union {NoColor}]
        /\ driver'.pc = "loop"
    BY <2>1 DEF NewDriver
  <2>3. QED
    BY <1>1, <2>1, <2>2 DEF NoLink, NoLights, NoPhoto, NewRemote
<1>12. CASE RemoteAction
  <2>1. driver' = driver /\ link' = link /\ gamepad' = gamepad /\ remote' = remote
    BY <1>12 DEF RemoteAction, TakePhoto, ChooseColor
  <2>2. CASE TakePhoto
    <3>1. photo' = [taking |-> TRUE, saving |-> TRUE] /\ lights' = lights
      BY <2>2 DEF TakePhoto
    <3>2. QED
      BY <1>1, <2>1, <3>1
  <2>3. ASSUME NEW c \in Color, ChooseColor(c) PROVE RoverInv'
    <3>1. lights' = [pending |-> c, selected |-> c] /\ photo' = photo /\ c # NoColor
      BY <2>3, RoverConstants DEF ChooseColor
    <3>2. QED
      BY <1>1, <2>1, <3>1
  <2>4. QED
    BY <1>12, <2>2, <2>3 DEF RemoteAction
<1>13. CASE AskToStop \/ CloseRemote
  <2>1. /\ driver' = driver /\ link' = link /\ gamepad' = gamepad /\ lights' = lights /\ photo' = photo
        /\ remote' \in [view : {"closed", "open", "joining"}, stop : BOOLEAN]
    <3>1. CASE AskToStop
      BY <3>1 DEF AskToStop
    <3>2. CASE CloseRemote
      BY <1>1, <3>2 DEF CloseRemote
    <3>3. QED
      BY <1>13, <3>1, <3>2
  <2>2. QED
    BY <1>1, <2>1
<1>14. CASE SavePhoto
  <2>1. /\ driver' = driver /\ link' = link /\ gamepad' = gamepad /\ lights' = lights /\ remote' = remote
        /\ photo' \in [taking : BOOLEAN, saving : BOOLEAN] /\ ~photo'.saving
    BY <1>14 DEF SavePhoto
  <2>2. QED
    BY <1>1, <2>1
<1>15. CASE GamepadChanges
  <2>1. driver' = driver /\ link' = link /\ lights' = lights /\ photo' = photo /\ remote' = remote
    BY <1>15 DEF GamepadChanges
  <2>2. /\ gamepad' \in [open : BOOLEAN, there : BOOLEAN, pushed : BOOLEAN]
        /\ gamepad'.open = gamepad.open /\ (gamepad'.pushed => gamepad'.there)
    BY <1>1, <1>15 DEF GamepadChanges
  <2>3. QED
    BY <1>1, <2>1, <2>2
<1>16. CASE UNCHANGED roverVars
  BY <1>16 DEF roverVars
<1>17. QED
  BY <1>3, <1>4, <1>5, <1>6, <1>7, <1>8, <1>9, <1>10, <1>11, <1>12, <1>13, <1>14, <1>15, <1>16 DEF RoverNext

\* What the invariant says of the rover.
LEMMA RoverShown == RoverInv => RoverTypeOK /\ NobodyDrives /\ StripHasChoice
  BY DEF RoverInv, RoverTyped, LinkDown, PendingIsSelected, PadPushed, SavingTakes, Undriven, EndedIsStill,
         RoverTypeOK, NobodyDrives

\* The nearest whole number of a fraction, and how far it may be.
LEMMA NearestNumber ==
  ASSUME NEW n \in Int, NEW d \in Nat \ {0}
  PROVE  /\ Nearest(n, d) \in Int
         /\ \A limit \in Nat : -(limit * d) <= n /\ n <= limit * d => Nearest(n, d) \in -limit..limit
         /\ n = 0 => Nearest(n, d) = 0
<1> DEFINE q == n \div d
           r == n % d
<1>1. q \in Int /\ r \in 0..(d - 1) /\ n = d * q + r
  OBVIOUS
<1>2. Nearest(n, d) = IF 2 * r < d \/ (2 * r = d /\ q % 2 = 0) THEN q ELSE q + 1
  BY DEF Nearest
<1> HIDE DEF q, r
<1>3. Nearest(n, d) \in {q, q + 1} /\ (r = 0 => Nearest(n, d) = q)
  BY <1>1, <1>2
<1>4. ASSUME NEW limit \in Nat, -(limit * d) <= n, n <= limit * d
      PROVE  -limit <= q /\ q <= limit /\ (q = limit => r = 0)
  <2>1. q < -limit => d * (q + limit) <= -d
    BY <1>1
  <2>2. q > limit => d * (q - limit) >= d
    BY <1>1
  <2>3. d * (q + limit) = d * q + limit * d /\ d * (q - limit) = d * q - limit * d
    BY <1>1
  <2>4. -limit <= q
    BY <1>1, <1>4, <2>1, <2>3
  <2>5. q <= limit
    BY <1>1, <1>4, <2>2, <2>3
  <2>6. q = limit => d * q = limit * d
    BY <1>1
  <2>7. q = limit => r = 0
    BY <1>1, <1>4, <2>6
  <2>8. QED
    BY <2>4, <2>5, <2>7
<1>5. \A limit \in Nat : -(limit * d) <= n /\ n <= limit * d => Nearest(n, d) \in -limit..limit
  <2>1. SUFFICES ASSUME NEW limit \in Nat, -(limit * d) <= n, n <= limit * d
                 PROVE  Nearest(n, d) \in -limit..limit
    OBVIOUS
  <2>2. -limit <= q /\ q <= limit /\ (q = limit => r = 0)
    BY <1>4, <2>1
  <2>3. QED
    BY <1>1, <1>3, <2>2
<1>6. n = 0 => Nearest(n, d) = 0
  <2>1. -(0 * d) = 0 /\ 0 * d = 0 /\ 0 \in Nat
    OBVIOUS
  <2>2. n = 0 => Nearest(n, d) \in -0..0
    BY <1>5, <2>1
  <2>3. QED
    BY <2>2
<1>7. Nearest(n, d) \in Int
  BY <1>1, <1>3
<1>8. QED
  BY <1>5, <1>6, <1>7

\* What is loaded is valid, whatever the file holds.
LEMMA LoadedAreValid ==
  ASSUME NEW s PROVE ValidSettings(LoadedSettings(s))
<1>1. ValidSettings(RoverDefaults)
  BY DEF ValidSettings, RoverDefaults
<1>2. QED
  BY <1>1 DEF LoadedSettings

\* Whatever stick and settings, the motors' power is one the frame takes; a
\* stick that rests gives none.
LEMMA PowersFit ==
  ASSUME NEW s, ValidSettings(s), NEW y \in -100..100, NEW x \in -100..100
  PROVE  /\ \A side \in 1..2 : MixDrive(y, x, s)[side] \in -100..100
         /\ y \in -s.deadzone..s.deadzone /\ x \in -s.deadzone..s.deadzone => MixDrive(y, x, s) = <<0, 0>>
<1> DEFINE full == 100 * (100 - s.deadzone)
           throttle == -100 * BeyondDeadzone(y, s)
           steering == s.steering * BeyondDeadzone(x, s)
           power(side) == Nearest(Within(side, -full, full) * s.power, full)
<1>1. s.deadzone \in 0..50 /\ s.power \in 1..100 /\ s.steering \in 0..100
  BY DEF ValidSettings
<1>2. full \in Nat \ {0} /\ -full \in Int
  BY <1>1
<1>3. BeyondDeadzone(y, s) \in Int /\ BeyondDeadzone(x, s) \in Int
  BY <1>1 DEF BeyondDeadzone
<1>4. MixDrive(y, x, s) = <<power(throttle + steering), power(throttle - steering)>>
  BY DEF MixDrive
<1>5. throttle \in Int /\ steering \in Int /\ throttle + steering \in Int /\ throttle - steering \in Int
  BY <1>1, <1>3
<1> HIDE DEF full, throttle, steering
<1>6. ASSUME NEW side \in Int PROVE power(side) \in -100..100
  <2> DEFINE w == Within(side, -full, full)
  <2>1. w \in Int /\ -full <= w /\ w <= full
    BY <1>2 DEF Within
  <2> HIDE DEF w
  <2>2. w * s.power \in Int /\ 100 \in Nat
    BY <1>1, <2>1
  <2>3. w * s.power <= 100 * full
    <3>1. w * s.power <= full * s.power
      BY <1>1, <1>2, <2>1
    <3>2. full * s.power <= full * 100
      BY <1>1, <1>2
    <3>3. QED
      BY <1>1, <1>2, <2>2, <3>1, <3>2
  <2>4. -(100 * full) <= w * s.power
    <3>1. (-full) * s.power <= w * s.power
      BY <1>1, <1>2, <2>1
    <3>2. (-full) * 100 <= (-full) * s.power
      BY <1>1, <1>2
    <3>3. QED
      BY <1>1, <1>2, <2>2, <3>1, <3>2
  <2>5. QED
    BY <1>2, <2>2, <2>3, <2>4, NearestNumber DEF w
<1>7. \A side \in 1..2 : MixDrive(y, x, s)[side] \in -100..100
  BY <1>4, <1>5, <1>6
<1>8. ASSUME y \in -s.deadzone..s.deadzone, x \in -s.deadzone..s.deadzone
      PROVE  MixDrive(y, x, s) = <<0, 0>>
  <2>1. BeyondDeadzone(y, s) = 0 /\ BeyondDeadzone(x, s) = 0
    BY <1>1, <1>8 DEF BeyondDeadzone
  <2>2. throttle = 0 /\ steering = 0
    <3>1. \A k \in Int : k * 0 = 0
      OBVIOUS
    <3>2. s.steering * 0 = 0
      BY <1>1, <3>1
    <3>3. 100 * 0 = 0 /\ 100 * 0 \in Int
      BY <3>1
    <3>4. throttle = 0
      <4>1. \A k \in Int : -k \in Int /\ k + (-k) = 0 /\ 0 + k = k
        OBVIOUS
      <4>2. -(100 * 0) = 0
        BY <3>3, <4>1, Zenon
      <4>3. QED
        BY <2>1, <4>2, Zenon DEF throttle
    <3>5. steering = 0
      BY <2>1, <3>2, Zenon DEF steering
    <3>6. QED
      BY <3>4, <3>5
  <2>3. Within(0, -full, full) = 0 /\ 0 * s.power = 0
    BY <1>1, <1>2 DEF Within
  <2>4. power(0) = 0
    BY <1>2, <2>3, NearestNumber
  <2>5. QED
    BY <1>4, <2>2, <2>4
<1>9. QED
  BY <1>7, <1>8

\* The servo is never told an angle beyond its limits.
LEMMA AngleFits ==
  ASSUME NEW s, ValidSettings(s), NEW angle \in Int, NEW lt \in Int, NEW rt \in Int, NEW rest \in Int,
         NEW elapsed \in Int
  PROVE  NextServoAngle(angle, lt, rt, rest, elapsed, s) \in 0..140
<1>1. s.low \in 0..140 /\ s.high \in 0..140 /\ s.low < s.high /\ s.speed \in 1..180
  BY DEF ValidSettings
<1> DEFINE pressed(v, at) == IF v - at > s.threshold \/ at - v > s.threshold THEN 1 ELSE 0
           way == (pressed(lt, rest) - pressed(rt, rest)) * (IF s.upIncreases THEN 1 ELSE -1)
           n == 100 * angle + way * s.speed * elapsed
<1>2. way \in Int
  OBVIOUS
<1>3. n \in Int
  <2> HIDE DEF way
  <2>1. QED
    BY <1>1, <1>2
<1>4. NextServoAngle(angle, lt, rt, rest, elapsed, s) = Within(Nearest(n, 100), s.low, s.high)
  BY DEF NextServoAngle
<1> HIDE DEF n
<1>5. Nearest(n, 100) \in Int
  BY <1>3, NearestNumber
<1>6. QED
  BY <1>1, <1>4, <1>5 DEF Within

\* Whatever the settings' file holds, wherever sticks and triggers are, whatever
\* angle the servo had and however long the step took, motor_servo_frame takes
\* the command: the worker never ends with its ValueError.
THEOREM EveryCommandFits ==
  ASSUME NEW file, NEW y \in -100..100, NEW x \in -100..100, NEW angle \in Int, NEW lt \in Int, NEW rt \in Int,
         NEW rest \in Int, NEW elapsed \in Int
  PROVE  FrameTakes(MixDrive(y, x, LoadedSettings(file)),
                    NextServoAngle(angle, lt, rt, rest, elapsed, LoadedSettings(file)))
<1> DEFINE s == LoadedSettings(file)
<1>1. ValidSettings(s)
  BY LoadedAreValid
<1> HIDE DEF s
<1>2. \A side \in 1..2 : MixDrive(y, x, s)[side] \in -100..100
  BY <1>1, PowersFit
<1>3. NextServoAngle(angle, lt, rt, rest, elapsed, s) \in 0..140
  BY <1>1, AngleFits
<1>4. QED
  BY <1>2, <1>3 DEF FrameTakes, s

\* So every command fits its frame.
LEMMA CommandsFit == CommandsFitFrame
<1>1. ASSUME NEW file \in DriveSettings, NEW y \in Sticks, NEW x \in Sticks
      PROVE  FrameTakes(MixDrive(y, x, LoadedSettings(file)), 0)
  <2>1. y \in -100..100 /\ x \in -100..100
    BY DEF Sticks
  <2> DEFINE s == LoadedSettings(file)
  <2>2. ValidSettings(s)
    BY LoadedAreValid
  <2> HIDE DEF s
  <2>3. \A side \in 1..2 : MixDrive(y, x, s)[side] \in -100..100
    BY <2>1, <2>2, PowersFit
  <2>4. QED
    BY <2>3 DEF FrameTakes, s
<1>2. ASSUME NEW file \in ServoSettings, NEW lt \in {0, 100}, NEW rt \in {0, 100},
             NEW angle \in {LoadedSettings(file).low, LoadedSettings(file).start, LoadedSettings(file).high}
      PROVE  FrameTakes(<<0, 0>>, NextServoAngle(angle, lt, rt, 0, 25, LoadedSettings(file)))
  <2> DEFINE s == LoadedSettings(file)
  <2>1. ValidSettings(s)
    BY LoadedAreValid
  <2> HIDE DEF s
  <2>2. s.low \in Int /\ s.high \in Int /\ s.start \in Int
    BY <2>1 DEF ValidSettings
  <2>3. angle \in Int /\ lt \in Int /\ rt \in Int
    BY <2>2 DEF s
  <2>4. NextServoAngle(angle, lt, rt, 0, 25, s) \in 0..140
    BY <2>1, <2>3, AngleFits
  <2>5. QED
    BY <2>4 DEF FrameTakes, s
<1>3. QED
  BY <1>1, <1>2 DEF CommandsFitFrame

\* The loop over the entities has as many rounds as it is given.
LEMMA ReadingRounds ==
  ASSUME NEW bytes \in [1..7 -> SensorBytes]
  PROVE  \E a : /\ a[0] = Unread /\ Reading(bytes) = a[7]
                /\ \A round \in 1..7 : a[round] = NextEntity(bytes, a[round - 1])
<1> DEFINE V == [index : Nat, values : SUBSET SensorBytes]
           F == [p \in V \X Nat |-> NextEntity(bytes, p[1])]
           Rounds(a) == a = [round \in 0..Len(bytes) |->
                               IF round = 0 THEN Unread ELSE NextEntity(bytes, a[round - 1])]
           f == CHOOSE a : Rounds(a)
<1>1. Len(bytes) = 7 /\ bytes \in Seq(SensorBytes)
  <2>1. bytes \in Seq(SensorBytes)
    BY SeqDef
  <2>2. 1..Len(bytes) = 1..7 /\ Len(bytes) \in Nat
    BY <2>1, LenProperties
  <2>3. QED
    BY <2>1, <2>2
<1>2. Unread \in V
  BY DEF Unread
<1>3. F \in [V \X Nat -> V]
  <2>1. SUFFICES ASSUME NEW v \in V PROVE NextEntity(bytes, v) \in V
    BY Zenon
  <2>2. CASE v.index < Len(bytes)
    <3>1. bytes[v.index + 1] \in SensorBytes /\ v.index + 1 \in Nat
      BY <1>1, <2>2
    <3>2. EntitySize[bytes[v.index + 1]] \in Nat
      BY <3>1 DEF EntitySize
    <3>3. v.index + 1 + EntitySize[bytes[v.index + 1]] \in Nat /\ v.values \union {bytes[v.index + 1]} \subseteq SensorBytes
      BY <3>1, <3>2
    <3>4. QED
      BY <3>3 DEF NextEntity
  <2>3. CASE ~(v.index < Len(bytes))
    BY <2>3 DEF NextEntity
  <2>4. QED
    BY <2>2, <2>3
<1>4. PICK g : Iterates(g, 7, V, Unread, F)
  BY <1>2, <1>3, PrimitiveRecursion
<1>5. Rounds(g)
  <2>1. g \in [0..7 -> V]
    BY <1>4 DEF Iterates
  <2>2. ASSUME NEW n \in 0..7 PROVE g[n] = IF n = 0 THEN Unread ELSE NextEntity(bytes, g[n - 1])
    <3>1. g[n] = IF n = 0 THEN Unread ELSE F[<<g[n - 1], n>>]
      BY <1>4 DEF Iterates
    <3>2. n # 0 => n - 1 \in 0..7
      OBVIOUS
    <3>3. n # 0 => g[n - 1] \in V /\ n \in Nat
      BY <2>1, <3>2
    <3>4. n # 0 => F[<<g[n - 1], n>>] = NextEntity(bytes, g[n - 1])
      BY <3>3, Zenon
    <3>5. QED
      BY <3>1, <3>4
  <2>3. QED
    BY <1>1, <2>1, <2>2
<1>6. Rounds(f)
  BY <1>5
<1>7. Reading(bytes) = f[7]
  BY <1>1 DEF Reading
<1> HIDE DEF f
<1>8. \A n \in 0..7 : f[n] = IF n = 0 THEN Unread ELSE NextEntity(bytes, f[n - 1])
  BY <1>1, <1>6
<1>9. f[0] = Unread /\ \A round \in 1..7 : f[round] = NextEntity(bytes, f[round - 1])
  BY <1>8
<1>10. QED
  BY <1>7, <1>9

\* What a round of the loop comes to, of seven bytes.
LEMMA ReadingStep ==
  ASSUME NEW bytes \in [1..7 -> SensorBytes], Len(bytes) = 7, NEW i \in 0..6, NEW S
  PROVE  LET end == i + 1 + EntitySize[bytes[i + 1]]
         IN  /\ EntitySize[bytes[i + 1]] \in {1, 2} /\ bytes[i + 1] \in SensorBytes
             /\ end <= 7 => NextEntity(bytes, [index |-> i, values |-> S]) =
                                [index |-> end, values |-> S \union {bytes[i + 1]}]
             /\ end > 7 => NextEntity(bytes, [index |-> i, values |-> S]) = [index |-> i, values |-> S]
<1> DEFINE end == i + 1 + EntitySize[bytes[i + 1]]
<1>1. i + 1 \in 1..7 /\ i < 7
  OBVIOUS
<1>2. bytes[i + 1] \in SensorBytes
  BY <1>1
<1>3. EntitySize[bytes[i + 1]] \in {1, 2}
  BY <1>2 DEF EntitySize
<1>4. end \in Int
  BY <1>3
<1>5. NextEntity(bytes, [index |-> i, values |-> S]) =
        IF end <= 7 THEN [index |-> end, values |-> S \union {bytes[i + 1]}] ELSE [index |-> i, values |-> S]
  BY <1>1, <1>2 DEF NextEntity
<1>6. end > 7 => ~(end <= 7)
  BY <1>4
<1>7. QED
  BY <1>2, <1>3, <1>5, <1>6

\* Of seven bytes the worker believes those that are one of each entity.
LEMMA FramesAreWhole ==
  ASSUME NEW bytes \in [1..7 -> SensorBytes]
  PROVE  SensorFrameTaken(bytes) <=> WholeFrame(bytes)
<1> DEFINE p == 2 + EntitySize[bytes[1]]
           q == p + 1 + EntitySize[bytes[p]]
           end == q + EntitySize[bytes[q]]
           two == [index |-> q - 1, values |-> {bytes[1], bytes[p]}]
           three == [index |-> end, values |-> {bytes[1], bytes[p], bytes[q]}]
<1>1. PICK a : /\ a[0] = Unread /\ Reading(bytes) = a[7]
               /\ \A round \in 1..7 : a[round] = NextEntity(bytes, a[round - 1])
  BY ReadingRounds
<1>2. Len(bytes) = 7
  BY SeqDef, LenProperties
<1>3. EntitySize[bytes[1]] \in {1, 2} /\ p \in {3, 4} /\ a[1] = [index |-> p - 1, values |-> {bytes[1]}]
  <2>1. EntitySize[bytes[0 + 1]] \in {1, 2} /\ NextEntity(bytes, [index |-> 0, values |-> {}]) =
           [index |-> 0 + 1 + EntitySize[bytes[0 + 1]], values |-> {} \union {bytes[0 + 1]}]
    BY <1>2, ReadingStep
  <2>2. a[1] = NextEntity(bytes, [index |-> 0, values |-> {}])
    BY <1>1 DEF Unread
  <2>3. QED
    BY <2>1, <2>2
<1>4. EntitySize[bytes[p]] \in {1, 2} /\ q \in 5..7 /\ a[2] = two
  <2> DEFINE i == p - 1
             S == {bytes[1]}
  <2>1. i \in 0..6 /\ i + 1 = p /\ i + 1 \in {3, 4}
    BY <1>3
  <2> HIDE DEF p, i, S
  <2>2. EntitySize[bytes[i + 1]] \in {1, 2}
    BY <1>2, <2>1, ReadingStep
  <2>3. i + 1 + EntitySize[bytes[i + 1]] <= 7
    BY <2>1, <2>2
  <2>4. NextEntity(bytes, [index |-> i, values |-> S]) =
           [index |-> i + 1 + EntitySize[bytes[i + 1]], values |-> S \union {bytes[i + 1]}]
    BY <1>2, <2>1, <2>3, ReadingStep
  <2>5. a[2] = NextEntity(bytes, [index |-> i, values |-> S])
    BY <1>1, <1>3 DEF i, S
  <2>6. q \in 5..7 /\ i + 1 + EntitySize[bytes[i + 1]] = q - 1
    BY <2>1, <2>2
  <2>7. S \union {bytes[i + 1]} = {bytes[1], bytes[p]}
    BY <2>1 DEF S
  <2>8. QED
    BY <2>1, <2>2, <2>4, <2>5, <2>6, <2>7
<1>5. EntitySize[bytes[q]] \in {1, 2} /\ end \in 6..9 /\ a[3] = IF end <= 7 THEN three ELSE two
  <2> DEFINE i == q - 1
             S == {bytes[1], bytes[p]}
  <2>1. i \in 0..6 /\ i + 1 = q /\ a[2] = [index |-> i, values |-> S]
    BY <1>4
  <2> HIDE DEF q, i, S
  <2>2. EntitySize[bytes[i + 1]] \in {1, 2}
    BY <1>2, <2>1, ReadingStep
  <2>3. end = i + 1 + EntitySize[bytes[i + 1]] /\ end \in 6..9
    BY <1>4, <2>1, <2>2
  <2>4. a[3] = NextEntity(bytes, [index |-> i, values |-> S])
    BY <1>1, <2>1
  <2> HIDE DEF end
  <2>5. end <= 7 => a[3] = [index |-> end, values |-> S \union {bytes[i + 1]}]
    BY <1>2, <2>1, <2>3, <2>4, ReadingStep
  <2>6. end > 7 => a[3] = [index |-> i, values |-> S]
    BY <1>2, <2>1, <2>3, <2>4, ReadingStep
  <2>7. S \union {bytes[i + 1]} = {bytes[1], bytes[p], bytes[q]} /\ i = q - 1
    BY <2>1 DEF S, i
  <2>8. QED
    BY <2>1, <2>2, <2>3, <2>5, <2>6, <2>7 DEF S
<1> HIDE DEF p, q, end
<1>6. NextEntity(bytes, a[3]) = a[3]
  <2>1. CASE end > 7
    <3>1. a[3] = two /\ a[3] = NextEntity(bytes, a[2]) /\ a[2] = two
      BY <1>1, <1>4, <1>5, <2>1
    <3>2. QED
      BY <3>1
  <2>2. CASE end = 7
    <3>1. a[3] = three /\ ~(three.index < Len(bytes))
      BY <1>2, <1>5, <2>2
    <3>2. QED
      BY <3>1 DEF NextEntity
  <2>3. CASE end = 6
    <3>1. a[3] = three /\ three = [index |-> 6, values |-> {bytes[1], bytes[p], bytes[q]}] /\ 6 \in 0..6
      BY <1>5, <2>3
    <3>2. EntitySize[bytes[6 + 1]] \in {1, 2}
      BY <1>2, <3>1, ReadingStep
    <3>3. 6 + 1 + EntitySize[bytes[6 + 1]] > 7
      BY <3>2
    <3> HIDE DEF three
    <3>4. NextEntity(bytes, [index |-> 6, values |-> {bytes[1], bytes[p], bytes[q]}])
            = [index |-> 6, values |-> {bytes[1], bytes[p], bytes[q]}]
      BY <1>2, <3>1, <3>3, ReadingStep
    <3>5. QED
      BY <3>1, <3>4
  <2>4. end \in {6, 7} \/ end > 7
    BY <1>5
  <2>5. QED
    BY <2>1, <2>2, <2>3, <2>4
<1>7. Reading(bytes) = a[3]
  <2>1. /\ a[4] = NextEntity(bytes, a[3]) /\ a[5] = NextEntity(bytes, a[4])
        /\ a[6] = NextEntity(bytes, a[5]) /\ a[7] = NextEntity(bytes, a[6])
    <3>1. 4 \in 1..7 /\ 5 \in 1..7 /\ 6 \in 1..7 /\ 7 \in 1..7 /\ 4 - 1 = 3 /\ 5 - 1 = 4 /\ 6 - 1 = 5 /\ 7 - 1 = 6
      OBVIOUS
    <3>2. QED
      BY <1>1, <3>1
  <2>2. QED
    BY <1>1, <1>6, <2>1
<1>8. SensorFrameTaken(bytes) <=> end = 7 /\ {bytes[1], bytes[p], bytes[q]} = SensorBytes
  <2>1. SensorFrameTaken(bytes) <=> a[3] = [index |-> 7, values |-> SensorBytes]
    BY <1>2, <1>7 DEF SensorFrameTaken
  <2>2. q - 1 # 7
    BY <1>4
  <2>3. end <= 7 => (a[3] = [index |-> 7, values |-> SensorBytes]
                        <=> end = 7 /\ {bytes[1], bytes[p], bytes[q]} = SensorBytes)
    BY <1>5
  <2>4. ASSUME end > 7 PROVE a[3] # [index |-> 7, values |-> SensorBytes] /\ end # 7
    <3>1. ~(end <= 7) /\ end # 7
      BY <1>5, <2>4
    <3>2. a[3] = two
      BY <1>5, <3>1
    <3>3. a[3].index = q - 1
      BY <3>2
    <3>4. [index |-> 7, values |-> SensorBytes].index = 7
      OBVIOUS
    <3>5. QED
      BY <2>2, <3>1, <3>3, <3>4
  <2>5. end <= 7 \/ end > 7
    BY <1>5
  <2>6. QED
    BY <2>1, <2>3, <2>4, <2>5
<1>9. WholeFrame(bytes) <=> end = 7 /\ {bytes[1], bytes[p], bytes[q]} = SensorBytes
  <2>1. p \in 2..7 /\ q \in 2..7
    BY <1>3, <1>4
  <2>2. ASSUME end = 7, {bytes[1], bytes[p], bytes[q]} = SensorBytes PROVE WholeFrame(bytes)
    BY <2>1, <2>2 DEF WholeFrame, p, q, end
  <2>3. ASSUME WholeFrame(bytes) PROVE end = 7 /\ {bytes[1], bytes[p], bytes[q]} = SensorBytes
    BY <2>3 DEF WholeFrame, p, q, end
  <2>4. QED
    BY <2>2, <2>3
<1>10. QED
  BY <1>8, <1>9

\* What is read off sticks and telemetry is true.
LEMMA ReadingsTrue == ReadingsAreTrue
<1>1. ASSUME NEW file \in DriveSettings,
             NEW y \in -LoadedSettings(file).deadzone..LoadedSettings(file).deadzone,
             NEW x \in -LoadedSettings(file).deadzone..LoadedSettings(file).deadzone
      PROVE  MixDrive(y, x, LoadedSettings(file)) = <<0, 0>>
  <2> DEFINE s == LoadedSettings(file)
  <2>1. ValidSettings(s) /\ y \in -s.deadzone..s.deadzone /\ x \in -s.deadzone..s.deadzone
    BY LoadedAreValid
  <2> HIDE DEF s
  <2>2. s.deadzone \in 0..50
    BY <2>1 DEF ValidSettings
  <2>3. y \in -100..100 /\ x \in -100..100
    BY <2>1, <2>2
  <2>4. QED
    BY <2>1, <2>3, PowersFit DEF s
<1>2. QED
  BY <1>1, FramesAreWhole DEF ReadingsAreTrue

\* The rover stops when nobody steers it, its strip shows the colour chosen
\* last, and what is sent and believed is well formed.
THEOREM RoverSafe == RoverSpec => []RoverIsSafe
<1>1. RoverInv => RoverIsSafe
  BY RoverShown, CommandsFit, ReadingsTrue DEF RoverIsSafe
<1>2. QED
  BY <1>1, RoverBegins, RoverStep, PTL DEF RoverSpec

(***************************************************************************)
(* The music player                                                        *)
(***************************************************************************)

Sounds == [song : Nat, pos : Nat, suspended : BOOLEAN]
Queues == Orders \cup {<<>>}
Session ==
    [selected : Song, playing : 0..LastSong, state : {"stopped", "playing", "paused"}, repeat : BOOLEAN,
     counted : Song, base : 0..Duration, elapsed : 0..Duration, queue : Queues, cursor : 0..LastSong]

\* A song is played before a session is active.
PlayerTyped ==
    /\ music \in Session /\ (Active => music.playing \in Song)
    /\ music.queue = <<>> \/ (music.queue \in Orders /\ music.cursor \in Song)
    /\ sound \in Sounds /\ (sound = Silence \/ (sound.song \in Song /\ sound.pos \in 0..Duration))

\* While a shuffle plays, its order says which song that is.
OrderIsPlayed == Active /\ music.queue # <<>> => music.playing = music.queue[music.cursor]

PlayerInv == PlayerTyped /\ SoundMatchesView /\ OrderIsPlayed

ShuffleMove ==
    music'.queue # <<>> /\ LastSong > 1 /\ music'.state = "playing"
        /\ <<music'.queue, music'.cursor>> # <<music.queue, music.cursor>> =>
        music'.playing # music.playing

-----------------------------------------------------------------------------
(* The orders of a shuffle *)

\* An order has every song at one place.
LEMMA OrdersArePermutations ==
  ASSUME NEW q \in Orders
  PROVE  /\ q \in Seq(Song) /\ Len(q) = LastSong /\ DOMAIN q = Song /\ \A i \in Song : q[i] \in Song
         /\ \A i, j \in Song : q[i] = q[j] => i = j
         /\ q # <<>>
<1>1. LastSong \in Nat \ {0}
  BY MusicConstants
<1>2. q \in [Song -> Song] /\ \A s \in Song : \E i \in Song : q[i] = s
  BY DEF Orders
<1>3. q \in Surjection(Song, Song)
  BY <1>2 DEF Surjection
<1>4. IsFiniteSet(Song)
  BY <1>1, FS_Interval DEF Song
<1>5. q \in Injection(Song, Song)
  BY <1>3, <1>4, FS_SurjSameCardinalityImpliesInj
<1>6. q \in Seq(Song) /\ Len(q) = LastSong
  <2>1. q \in [1..LastSong -> Song] /\ LastSong \in Nat
    BY <1>1, <1>2 DEF Song
  <2>2. q \in Seq(Song)
    BY <2>1, SeqDef
  <2>3. Len(q) \in Nat /\ DOMAIN q = 1..Len(q)
    BY <2>2, LenProperties
  <2>4. 1..Len(q) = 1..LastSong
    BY <2>1, <2>3
  <2>5. QED
    BY <2>1, <2>2, <2>3, <2>4
<1>7. DOMAIN q = Song /\ \A i \in Song : q[i] \in Song
  BY <1>2
<1>8. \A i, j \in Song : q[i] = q[j] => i = j
  BY <1>2, <1>5 DEF Injection, IsInjective
<1>9. q # <<>>
  BY <1>1, <1>6
<1>10. QED
  BY <1>6, <1>7, <1>8, <1>9

\* A fresh order is an order, and does not open with the song just heard.
LEMMA FreshOrdersOpenAnew ==
  ASSUME NEW heard, NEW q \in FreshOrders(heard)
  PROVE  q \in Orders /\ (LastSong > 1 => q[1] # heard)
<1>1. LastSong \in Nat \ {0}
  BY MusicConstants
<1>2. PICK p \in Orders : q = IF LastSong > 1 /\ p[1] = heard THEN [p EXCEPT ![1] = p[2], ![2] = p[1]] ELSE p
  BY DEF FreshOrders
<1>3. p \in [Song -> Song] /\ (\A s \in Song : \E i \in Song : p[i] = s) /\ \A i, j \in Song : p[i] = p[j] => i = j
  BY OrdersArePermutations DEF Orders
<1>4. CASE LastSong > 1 /\ p[1] = heard
  <2>1. 1 \in Song /\ 2 \in Song
    BY <1>1, <1>4 DEF Song
  <2>2. q \in [Song -> Song] /\ \A i \in Song : q[i] = IF i = 1 THEN p[2] ELSE IF i = 2 THEN p[1] ELSE p[i]
    BY <1>2, <1>3, <1>4, <2>1
  <2>3. \A s \in Song : \E i \in Song : q[i] = s
    <3> TAKE s \in Song
    <3>1. PICK i \in Song : p[i] = s
      BY <1>3
    <3>2. QED
      BY <2>1, <2>2, <3>1
  <2>4. q[1] # heard
    BY <1>3, <1>4, <2>1, <2>2
  <2>5. QED
    BY <2>2, <2>3, <2>4 DEF Orders
<1>5. CASE ~(LastSong > 1 /\ p[1] = heard)
  BY <1>2, <1>5
<1>6. QED
  BY <1>4, <1>5

-----------------------------------------------------------------------------
(* What the session's steps leave *)

\* Trying a song: it plays, at the place and in the order asked for, or the
\* session is stopped.
LEMMA PlayingKeeps ==
  ASSUME PlayerInv, NEW p \in Session, NEW start \in 0..Duration, PlaySelected(p, start),
         p.queue = <<>> \/ (p.queue \in Orders /\ p.cursor \in Song),
         p.queue # <<>> => p.selected = p.queue[p.cursor]
  PROVE  /\ PlayerInv' /\ music'.queue = p.queue /\ music'.cursor = p.cursor
         /\ music'.state = "playing" => music'.playing = p.selected
<1>1. PICK r \in PlayOutcomes(p.selected, start) :
        /\ sound' = r.sound
        /\ music' = IF r.ok THEN [p EXCEPT !.playing = p.selected, !.counted = p.selected, !.base = start,
                                           !.elapsed = 0, !.state = "playing"]
                    ELSE [p EXCEPT !.state = "stopped", !.elapsed = 0]
  BY DEF PlaySelected
<1>2. LastSong \in Nat \ {0} /\ Duration \in Nat \ {0}
  BY MusicConstants
<1>3. sound \in Sounds /\ (sound = Silence \/ (sound.song \in Song /\ sound.pos \in 0..Duration))
  BY DEF PlayerInv, PlayerTyped
<1>4. p.selected \in Song /\ p.selected # 0
  BY <1>2 DEF Session, Song
<1>5. /\ r.ok \in BOOLEAN
      /\ r.sound \in Sounds /\ (r.sound = Silence \/ (r.sound.song \in Song /\ r.sound.pos \in 0..Duration))
      /\ r.ok => r.sound.song = p.selected /\ ~r.sound.suspended
  <2>1. CASE r = [ok |-> FALSE, sound |-> sound]
    BY <1>3, <2>1
  <2>2. CASE Running /\ sound.song = p.selected /\ start = 0 /\ r = [ok |-> TRUE, sound |-> [sound EXCEPT !.suspended = FALSE]]
    <3>1. r.ok = TRUE /\ r.sound = [sound EXCEPT !.suspended = FALSE]
      BY <2>2
    <3>2. r.sound \in Sounds /\ r.sound.song = sound.song /\ r.sound.pos = sound.pos /\ r.sound.suspended = FALSE
      BY <1>3, <3>1 DEF Sounds
    <3>3. QED
      BY <1>3, <2>2, <3>1, <3>2 DEF Running
  <2>3. CASE r = [ok |-> FALSE, sound |-> Silence]
    BY <2>3 DEF Silence, Sounds
  <2>4. CASE r = [ok |-> TRUE, sound |-> [song |-> p.selected, pos |-> start, suspended |-> FALSE]]
    BY <1>2, <1>4, <2>4 DEF Sounds, Song
  <2>5. QED
    BY <2>1, <2>2, <2>3, <2>4 DEF PlayOutcomes
<1>6. CASE r.ok
  <2>1. music' = [p EXCEPT !.playing = p.selected, !.counted = p.selected, !.base = start, !.elapsed = 0, !.state = "playing"]
    BY <1>1, <1>6
  <2>2. /\ music' \in Session /\ music'.queue = p.queue /\ music'.cursor = p.cursor
        /\ music'.state = "playing" /\ music'.playing = p.selected
    <3>1. p.selected \in 0..LastSong /\ 0 \in 0..Duration
      BY <1>2, <1>4 DEF Song
    <3>2. QED
      BY <1>4, <2>1, <3>1 DEF Session
  <2>3. PlayerTyped'
    BY <1>1, <1>4, <1>5, <2>2 DEF PlayerTyped, Active
  <2>4. SoundMatchesView' /\ OrderIsPlayed'
    BY <1>1, <1>5, <1>6, <2>2 DEF SoundMatchesView, OrderIsPlayed
  <2>5. QED
    BY <2>2, <2>3, <2>4 DEF PlayerInv
<1>7. CASE ~r.ok
  <2>1. music' = [p EXCEPT !.state = "stopped", !.elapsed = 0]
    BY <1>1, <1>7
  <2>2. /\ music' \in Session /\ music'.queue = p.queue /\ music'.cursor = p.cursor /\ music'.state = "stopped"
    <3>1. 0 \in 0..Duration
      BY <1>2
    <3>2. QED
      BY <2>1, <3>1 DEF Session
  <2>3. PlayerTyped'
    BY <1>1, <1>5, <2>2 DEF PlayerTyped, Active
  <2>4. SoundMatchesView' /\ OrderIsPlayed'
    BY <2>2 DEF SoundMatchesView, OrderIsPlayed, Active
  <2>5. QED
    BY <2>2, <2>3, <2>4 DEF PlayerInv
<1>8. QED
  BY <1>5, <1>6, <1>7

\* A song at a place of an order.
LEMMA PlayAtKeeps ==
  ASSUME PlayerInv, NEW order \in Orders, NEW cursor \in Song, PlayAt(order, cursor)
  PROVE  /\ PlayerInv'
         /\ music'.state = "playing" => music'.playing = order[cursor]
<1> DEFINE p == [music EXCEPT !.queue = order, !.cursor = cursor, !.selected = order[cursor],
                              !.counted = order[cursor], !.base = 0, !.elapsed = 0]
<1>1. LastSong \in Nat \ {0} /\ Duration \in Nat \ {0} /\ order[cursor] \in Song /\ order # <<>>
  BY MusicConstants, OrdersArePermutations
<1>2. music \in Session
  BY DEF PlayerInv, PlayerTyped
<1>3. p \in Session /\ p.queue = order /\ p.cursor = cursor /\ p.selected = order[cursor]
  <2>1. order \in Queues /\ cursor \in 0..LastSong /\ 0 \in 0..Duration
    BY <1>1 DEF Queues, Song
  <2>2. QED
    BY <1>1, <1>2, <2>1 DEF Session
<1>4. PlaySelected(p, 0) /\ 0 \in 0..Duration
  BY <1>1 DEF PlayAt
<1> HIDE DEF p
<1>5. QED
  BY <1>3, <1>4, PlayingKeeps

\* What follows a song that has ended, and a shuffle that begins.
LEMMA NextSongKeeps ==
  ASSUME PlayerInv, ShuffleAll \/ RepeatSong \/ NextShuffled \/ NextInOrder
  PROVE  PlayerInv' /\ ShuffleMove
<1>1. LastSong \in Nat \ {0} /\ Duration \in Nat \ {0} /\ 1 \in Song /\ 0 \in 0..Duration
  BY MusicConstants DEF Song
<1>2. music \in Session /\ (Active => music.playing \in Song)
      /\ (music.queue = <<>> \/ (music.queue \in Orders /\ music.cursor \in Song))
  BY DEF PlayerInv, PlayerTyped
<1>3. ASSUME NEW q \in FreshOrders(music.playing), PlayAt(q, 1) PROVE PlayerInv' /\ ShuffleMove
  <2>1. q \in Orders /\ (LastSong > 1 => q[1] # music.playing)
    BY FreshOrdersOpenAnew
  <2>2. PlayerInv' /\ (music'.state = "playing" => music'.playing = q[1])
    BY <1>1, <1>3, <2>1, PlayAtKeeps
  <2>3. QED
    BY <2>1, <2>2 DEF ShuffleMove
<1>4. CASE ShuffleAll
  BY <1>3, <1>4 DEF ShuffleAll
<1>5. CASE NextShuffled
  <2>1. music.queue \in Orders /\ music.cursor \in Song /\ Active
    BY <1>2, <1>5 DEF NextShuffled, Finished
  <2>2. CASE music.cursor < Len(music.queue)
    <3>1. music.cursor + 1 \in Song /\ music.cursor + 1 # music.cursor
      BY <1>1, <2>1, <2>2, OrdersArePermutations DEF Song
    <3>2. PlayAt(music.queue, music.cursor + 1)
      BY <1>5, <2>2 DEF NextShuffled
    <3>3. PlayerInv' /\ (music'.state = "playing" => music'.playing = music.queue[music.cursor + 1])
      BY <2>1, <3>1, <3>2, PlayAtKeeps
    <3>4. music.playing = music.queue[music.cursor]
      BY <2>1, OrdersArePermutations DEF PlayerInv, OrderIsPlayed
    <3>5. music.queue[music.cursor + 1] # music.queue[music.cursor]
      BY <2>1, <3>1, OrdersArePermutations
    <3>6. QED
      BY <3>3, <3>4, <3>5 DEF ShuffleMove
  <2>3. CASE ~(music.cursor < Len(music.queue))
    BY <1>3, <1>5, <2>3 DEF NextShuffled
  <2>4. QED
    BY <2>2, <2>3
<1>6. CASE RepeatSong
  <2> DEFINE p == [music EXCEPT !.selected = music.playing, !.base = 0, !.elapsed = 0]
  <2>1. PlaySelected(p, 0) /\ Active
    BY <1>6 DEF RepeatSong, Finished
  <2>2. p \in Session /\ p.queue = music.queue /\ p.cursor = music.cursor /\ p.selected = music.playing
    BY <1>1, <1>2, <2>1 DEF Session
  <2>3. p.queue # <<>> => p.selected = p.queue[p.cursor]
    BY <2>1, <2>2 DEF PlayerInv, OrderIsPlayed
  <2>4. p.queue = <<>> \/ (p.queue \in Orders /\ p.cursor \in Song)
    BY <1>2, <2>2
  <2> HIDE DEF p
  <2>5. PlayerInv' /\ music'.queue = p.queue /\ music'.cursor = p.cursor
    BY <1>1, <2>1, <2>2, <2>3, <2>4, PlayingKeeps
  <2>6. QED
    BY <2>2, <2>5 DEF ShuffleMove
<1>7. CASE NextInOrder
  <2> DEFINE next == (music.playing % LastSong) + 1
             p == [music EXCEPT !.selected = next, !.counted = next, !.base = 0, !.elapsed = 0]
  <2>1. PlaySelected(p, 0) /\ Active /\ music.queue = <<>>
    BY <1>7 DEF NextInOrder, Finished
  <2>2. next \in Song
    BY <1>1, <1>2, <2>1 DEF Song
  <2> HIDE DEF next
  <2>3. p \in Session /\ p.queue = <<>>
    BY <1>1, <1>2, <2>1, <2>2 DEF Session
  <2> HIDE DEF p
  <2>4. PlayerInv' /\ music'.queue = <<>>
    BY <1>1, <2>1, <2>3, PlayingKeeps
  <2>5. QED
    BY <2>4 DEF ShuffleMove
<1>8. QED
  BY <1>4, <1>5, <1>6, <1>7

\* The position is within the song.
LEMMA PositionInSong ==
  ASSUME PlayerInv
  PROVE  Position \in 0..Duration
<1>1. music.base \in 0..Duration /\ music.elapsed \in 0..Duration /\ Duration \in Nat
  BY MusicConstants DEF PlayerInv, PlayerTyped, Session
<1>2. Smaller(music.base + music.elapsed, Duration) \in 0..Duration
  BY <1>1 DEF Smaller
<1>3. QED
  BY <1>1, <1>2 DEF Position

\* The buttons that change no song: the session and its process agree after.
LEMMA ButtonsKeep ==
  ASSUME PlayerInv,
         (\E s \in Song : SelectSong(s)) \/ Pause \/ Resume \/ StopMusic \/ ToggleRepeat \/ ReopenMusic
  PROVE  PlayerInv' /\ ShuffleMove
<1>1. /\ LastSong \in Nat \ {0} /\ Duration \in Nat \ {0} /\ 1 \in Song /\ 0 \in 0..Duration
      /\ 0 \in 0..LastSong /\ <<>> \in Queues
  BY MusicConstants DEF Song, Queues
<1>2. /\ music \in Session /\ (Active => music.playing \in Song)
      /\ music.queue = <<>> \/ (music.queue \in Orders /\ music.cursor \in Song)
      /\ sound \in Sounds /\ (sound = Silence \/ (sound.song \in Song /\ sound.pos \in 0..Duration))
  BY DEF PlayerInv, PlayerTyped
<1>3. (Active /\ Running => sound.song = music.playing /\ (sound.suspended <=> music.state = "paused"))
      /\ (Active /\ music.queue # <<>> => music.playing = music.queue[music.cursor])
  BY DEF PlayerInv, SoundMatchesView, OrderIsPlayed
<1>4. Silence \in Sounds
  BY DEF Silence, Sounds
<1>5. CASE \E s \in Song : SelectSong(s)
  <2>1. PICK s \in Song : SelectSong(s)
    BY <1>5
  <2>2. /\ music' \in Session /\ music'.queue = music.queue /\ music'.cursor = music.cursor
        /\ music'.state = music.state /\ music'.playing = music.playing /\ sound' = sound
    BY <1>1, <1>2, <2>1 DEF SelectSong, Session
  <2>3. QED
    BY <1>2, <1>3, <2>2 DEF PlayerInv, PlayerTyped, SoundMatchesView, OrderIsPlayed, Active, Running, ShuffleMove
<1>6. CASE Pause
  <2>1. /\ music' \in Session /\ music'.queue = music.queue /\ music'.cursor = music.cursor
        /\ music'.state = "paused" /\ music'.playing = music.playing
    BY <1>1, <1>2, <1>6, PositionInSong DEF Pause, Session
  <2>2. /\ sound' \in Sounds /\ sound'.song = sound.song /\ sound'.pos = sound.pos /\ sound'.suspended = TRUE
        /\ Active /\ Running
    BY <1>2, <1>6 DEF Pause, Sounds, Active
  <2>3. QED
    BY <1>2, <1>3, <2>1, <2>2 DEF PlayerInv, PlayerTyped, SoundMatchesView, OrderIsPlayed, Active, Running, ShuffleMove
<1>7. CASE Resume
  <2>1. /\ music' \in Session /\ music'.queue = music.queue /\ music'.cursor = music.cursor
        /\ music'.state = "playing" /\ music'.playing = music.playing
    BY <1>1, <1>2, <1>7 DEF Resume, Session
  <2>2. /\ sound' \in Sounds /\ sound'.song = sound.song /\ sound'.pos = sound.pos /\ sound'.suspended = FALSE
        /\ Active /\ Running
    BY <1>2, <1>7 DEF Resume, Sounds, Active
  <2>3. QED
    BY <1>2, <1>3, <2>1, <2>2 DEF PlayerInv, PlayerTyped, SoundMatchesView, OrderIsPlayed, Active, Running, ShuffleMove
<1>8. CASE StopMusic \/ ReopenMusic
  <2>1. music' \in Session /\ music'.queue = <<>> /\ music'.state = "stopped" /\ sound' = Silence
    <3>1. CASE StopMusic
      BY <1>1, <1>2, <3>1 DEF StopMusic, Session
    <3>2. CASE ReopenMusic
      BY <1>1, <3>2 DEF ReopenMusic, NewSession, Session
    <3>3. QED
      BY <1>8, <3>1, <3>2
  <2>2. QED
    BY <1>4, <2>1 DEF PlayerInv, PlayerTyped, SoundMatchesView, OrderIsPlayed, Active, Running, ShuffleMove
<1>9. CASE ToggleRepeat
  <2>1. /\ music' \in Session /\ music'.queue = music.queue /\ music'.cursor = music.cursor
        /\ music'.state = music.state /\ music'.playing = music.playing /\ sound' = sound
    BY <1>2, <1>9 DEF ToggleRepeat, Session
  <2>2. QED
    BY <1>2, <1>3, <2>1 DEF PlayerInv, PlayerTyped, SoundMatchesView, OrderIsPlayed, Active, Running, ShuffleMove
<1>10. QED
  BY <1>5, <1>6, <1>7, <1>8, <1>9

\* Playing what is selected begins no shuffle.
LEMMA PlayPressedKeeps ==
  ASSUME PlayerInv, PlayPressed
  PROVE  PlayerInv' /\ ShuffleMove
<1> DEFINE p == [music EXCEPT !.queue = <<>>, !.cursor = 0]
           start == IF music.counted = music.selected THEN music.base ELSE 0
<1>1. music \in Session /\ <<>> \in Queues /\ 0 \in 0..LastSong /\ 0 \in 0..Duration
  BY MusicConstants DEF PlayerInv, PlayerTyped, Queues
<1>2. p \in Session /\ p.queue = <<>>
  BY <1>1 DEF Session
<1>3. start \in 0..Duration
  BY <1>1 DEF Session
<1>4. PlaySelected(p, start)
  BY DEF PlayPressed
<1> HIDE DEF p, start
<1>5. PlayerInv' /\ music'.queue = <<>>
  BY <1>2, <1>3, <1>4, PlayingKeeps
<1>6. QED
  BY <1>5 DEF ShuffleMove

\* A seek, of the song that plays, of one that waits, or one that fails.
LEMMA SeekKeeps ==
  ASSUME PlayerInv, NEW target \in 0..Duration, SeekSong(target)
  PROVE  PlayerInv' /\ ShuffleMove
<1>1. LastSong \in Nat \ {0} /\ Duration \in Nat \ {0} /\ 0 \in 0..Duration
  BY MusicConstants
<1>2. /\ music \in Session /\ (Active => music.playing \in Song)
      /\ music.queue = <<>> \/ (music.queue \in Orders /\ music.cursor \in Song)
      /\ sound \in Sounds /\ (sound = Silence \/ (sound.song \in Song /\ sound.pos \in 0..Duration))
  BY DEF PlayerInv, PlayerTyped
<1>3. (Active /\ Running => sound.song = music.playing /\ (sound.suspended <=> music.state = "paused"))
      /\ (Active /\ music.queue # <<>> => music.playing = music.queue[music.cursor])
  BY DEF PlayerInv, SoundMatchesView, OrderIsPlayed
<1>4. CASE ~Active
  <2>1. sound' = sound /\ music' = [music EXCEPT !.counted = DisplayIndex, !.base = target]
    BY <1>4 DEF SeekSong
  <2>2. DisplayIndex \in Song
    BY <1>2, <1>4 DEF DisplayIndex, Session
  <2>3. /\ music' \in Session /\ music'.queue = music.queue /\ music'.cursor = music.cursor
        /\ music'.state = music.state /\ music'.playing = music.playing
    BY <1>2, <2>1, <2>2 DEF Session
  <2>4. QED
    BY <1>2, <1>3, <2>1, <2>3 DEF PlayerInv, PlayerTyped, SoundMatchesView, OrderIsPlayed, Active, Running, ShuffleMove
<1>5. CASE Active
  <2>1. PICK r \in PlayOutcomes(music.playing, target) :
          /\ sound' = [r.sound EXCEPT !.suspended = IF r.ok THEN music.state = "paused" ELSE @]
          /\ music' = IF r.ok THEN [music EXCEPT !.counted = music.playing, !.base = target, !.elapsed = 0] ELSE music
    BY <1>5 DEF SeekSong
  <2>2. /\ music' \in Session /\ music'.queue = music.queue /\ music'.cursor = music.cursor
        /\ music'.state = music.state /\ music'.playing = music.playing
    <3>1. CASE r.ok
      BY <1>1, <1>2, <1>5, <2>1, <3>1 DEF Session
    <3>2. CASE ~r.ok
      BY <1>2, <2>1, <3>2
    <3>3. QED
      BY <3>1, <3>2
  <2>3. music.playing \in Song /\ music.playing \in Nat /\ target \in Nat
    BY <1>1, <1>2, <1>5 DEF Song
  <2>4. /\ sound' \in Sounds
        /\ \/ sound' = sound \/ sound' = Silence
           \/ /\ sound'.song = music.playing /\ sound'.pos \in 0..Duration
              /\ sound'.suspended = (music.state = "paused")
    <3>1. \/ r.ok = FALSE /\ r.sound = sound
          \/ r.ok = FALSE /\ r.sound = Silence
          \/ r.ok = TRUE /\ r.sound \in Sounds /\ r.sound.song = music.playing /\ r.sound.pos \in 0..Duration
      <4>1. CASE r = [ok |-> FALSE, sound |-> sound]
        BY <4>1
      <4>2. CASE Running /\ sound.song = music.playing /\ r = [ok |-> TRUE, sound |-> [sound EXCEPT !.suspended = FALSE]]
        <5>1. r.ok = TRUE /\ r.sound = [sound EXCEPT !.suspended = FALSE]
          BY <4>2
        <5>2. r.sound \in Sounds /\ r.sound.song = sound.song /\ r.sound.pos = sound.pos
          BY <1>2, <5>1 DEF Sounds
        <5>3. QED
          BY <1>2, <4>2, <5>1, <5>2 DEF Running
      <4>3. CASE r = [ok |-> FALSE, sound |-> Silence]
        BY <4>3
      <4>4. CASE r = [ok |-> TRUE, sound |-> [song |-> music.playing, pos |-> target, suspended |-> FALSE]]
        BY <2>3, <4>4 DEF Sounds
      <4>5. QED
        BY <4>1, <4>2, <4>3, <4>4 DEF PlayOutcomes
    <3>2. CASE r.ok = FALSE /\ r.sound = sound
      BY <1>2, <2>1, <3>2 DEF Sounds
    <3>3. CASE r.ok = FALSE /\ r.sound = Silence
      <4>1. Silence \in Sounds
        BY DEF Sounds, Silence
      <4>2. sound' = [Silence EXCEPT !.suspended = Silence.suspended]
        BY <2>1, <3>3
      <4>3. QED
        BY <4>1, <4>2 DEF Sounds
    <3>4. CASE r.ok = TRUE /\ r.sound \in Sounds /\ r.sound.song = music.playing /\ r.sound.pos \in 0..Duration
      BY <2>1, <3>4 DEF Sounds
    <3>5. QED
      BY <3>1, <3>2, <3>3, <3>4
  <2>5. PlayerTyped'
    BY <1>2, <2>2, <2>3, <2>4 DEF PlayerTyped, Active
  <2>6. SoundMatchesView' /\ OrderIsPlayed' /\ ShuffleMove
    BY <1>3, <2>2, <2>4 DEF SoundMatchesView, OrderIsPlayed, ShuffleMove, Active, Running
  <2>7. QED
    BY <2>5, <2>6 DEF PlayerInv
<1>6. QED
  BY <1>4, <1>5

\* Time goes on, and the process ends when it likes.
LEMMA TimeKeeps ==
  ASSUME PlayerInv, SongTick \/ SoundEnds
  PROVE  PlayerInv' /\ ShuffleMove
<1>1. Duration \in Nat
  BY MusicConstants
<1>2. /\ music \in Session /\ (Active => music.playing \in Song)
      /\ music.queue = <<>> \/ (music.queue \in Orders /\ music.cursor \in Song)
      /\ sound \in Sounds /\ (sound = Silence \/ (sound.song \in Song /\ sound.pos \in 0..Duration))
  BY DEF PlayerInv, PlayerTyped
<1>3. (Active /\ Running => sound.song = music.playing /\ (sound.suspended <=> music.state = "paused"))
      /\ (Active /\ music.queue # <<>> => music.playing = music.queue[music.cursor])
  BY DEF PlayerInv, SoundMatchesView, OrderIsPlayed
<1>4. CASE SongTick
  <2>1. /\ music' \in Session /\ music'.queue = music.queue /\ music'.cursor = music.cursor
        /\ music'.state = music.state /\ music'.playing = music.playing
    BY <1>1, <1>2, <1>4 DEF SongTick, Session
  <2>2. sound' \in Sounds /\ sound'.song = sound.song /\ sound'.suspended = sound.suspended
    BY <1>2, <1>4 DEF SongTick, Sounds
  <2>3. CASE Running /\ ~sound.suspended /\ sound.pos < Duration
    <3>1. sound'.pos = sound.pos + 1
      BY <1>2, <1>4, <2>3 DEF SongTick, Sounds
    <3>2. sound.song \in Song /\ sound'.pos \in 0..Duration
      BY <1>1, <1>2, <2>3, <3>1 DEF Running
    <3>3. QED
      BY <1>2, <1>3, <2>1, <2>2, <2>3, <3>2
         DEF PlayerInv, PlayerTyped, SoundMatchesView, OrderIsPlayed, Active, Running, ShuffleMove
  <2>4. CASE ~(Running /\ ~sound.suspended /\ sound.pos < Duration)
    <3>1. sound' = sound
      BY <1>2, <1>4, <2>4 DEF SongTick, Sounds
    <3>2. QED
      BY <1>2, <1>3, <2>1, <3>1 DEF PlayerInv, PlayerTyped, SoundMatchesView, OrderIsPlayed, Active, Running, ShuffleMove
  <2>5. QED
    BY <2>3, <2>4
<1>5. CASE SoundEnds
  <2>1. sound' = Silence /\ music' = music /\ Silence \in Sounds
    BY <1>5 DEF SoundEnds, Silence, Sounds
  <2>2. QED
    BY <1>2, <1>3, <2>1 DEF PlayerInv, PlayerTyped, SoundMatchesView, OrderIsPlayed, Active, Running, ShuffleMove
<1>6. QED
  BY <1>4, <1>5

\* Every step of the player.
LEMMA PlayerSteps ==
  ASSUME PlayerInv, [MusicNext]_musicVars
  PROVE  PlayerInv' /\ (MusicNext => ShuffleMove)
<1>1. CASE (\E s \in Song : SelectSong(s)) \/ Pause \/ Resume \/ StopMusic \/ ToggleRepeat \/ ReopenMusic
  BY <1>1, ButtonsKeep
<1>2. CASE PlayPressed
  BY <1>2, PlayPressedKeeps
<1>3. CASE ShuffleAll \/ RepeatSong \/ NextShuffled \/ NextInOrder
  BY <1>3, NextSongKeeps
<1>4. CASE \E t \in 0..Duration : SeekSong(t)
  BY <1>4, SeekKeeps
<1>5. CASE SongTick \/ SoundEnds
  BY <1>5, TimeKeeps
<1>6. CASE UNCHANGED musicVars
  <2>1. music' = music /\ sound' = sound
    BY <1>6 DEF musicVars
  <2>2. PlayerInv'
    BY <2>1 DEF PlayerInv, PlayerTyped, SoundMatchesView, OrderIsPlayed, Active, Running
  <2>3. ShuffleMove
    BY <2>1 DEF ShuffleMove
  <2>4. QED
    BY <2>2, <2>3
<1>7. QED
  BY <1>1, <1>2, <1>3, <1>4, <1>5, <1>6 DEF MusicNext

(***************************************************************************)
(* The music shelf                                                         *)
(***************************************************************************)

PlaylistSets == UNION {[names -> Seq(Tune)] : names \in SUBSET Playlist}
Library == [recent : Seq(Tune), favorites : SUBSET Tune, playlists : PlaylistSets]
Once(q) == q \in Seq(Tune) /\ IsInjective(q)

\* A library as the store makes it: no song twice in a list, within the limits.
IsLibrary(s) ==
    /\ s \in Library /\ Once(s.recent) /\ Len(s.recent) <= MaxRecent
    /\ IsFiniteSet(DOMAIN s.playlists) /\ Cardinality(DOMAIN s.playlists) <= MaxPlaylists
    /\ \A n \in DOMAIN s.playlists : Once(s.playlists[n]) /\ Len(s.playlists[n]) <= MaxTunes

\* Its file is one too, unless it was never readable.
ShelfInv == IsLibrary(shelf) /\ (IsLibrary(libraryFile) \/ ReadOnly) /\ NothingUnsaidIsLost

-----------------------------------------------------------------------------
(* Lists that hold nothing twice *)

\* Such a list is as long as its set is large.
LEMMA OnceIsCounted ==
  ASSUME NEW q, Once(q)
  PROVE  /\ IsFiniteSet(ToSet(q)) /\ Cardinality(ToSet(q)) = Len(q)
         /\ Cardinality({q[i] : i \in DOMAIN q}) = Len(q)
<1>1. Len(q) \in Nat /\ DOMAIN q = 1..Len(q) /\ q \in [1..Len(q) -> Tune]
  BY LenProperties DEF Once
<1>2. ToSet(q) = {q[i] : i \in DOMAIN q}
  BY DEF ToSet
<1>3. \A i, j \in 1..Len(q) : q[i] = q[j] => i = j
  BY <1>1 DEF Once, IsInjective
<1>4. q \in [1..Len(q) -> ToSet(q)]
  BY <1>1, <1>2
<1>5. \A x \in ToSet(q) : \E i \in 1..Len(q) : q[i] = x
  BY <1>1, <1>2
<1>6. q \in Bijection(1..Len(q), ToSet(q))
  BY <1>3, <1>4, <1>5, Fun_IsBij
<1>7. ExistsBijection(1..Len(q), ToSet(q))
  BY <1>6 DEF ExistsBijection
<1>8. IsFiniteSet(1..Len(q)) /\ Cardinality(1..Len(q)) = Len(q)
  BY <1>1, FS_Interval
<1>9. QED
  BY <1>2, <1>7, <1>8, FS_Bijection

\* Taking a song out leaves such a list, no longer than before.
LEMMA ExcludingOnce ==
  ASSUME NEW q, Once(q), NEW t
  PROVE  Once(Excluding(q, {t})) /\ Len(Excluding(q, {t})) <= Len(q) /\ t \notin ToSet(Excluding(q, {t}))
<1>1. q \in Seq(Tune) /\ IsInjective(q)
  BY DEF Once
<1>2. /\ Excluding(q, {t}) \in Seq(Tune) /\ ToSet(Excluding(q, {t})) = ToSet(q) \ {t}
      /\ IsInjective(Excluding(q, {t}))
  BY <1>1, ExcludingKeeps
<1>3. Once(Excluding(q, {t}))
  BY <1>2 DEF Once
<1>4. /\ IsFiniteSet(ToSet(q)) /\ Cardinality(ToSet(q)) = Len(q)
      /\ Cardinality(ToSet(Excluding(q, {t}))) = Len(Excluding(q, {t}))
  BY <1>3, OnceIsCounted
<1>5. ToSet(Excluding(q, {t})) \in SUBSET ToSet(q)
  BY <1>2
<1>6. Cardinality(ToSet(Excluding(q, {t}))) <= Cardinality(ToSet(q))
  BY <1>4, <1>5, FS_Subset
<1>7. QED
  BY <1>2, <1>3, <1>4, <1>6

\* A song in front of the others, and the oldest dropped past the limit.
LEMMA FirstsOnce ==
  ASSUME NEW q, Once(q), NEW t \in Tune
  PROVE  LET s == Firsts(<<t>> \o Excluding(q, {t})) IN Once(s) /\ Len(s) <= MaxRecent
<1> DEFINE rest == Excluding(q, {t})
           all == <<t>> \o rest
<1>1. rest \in Seq(Tune) /\ IsInjective(rest) /\ t \notin ToSet(rest)
  BY ExcludingOnce DEF Once
<1>2. <<t>> \in Seq(Tune) /\ IsInjective(<<t>>) /\ ToSet(<<t>>) = {t}
  BY DEF IsInjective, ToSet
<1> HIDE DEF rest
<1>3. all \in Seq(Tune) /\ IsInjective(all)
  BY <1>1, <1>2, ConcatNew
<1>4. MaxRecent \in Nat
  BY MusicShelfConstants
<1> HIDE DEF all
<1>5. CASE Len(all) > MaxRecent
  <2> DEFINE s == SubSeq(all, 1, MaxRecent)
  <2>1. Len(all) \in Nat /\ DOMAIN all = 1..Len(all) /\ MaxRecent < Len(all)
    BY <1>3, <1>4, <1>5, LenProperties
  <2>2. s \in Seq(Tune) /\ Len(s) = MaxRecent /\ \A i \in 1..MaxRecent : s[i] = all[i]
    BY <1>3, <1>4, <2>1
  <2>3. DOMAIN s = 1..MaxRecent
    BY <2>2
  <2> HIDE DEF s
  <2>4. IsInjective(s)
    BY <1>3, <1>4, <2>1, <2>2, <2>3 DEF IsInjective
  <2>5. Firsts(all) = s
    BY <1>5 DEF Firsts, s
  <2>6. QED
    BY <1>4, <2>2, <2>4, <2>5 DEF Once, all, rest
<1>6. CASE ~(Len(all) > MaxRecent)
  <2>1. Firsts(all) = all /\ Len(all) <= MaxRecent
    BY <1>3, <1>4, <1>6, LenProperties DEF Firsts
  <2>2. QED
    BY <1>3, <2>1 DEF Once, all, rest
<1>7. QED
  BY <1>5, <1>6

-----------------------------------------------------------------------------
(* What the shelf's steps leave *)

\* An empty library is one.
LEMMA EmptyIsLibrary == IsLibrary(EmptyShelf)
<1>1. EmptyShelf.recent = <<>> /\ EmptyShelf.favorites = {} /\ EmptyShelf.playlists = <<>>
  BY DEF EmptyShelf
<1>2. DOMAIN <<>> = {} /\ <<>> \in Seq(Tune) /\ Len(<<>>) = 0
  OBVIOUS
<1>3. <<>> \in PlaylistSets
  <2>1. <<>> \in [{} -> Seq(Tune)]
    OBVIOUS
  <2>2. {} \in SUBSET Playlist
    OBVIOUS
  <2>3. QED
    BY <2>1, <2>2 DEF PlaylistSets
<1>4. EmptyShelf \in Library
  BY <1>2, <1>3 DEF EmptyShelf, Library
<1>5. Once(<<>>)
  BY <1>2 DEF Once, IsInjective
<1>6. {MaxRecent, MaxPlaylists, MaxTunes} \subseteq Nat
  BY MusicShelfConstants
<1>7. IsFiniteSet({}) /\ Cardinality({}) = 0
  BY FS_EmptySet
<1>8. QED
  BY <1>1, <1>2, <1>4, <1>5, <1>6, <1>7 DEF IsLibrary

\* A change that is written, or is not and says so.
LEMMA SavingKeeps ==
  ASSUME ShelfInv, NEW s, IsLibrary(s), NEW mode, NEW open, NEW otherwise, Save(s, mode, open, otherwise)
  PROVE  ShelfInv'
<1>1. shelf' = s
  BY DEF Save
<1>2. CASE libraryFile' = s /\ complaint' = FALSE /\ Refresh(mode, open, TRUE)
  <2>1. shown' = [mode |-> mode, active |-> open, items |-> Listed(shelf', mode, open)]
    BY <1>2 DEF Refresh
  <2>2. QED
    BY <1>1, <1>2, <2>1 DEF ShelfInv, NothingUnsaidIsLost
<1>3. CASE libraryFile' = libraryFile /\ complaint' = TRUE
  BY <1>1, <1>3 DEF ShelfInv, NothingUnsaidIsLost, ReadOnly
<1>4. QED
  BY <1>2, <1>3 DEF Save

\* A refusal changes nothing.
LEMMA RefusalKeeps ==
  ASSUME ShelfInv, UNCHANGED shelfVars
  PROVE  ShelfInv'
<1>1. shelf' = shelf /\ libraryFile' = libraryFile /\ complaint' = complaint /\ shown' = shown
  BY DEF shelfVars
<1>2. QED
  BY <1>1 DEF ShelfInv, ReadOnly, NothingUnsaidIsLost

\* Looking at another list.
LEMMA LookingKeeps ==
  ASSUME ShelfInv, NEW mode, NEW open, UNCHANGED <<shelf, libraryFile, complaint>>, Refresh(mode, open, FALSE)
  PROVE  ShelfInv'
<1>1. shelf' = shelf /\ libraryFile' = libraryFile /\ complaint' = complaint
  OBVIOUS
<1>2. /\ shown'.mode = mode /\ shown'.active = open
      /\ shown'.items = IF <<mode, open>> = <<shown.mode, shown.active>> THEN shown.items ELSE Listed(shelf, mode, open)
  BY <1>1 DEF Refresh
<1>3. shown'.items = Listed(shelf, mode, open) \/ (mode = shown.mode /\ open = shown.active /\ shown'.items = shown.items)
  BY <1>2
<1>4. QED
  BY <1>1, <1>2, <1>3 DEF ShelfInv, ReadOnly, NothingUnsaidIsLost

\* Other recent plays within the limit leave a library.
LEMMA RecentChanged ==
  ASSUME NEW s, IsLibrary(s), NEW q, Once(q), Len(q) <= MaxRecent
  PROVE  IsLibrary([s EXCEPT !.recent = q])
<1> DEFINE t == [s EXCEPT !.recent = q]
<1>1. t \in Library /\ t.recent = q /\ t.playlists = s.playlists
  BY DEF IsLibrary, Library, Once
<1> HIDE DEF t
<1>2. IsLibrary(t)
  BY <1>1 DEF IsLibrary
<1>3. QED
  BY <1>2 DEF t

\* So do other favourites.
LEMMA FavoritesChanged ==
  ASSUME NEW s, IsLibrary(s), NEW F \in SUBSET Tune
  PROVE  IsLibrary([s EXCEPT !.favorites = F])
<1> DEFINE t == [s EXCEPT !.favorites = F]
<1>1. t \in Library /\ t.recent = s.recent /\ t.playlists = s.playlists
  BY DEF IsLibrary, Library
<1> HIDE DEF t
<1>2. IsLibrary(t)
  BY <1>1 DEF IsLibrary
<1>3. QED
  BY <1>2 DEF t

\* So do other playlists within the limits.
LEMMA PlaylistsChanged ==
  ASSUME NEW s, IsLibrary(s), NEW names \in SUBSET Playlist, NEW P \in [names -> Seq(Tune)],
         IsFiniteSet(names), Cardinality(names) <= MaxPlaylists,
         \A n \in names : Once(P[n]) /\ Len(P[n]) <= MaxTunes
  PROVE  IsLibrary([s EXCEPT !.playlists = P])
<1> DEFINE t == [s EXCEPT !.playlists = P]
<1>1. P \in PlaylistSets /\ DOMAIN P = names
  BY DEF PlaylistSets
<1>2. t \in Library /\ t.recent = s.recent /\ t.playlists = P
  BY <1>1 DEF IsLibrary, Library
<1> HIDE DEF t
<1>3. IsLibrary(t)
  BY <1>1, <1>2 DEF IsLibrary
<1>4. QED
  BY <1>3 DEF t

\* What a library's playlists are.
LEMMA PlaylistsOf ==
  ASSUME IsLibrary(shelf)
  PROVE  /\ PlaylistNames(shelf) \in SUBSET Playlist /\ IsFiniteSet(PlaylistNames(shelf))
         /\ Cardinality(PlaylistNames(shelf)) <= MaxPlaylists /\ Cardinality(PlaylistNames(shelf)) \in Nat
         /\ \A n \in PlaylistNames(shelf) : Once(shelf.playlists[n]) /\ Len(shelf.playlists[n]) <= MaxTunes
<1>1. shelf.playlists \in PlaylistSets
  BY DEF IsLibrary, Library
<1>2. PICK names \in SUBSET Playlist : shelf.playlists \in [names -> Seq(Tune)]
  BY <1>1 DEF PlaylistSets
<1>3. PlaylistNames(shelf) = names
  BY <1>2 DEF PlaylistNames
<1>4. QED
  BY <1>3, FS_CardinalityType DEF IsLibrary, PlaylistNames

\* Playing a song puts it in front; a heart turns it in or out of the favourites.
LEMMA SongsKeep ==
  ASSUME ShelfInv, NEW t \in Tune, RecordPlay(t) \/ ToggleFavorite(t)
  PROVE  ShelfInv'
<1>1. CASE ReadOnly
  BY <1>1, RefusalKeeps DEF RecordPlay, ToggleFavorite, Refused
<1>2. CASE ~ReadOnly /\ RecordPlay(t)
  <2> DEFINE q == Firsts(<<t>> \o Excluding(shelf.recent, {t}))
             s == [shelf EXCEPT !.recent = q]
  <2>1. Once(q) /\ Len(q) <= MaxRecent
    BY FirstsOnce DEF ShelfInv, IsLibrary
  <2>2. Save(s, shown.mode, shown.active, Here)
    BY <1>2 DEF RecordPlay
  <2> HIDE DEF q
  <2>3. IsLibrary(s)
    BY <2>1, RecentChanged DEF ShelfInv
  <2> HIDE DEF s
  <2>4. QED
    BY <2>2, <2>3, SavingKeeps
<1>3. CASE ~ReadOnly /\ ToggleFavorite(t)
  <2> DEFINE F == IF t \in shelf.favorites THEN shelf.favorites \ {t} ELSE shelf.favorites \union {t}
             s == [shelf EXCEPT !.favorites = F]
  <2>1. F \in SUBSET Tune
    BY DEF ShelfInv, IsLibrary, Library
  <2>2. Save(s, shown.mode, shown.active, Here)
    BY <1>3 DEF ToggleFavorite
  <2> HIDE DEF F
  <2>3. IsLibrary(s)
    BY <2>1, FavoritesChanged DEF ShelfInv
  <2> HIDE DEF s
  <2>4. QED
    BY <2>2, <2>3, SavingKeeps
<1>4. QED
  BY <1>1, <1>2, <1>3

\* A playlist with other songs, or a new one within the limit.
LEMMA WithKeeps ==
  ASSUME ShelfInv, NEW name \in Playlist, NEW tunes, Once(tunes), Len(tunes) <= MaxTunes,
         name \in PlaylistNames(shelf) \/ Cardinality(PlaylistNames(shelf)) < MaxPlaylists
  PROVE  IsLibrary([shelf EXCEPT !.playlists = With(name, tunes)])
<1> DEFINE old == PlaylistNames(shelf)
           new == old \union {name}
           P == With(name, tunes)
<1>1. /\ old \in SUBSET Playlist /\ IsFiniteSet(old) /\ Cardinality(old) <= MaxPlaylists /\ Cardinality(old) \in Nat
      /\ \A n \in old : Once(shelf.playlists[n]) /\ Len(shelf.playlists[n]) <= MaxTunes
  BY PlaylistsOf DEF ShelfInv
<1>2. P = [n \in new |-> IF n = name THEN tunes ELSE shelf.playlists[n]]
  BY DEF With
<1>3. MaxPlaylists \in Nat
  BY MusicShelfConstants
<1>4. \A n \in new : Once(IF n = name THEN tunes ELSE shelf.playlists[n])
                     /\ Len(IF n = name THEN tunes ELSE shelf.playlists[n]) <= MaxTunes
  BY <1>1
<1>5. IsFiniteSet(new) /\ Cardinality(new) <= MaxPlaylists
  <2>1. IsFiniteSet(new) /\ Cardinality(new) = IF name \in old THEN Cardinality(old) ELSE Cardinality(old) + 1
    BY <1>1, FS_AddElement
  <2>2. QED
    BY <1>1, <1>3, <2>1
<1> HIDE DEF old
<1>6. P \in [new -> Seq(Tune)] /\ new \in SUBSET Playlist
  BY <1>1, <1>2, <1>4 DEF Once
<1>7. \A n \in new : Once(P[n]) /\ Len(P[n]) <= MaxTunes
  BY <1>2, <1>4
<1> HIDE DEF new, P
<1>8. IsLibrary([shelf EXCEPT !.playlists = P])
  BY <1>5, <1>6, <1>7, PlaylistsChanged DEF ShelfInv
<1>9. QED
  BY <1>8 DEF P

\* Making, filling and deleting playlists.
LEMMA PlaylistsKeep ==
  ASSUME ShelfInv,
         DeletePlaylist \/ (\E n \in Playlist : CreatePlaylist(n)) \/ (\E t \in Tune : TogglePlaylistTune(t))
  PROVE  ShelfInv'
<1> DEFINE names == PlaylistNames(shelf)
<1>1. /\ names \in SUBSET Playlist /\ IsFiniteSet(names) /\ Cardinality(names) <= MaxPlaylists /\ Cardinality(names) \in Nat
      /\ \A n \in names : Once(shelf.playlists[n]) /\ Len(shelf.playlists[n]) <= MaxTunes
  BY PlaylistsOf DEF ShelfInv
<1>2. MaxPlaylists \in Nat /\ MaxTunes \in Nat
  BY MusicShelfConstants
<1>3. CASE \E n \in Playlist : CreatePlaylist(n)
  <2>1. PICK n \in Playlist : CreatePlaylist(n)
    BY <1>3
  <2>2. CASE ReadOnly \/ n \in names \/ Cardinality(names) >= MaxPlaylists
    BY <2>1, <2>2, RefusalKeeps DEF CreatePlaylist, Refused
  <2>3. CASE ~(ReadOnly \/ n \in names \/ Cardinality(names) >= MaxPlaylists)
    <3> DEFINE s == [shelf EXCEPT !.playlists = With(n, <<>>)]
    <3>1. Once(<<>>) /\ Len(<<>>) <= MaxTunes
      BY <1>2 DEF Once, IsInjective
    <3>2. IsLibrary(s)
      BY <1>1, <1>2, <2>3, <3>1, WithKeeps
    <3>3. Save(s, "playlist", n, <<"playlist", n>>)
      BY <2>1, <2>3 DEF CreatePlaylist
    <3> HIDE DEF s
    <3>4. QED
      BY <3>2, <3>3, SavingKeeps
  <2>4. QED
    BY <2>2, <2>3
<1>4. CASE DeletePlaylist
  <2>1. CASE ReadOnly \/ shown.active \notin names
    BY <1>4, <2>1, RefusalKeeps DEF DeletePlaylist, Refused
  <2>2. CASE ~(ReadOnly \/ shown.active \notin names)
    <3> DEFINE left == names \ {shown.active}
               P == [n \in left |-> shelf.playlists[n]]
               s == [shelf EXCEPT !.playlists = P]
    <3>1. left \in SUBSET names /\ left \in SUBSET Playlist
      BY <1>1
    <3>2. IsFiniteSet(left) /\ Cardinality(left) <= Cardinality(names) /\ Cardinality(left) \in Nat
      BY <1>1, <3>1, FS_Subset, FS_CardinalityType
    <3>3. Cardinality(left) <= MaxPlaylists
      BY <1>1, <1>2, <3>2
    <3>4. P \in [left -> Seq(Tune)] /\ \A n \in left : Once(P[n]) /\ Len(P[n]) <= MaxTunes
      BY <1>1 DEF Once
    <3>5. Save(s, "playlists", NoPlaylist, Here)
      BY <1>4, <2>2 DEF DeletePlaylist
    <3> HIDE DEF left, P
    <3>6. IsLibrary(s)
      BY <3>1, <3>2, <3>3, <3>4, PlaylistsChanged DEF ShelfInv
    <3> HIDE DEF s
    <3>7. QED
      BY <3>5, <3>6, SavingKeeps
  <2>3. QED
    BY <2>1, <2>2
<1>5. CASE \E t \in Tune : TogglePlaylistTune(t)
  <2>1. PICK t \in Tune : TogglePlaylistTune(t)
    BY <1>5
  <2>2. CASE ReadOnly \/ shown.active \notin names
    BY <2>1, <2>2, RefusalKeeps DEF TogglePlaylistTune, Refused
  <2>3. CASE ~(ReadOnly \/ shown.active \notin names)
    <3> DEFINE tunes == shelf.playlists[shown.active]
               member == \E i \in DOMAIN tunes : tunes[i] = t
               after == IF member THEN Excluding(tunes, {t}) ELSE Append(tunes, t)
               s == [shelf EXCEPT !.playlists = With(shown.active, after)]
    <3>1. Once(tunes) /\ Len(tunes) <= MaxTunes
      BY <1>1, <2>3
    <3>2. CASE ~member /\ Len(tunes) >= MaxTunes
      BY <2>1, <2>3, <3>2, RefusalKeeps DEF TogglePlaylistTune, Refused
    <3>3. CASE ~(~member /\ Len(tunes) >= MaxTunes)
      <4>1. Len(tunes) \in Nat
        BY <3>1, LenProperties DEF Once
      <4>2. Save(s, shown.mode, shown.active, Here)
        BY <2>1, <2>3, <3>3 DEF TogglePlaylistTune
      <4> HIDE DEF tunes
      <4>3. Once(after) /\ Len(after) <= MaxTunes
        <5>1. CASE member
          <6>1. after = Excluding(tunes, {t}) /\ Len(Excluding(tunes, {t})) <= Len(tunes) /\ Once(Excluding(tunes, {t}))
            BY <3>1, <5>1, ExcludingOnce
          <6>2. Len(after) \in Nat
            BY <6>1, LenProperties DEF Once
          <6> HIDE DEF after
          <6>3. QED
            BY <1>2, <3>1, <4>1, <6>1, <6>2
        <5>2. CASE ~member
          <6>1. after = Append(tunes, t) /\ t \notin ToSet(tunes) /\ Len(tunes) < MaxTunes
            BY <1>2, <3>3, <4>1, <5>2 DEF ToSet
          <6>2. Append(tunes, t) \in Seq(Tune) /\ IsInjective(Append(tunes, t)) /\ Len(Append(tunes, t)) = Len(tunes) + 1
            BY <3>1, <6>1, AppendNew DEF Once
          <6> HIDE DEF after
          <6>3. QED
            BY <1>2, <4>1, <6>1, <6>2 DEF Once
        <5>3. QED
          BY <5>1, <5>2
      <4> HIDE DEF after
      <4>4. IsLibrary(s)
        BY <1>1, <2>3, <4>3, WithKeeps
      <4> HIDE DEF s
      <4>5. QED
        BY <4>2, <4>4, SavingKeeps
    <3>4. QED
      BY <3>2, <3>3
  <2>4. QED
    BY <2>2, <2>3
<1>6. QED
  BY <1>3, <1>4, <1>5

\* Every step of the shelf.
LEMMA ShelfSteps == ShelfInv /\ [ShelfNext]_shelfVars => ShelfInv'
<1> SUFFICES ASSUME ShelfInv, [ShelfNext]_shelfVars PROVE ShelfInv'
  OBVIOUS
<1>1. CASE \E t \in Tune : RecordPlay(t) \/ ToggleFavorite(t)
  BY <1>1, SongsKeep
<1>2. CASE DeletePlaylist \/ (\E n \in Playlist : CreatePlaylist(n)) \/ (\E t \in Tune : TogglePlaylistTune(t))
  BY <1>2, PlaylistsKeep
<1>3. CASE \E n \in Playlist : OpenPlaylist(n)
  BY <1>3, LookingKeeps DEF OpenPlaylist
<1>4. CASE \E mode \in {"songs", "recent", "favorites", "playlists"} : Browse(mode)
  BY <1>4, LookingKeeps DEF Browse
<1>5. CASE ReloadShelf
  <2>1. /\ shelf' = IF ReadOnly THEN EmptyShelf ELSE libraryFile
        /\ complaint' = ReadOnly /\ shown' = OpenedOn(shelf') /\ libraryFile' = libraryFile
    BY <1>5 DEF ReloadShelf
  <2>2. IsLibrary(shelf')
    BY <2>1, EmptyIsLibrary DEF ShelfInv
  <2>3. shown'.mode = "songs" /\ shown'.items = <<>>
    BY <2>1 DEF OpenedOn
  <2>4. Listed(shelf', "songs", shown'.active) = <<>>
    BY DEF Listed
  <2>5. NothingUnsaidIsLost'
    BY <2>1, <2>3, <2>4 DEF NothingUnsaidIsLost
  <2>6. QED
    BY <2>1, <2>2, <2>5 DEF ShelfInv, ReadOnly
<1>6. CASE UNCHANGED shelfVars
  BY <1>6, RefusalKeeps
<1>7. QED
  BY <1>1, <1>2, <1>3, <1>4, <1>5, <1>6 DEF ShelfNext

\* The music page shows the song that is heard, with its pauses, never a change
\* that was not written without saying so, no song twice in its lists, and
\* never the same song twice in a row of a shuffle.
THEOREM MusicShown == MusicSpec /\ ShelfSpec => MusicIsAsShown
<1>1. MusicInit => PlayerInv
  <2> SUFFICES ASSUME MusicInit PROVE PlayerInv
    OBVIOUS
  <2>1. 1 \in Song /\ 0 \in 0..LastSong /\ 0 \in 0..Duration /\ <<>> \in Queues
    BY MusicConstants DEF Song, Queues
  <2>2. music \in Session /\ music.state = "stopped" /\ music.queue = <<>>
    BY <2>1 DEF MusicInit, NewSession, Session
  <2>3. sound = Silence /\ Silence \in Sounds
    BY DEF MusicInit, Silence, Sounds
  <2>4. QED
    BY <2>2, <2>3 DEF PlayerInv, PlayerTyped, SoundMatchesView, OrderIsPlayed, Active, Running
<1>2. PlayerInv /\ [MusicNext]_musicVars => PlayerInv'
  BY PlayerSteps
<1>3. PlayerInv /\ [MusicNext]_musicVars => [ShuffleMove]_musicVars
  BY PlayerSteps
<1>4. PlayerInv => MusicTypeOK /\ SoundMatchesView
  BY DEF PlayerInv, PlayerTyped, MusicTypeOK, Session
<1>5. ShelfInit => ShelfInv
  <2> SUFFICES ASSUME ShelfInit PROVE ShelfInv
    OBVIOUS
  <2>1. IsLibrary(shelf) /\ (IsLibrary(libraryFile) \/ ReadOnly)
    BY EmptyIsLibrary DEF ShelfInit, ReadOnly
  <2>2. shown.mode = "songs" /\ shown.items = <<>>
    BY DEF ShelfInit, OpenedOn
  <2>3. Listed(shelf, "songs", shown.active) = <<>>
    BY DEF Listed
  <2>4. ~complaint => shelf = libraryFile
    BY DEF ShelfInit, ReadOnly
  <2>5. QED
    BY <2>1, <2>2, <2>3, <2>4 DEF ShelfInv, NothingUnsaidIsLost
<1>6. ShelfInv => NothingUnsaidIsLost /\ ListsStayWithinLimits
  BY OnceIsCounted DEF ShelfInv, IsLibrary, ListsStayWithinLimits, PlaylistNames
<1>7. MusicSpec => [](MusicTypeOK /\ SoundMatchesView) /\ [][ShuffleMove]_musicVars
  BY <1>1, <1>2, <1>3, <1>4, PTL DEF MusicSpec
<1>8. ShelfSpec => [](NothingUnsaidIsLost /\ ListsStayWithinLimits)
  BY <1>5, <1>6, ShelfSteps, PTL DEF ShelfSpec
<1>9. QED
  BY <1>7, <1>8, PTL DEF MusicIsAsShown, ShuffleMovesOn, ShuffleMove

(***************************************************************************)
(* The calendar's events                                                   *)
(***************************************************************************)

EventRecord == [start : Date, every : Nat, count : 1..Forever, excluded : SUBSET Date,
                parent : EventId \union {NoEvent}]
EventsOK(es) == DOMAIN es \subseteq EventId /\ \A i \in DOMAIN es : es[i] \in EventRecord
View == [mode : {"closed", "day", "editor", "scope"}, date : Date, chosen : EventId \union {NoEvent},
         ask : {"none", "save", "delete"}, edit : Edits \union {AnyEdit}]

\* What is chosen occurs on the day shown, and a question is about something chosen.
ChosenOccurs(v, es) == v.chosen # NoEvent => v.chosen \in DOMAIN es /\ Occurs(es[v.chosen], v.date)
Questioned(v) == v.mode = "scope" => v.ask # "none" /\ (v.ask = "save" => v.edit \in Edits)
ViewOK(v, es) == v \in View /\ Questioned(v) /\ ChosenOccurs(v, es) /\ (v.mode = "scope" => v.chosen # NoEvent)

CalendarInv == EventsOK(events) /\ ViewOK(calendar, events)

\* The record of an edit.
LEMMA SeriesIs ==
  ASSUME NEW edit \in Edits
  PROVE  Series(edit) \in EventRecord /\ Series(<<edit[1], 0, Forever>>) \in EventRecord /\ edit[1] \in Date
<1>1. edit \in (0..LastDate) \X Nat \X (1..Forever) /\ Forever \in Nat /\ Forever > LastDate /\ LastDate \in Nat
  BY CalendarConstants DEF CalendarConstants
<1>2. edit[1] \in Date /\ edit[2] \in Nat /\ edit[3] \in 1..Forever
  BY <1>1 DEF Date
<1>3. 0 \in Nat /\ Forever \in 1..Forever
  BY <1>1
<1>4. QED
  BY <1>2, <1>3 DEF Series, EventRecord

\* A record put among the others.
LEMMA PutKeeps ==
  ASSUME NEW es, EventsOK(es), NEW i \in EventId, NEW e \in EventRecord
  PROVE  /\ EventsOK(Put(es, i, e)) /\ DOMAIN Put(es, i, e) = DOMAIN es \union {i}
         /\ Put(es, i, e)[i] = e /\ \A j \in DOMAIN es : j # i => Put(es, i, e)[j] = es[j]
  BY DEF Put, EventsOK

\* One date taken out leaves the others.
LEMMA ExcludeIs ==
  ASSUME EventsOK(events), NEW i \in DOMAIN events, NEW d \in Date
  PROVE  /\ i \in EventId /\ Exclude(i, d) \in EventRecord
         /\ \A x \in Date : Occurs(Exclude(i, d), x) <=> Occurs(events[i], x) /\ x # d
<1>1. i \in EventId /\ events[i] \in EventRecord
  BY DEF EventsOK
<1>2. /\ Exclude(i, d) \in EventRecord /\ Exclude(i, d).start = events[i].start
      /\ Exclude(i, d).every = events[i].every /\ Exclude(i, d).count = events[i].count
      /\ Exclude(i, d).excluded = events[i].excluded \union {d}
  BY <1>1 DEF Exclude, EventRecord
<1>3. \A x \in Date : Follows(Exclude(i, d), x) <=> Follows(events[i], x)
  BY <1>2 DEF Follows, Nth
<1>4. QED
  BY <1>1, <1>2, <1>3 DEF Occurs

\* What is shown keeps what is chosen if it still occurs.
LEMMA ShowKeeps ==
  ASSUME NEW v \in View, Questioned(v), NEW es, EventsOK(es), Show(v, es),
         v.mode = "scope" => v.chosen # NoEvent /\ ChosenOccurs(v, es)
  PROVE  ViewOK(calendar', es)
<1>1. CASE v.chosen \in DOMAIN es /\ Occurs(es[v.chosen], v.date)
  BY <1>1 DEF Show, ViewOK, ChosenOccurs
<1>2. CASE ~(v.chosen \in DOMAIN es /\ Occurs(es[v.chosen], v.date))
  <2>1. calendar' = [v EXCEPT !.chosen = NoEvent]
    BY <1>2 DEF Show
  <2>2. v.mode # "scope"
    BY <1>2 DEF ChosenOccurs
  <2>3. /\ calendar' \in View /\ calendar'.chosen = NoEvent /\ calendar'.mode = v.mode
    BY <2>1 DEF View
  <2>4. QED
    BY <2>2, <2>3 DEF ViewOK, ChosenOccurs, Questioned
<1>3. QED
  BY <1>1, <1>2

\* A turn of the page changes no event.
LEMMA TurnKeeps ==
  ASSUME CalendarInv, NEW v \in View, Questioned(v), Turn(v),
         v.mode = "scope" => v.chosen # NoEvent /\ ChosenOccurs(v, events)
  PROVE  CalendarInv' /\ UNCHANGED <<events, scope>>
<1>1. UNCHANGED <<events, scope>> /\ ViewOK(calendar', events)
  BY ShowKeeps DEF Turn, CalendarInv
<1>2. QED
  BY <1>1 DEF CalendarInv

\* The views the steps turn to.
LEMMA ViewFields ==
  ASSUME NEW d \in Date
  PROVE  /\ ClosedView \in View /\ Questioned(ClosedView) /\ ClosedView.mode # "scope" /\ ClosedView.chosen = NoEvent
         /\ [ClosedView EXCEPT !.mode = "day", !.date = d] \in View
         /\ [ClosedView EXCEPT !.mode = "day", !.date = d].mode = "day"
<1>1. 0 \in Date
  BY CalendarConstants DEF CalendarConstants, Date
<1>2. QED
  BY <1>1 DEF ClosedView, View, Questioned

LEMMA UnaskedIs ==
  ASSUME calendar \in View, NEW m \in {"day", "editor"}
  PROVE  Unasked(m) \in View /\ Unasked(m).mode = m /\ Questioned(Unasked(m))
<1>1. Unasked(m) \in View /\ Unasked(m).mode = m
  BY DEF Unasked, View
<1>2. m # "scope"
  OBVIOUS
<1>3. QED
  BY <1>1, <1>2 DEF Questioned

\* A change is written and the page shows its date, or nothing is changed.
LEMMA CommitKeeps ==
  ASSUME CalendarInv, NEW changes, \A es \in changes : EventsOK(es), NEW s, NEW d \in Date,
         NEW refused \in View, Questioned(refused), refused.mode # "scope" \/ refused = calendar,
         Commit(changes, s, [ClosedView EXCEPT !.mode = "day", !.date = d], refused)
  PROVE  CalendarInv' /\ (events' # events => events' \in changes /\ scope' = s)
<1> DEFINE done == [ClosedView EXCEPT !.mode = "day", !.date = d]
<1>1. done \in View /\ done.mode = "day"
  BY ViewFields
<1> HIDE DEF done
<1>2. CASE events' \in changes /\ Show(done, events') /\ scope' = s
  <2>1. EventsOK(events') /\ Questioned(done)
    BY <1>1, <1>2 DEF Questioned
  <2>2. ViewOK(calendar', events')
    BY <1>1, <1>2, <2>1, ShowKeeps
  <2>3. QED
    BY <1>2, <2>1, <2>2 DEF CalendarInv
<1>3. CASE Turn(refused)
  <2>1. refused.mode = "scope" => refused.chosen # NoEvent /\ ChosenOccurs(refused, events)
    BY DEF CalendarInv, ViewOK
  <2>2. QED
    BY <1>3, <2>1, TurnKeeps
<1>4. QED
  BY <1>2, <1>3 DEF Commit, done

\* A deletion leaves records.
LEMMA DeletedIs == ASSUME EventsOK(events), NEW i PROVE \A es \in Deleted(i) : EventsOK(es)
  BY DEF Deleted, EventsOK

\* So do a new event and one replaced.
LEMMA ChangesAre ==
  ASSUME EventsOK(events), NEW edit \in Edits
  PROVE  /\ \A es \in Created(edit) : EventsOK(es)
         /\ \A i \in DOMAIN events : \A es \in Updated(i, edit) : EventsOK(es)
<1>1. Series(edit) \in EventRecord
  BY SeriesIs
<1>2. ASSUME NEW es \in Created(edit) PROVE EventsOK(es)
  <2>1. PICK i \in Fresh : es = Put(events, i, Series(edit))
    BY DEF Created
  <2>2. i \in EventId
    BY DEF Fresh
  <2>3. QED
    BY <1>1, <2>1, <2>2, PutKeeps
<1>3. ASSUME NEW i \in DOMAIN events, NEW es \in Updated(i, edit) PROVE EventsOK(es)
  <2> DEFINE e == [Series(edit) EXCEPT !.excluded = events[i].excluded, !.parent = events[i].parent]
  <2>1. es = Put(events, i, e)
    BY DEF Updated
  <2>2. i \in EventId /\ events[i] \in EventRecord
    BY DEF EventsOK
  <2>3. e \in EventRecord
    BY <1>1, <2>2 DEF EventRecord
  <2> HIDE DEF e
  <2>4. QED
    BY <2>1, <2>2, <2>3, PutKeeps
<1>4. QED
  BY <1>2, <1>3

\* One date is taken out of a series.
LEMMA ExcludedIs ==
  ASSUME EventsOK(events), NEW i \in DOMAIN events, NEW d \in Date
  PROVE  /\ EventsOK(Put(events, i, Exclude(i, d))) /\ Put(events, i, Exclude(i, d))[i] = Exclude(i, d)
         /\ DOMAIN Put(events, i, Exclude(i, d)) = DOMAIN events \union {i} /\ i \in EventId
<1>1. i \in EventId /\ Exclude(i, d) \in EventRecord
  BY ExcludeIs
<1>2. QED
  BY <1>1, PutKeeps

\* What replaces it is a record of its own.
LEMMA OverriddenIs ==
  ASSUME EventsOK(events), NEW i \in DOMAIN events, NEW d \in Date, NEW edit \in Edits
  PROVE  \A es \in Overridden(i, d, edit) :
             /\ EventsOK(es) /\ es[i] = Exclude(i, d)
             /\ \E j \in DOMAIN es \ DOMAIN events : es[j].parent = i
<1> DEFINE less == Put(events, i, Exclude(i, d))
           single == [Series(<<edit[1], 0, Forever>>) EXCEPT !.parent = i]
<1>1. EventsOK(less) /\ less[i] = Exclude(i, d) /\ DOMAIN less = DOMAIN events \union {i} /\ i \in EventId
  BY ExcludedIs
<1>2. i \in DOMAIN less
  BY <1>1
<1>3. single \in EventRecord /\ single.parent = i
  <2>1. Series(<<edit[1], 0, Forever>>) \in EventRecord
    BY SeriesIs
  <2>2. QED
    BY <1>1, <2>1 DEF EventRecord
<1>4. ASSUME NEW es \in Overridden(i, d, edit)
      PROVE  EventsOK(es) /\ es[i] = Exclude(i, d) /\ \E j \in DOMAIN es \ DOMAIN events : es[j].parent = i
  <2>1. PICK j \in Fresh : es = Put(less, j, single)
    BY DEF Overridden
  <2>2. j \in EventId /\ j \notin DOMAIN events /\ j # i
    BY DEF Fresh
  <2> HIDE DEF less, single
  <2>3. /\ EventsOK(Put(less, j, single)) /\ DOMAIN Put(less, j, single) = DOMAIN less \union {j}
        /\ Put(less, j, single)[j] = single
        /\ \A k \in DOMAIN less : k # j => Put(less, j, single)[k] = less[k]
    <3>1. EventsOK(less)
      BY <1>1
    <3>2. single \in EventRecord
      BY <1>3
    <3>3. QED
      BY <2>2, <3>1, <3>2, PutKeeps
  <2>4. es[i] = Exclude(i, d) /\ es[j].parent = i /\ j \in DOMAIN es \ DOMAIN events
    BY <1>1, <1>2, <1>3, <2>1, <2>2, <2>3
  <2>5. QED
    BY <2>1, <2>3, <2>4
<1>5. QED
  BY <1>4

\* What a step that changes one date only must do.
OneDate ==
    events' # events /\ scope' = "occurrence" =>
        LET i == Chosen IN
        /\ \A d \in Date : Occurs(events'[i], d) <=> Occurs(events[i], d) /\ d # calendar.date
        /\ calendar.ask = "save" => \E j \in DOMAIN events' \ DOMAIN events : events'[j].parent = i

\* Saving and deleting with a scope.
LEMMA ScopeKeeps ==
  ASSUME CalendarInv, NEW s \in {"occurrence", "series"}, CompleteScope(s)
  PROVE  CalendarInv' /\ OneDate
<1> DEFINE c == calendar.chosen
           d == calendar.date
           deleted == IF s = "occurrence" THEN {Put(events, c, Exclude(c, d))} ELSE Deleted(c)
           saved == IF s = "occurrence" THEN Overridden(c, d, calendar.edit) ELSE Updated(c, calendar.edit)
<1>1. /\ calendar.mode = "scope" /\ c # NoEvent
      /\ \/ calendar.ask = "save" /\ SaveEvent(calendar.edit, s, Unasked("editor"))
         \/ calendar.ask = "delete" /\ DeleteEvent(s)
  BY DEF CompleteScope, Chosen
<1>2. /\ EventsOK(events) /\ calendar \in View /\ c \in DOMAIN events /\ d \in Date
      /\ calendar.ask = "save" => calendar.edit \in Edits
  BY <1>1 DEF CalendarInv, ViewOK, Questioned, ChosenOccurs, View
<1>3. /\ Unasked("editor") \in View /\ Questioned(Unasked("editor")) /\ Unasked("editor").mode # "scope"
      /\ Unasked("day") \in View /\ Questioned(Unasked("day")) /\ Unasked("day").mode # "scope"
  <2>1. "editor" # "scope" /\ "day" # "scope"
    OBVIOUS
  <2>2. QED
    BY <1>2, <2>1, UnaskedIs
<1>4. \A x \in Date : Occurs(Exclude(c, d), x) <=> Occurs(events[c], x) /\ x # d
  BY <1>2, ExcludeIs
<1>5. CASE calendar.ask = "delete" /\ DeleteEvent(s)
  <2>1. Commit(deleted, s, [ClosedView EXCEPT !.mode = "day", !.date = d], Unasked("day"))
    BY <1>5 DEF DeleteEvent, Chosen
  <2>2. EventsOK(Put(events, c, Exclude(c, d))) /\ Put(events, c, Exclude(c, d))[c] = Exclude(c, d)
    BY <1>2, ExcludedIs
  <2>3. \A es \in deleted : EventsOK(es) /\ (s = "occurrence" => es[c] = Exclude(c, d))
    BY <1>2, <2>2, DeletedIs
  <2> HIDE DEF deleted
  <2>4. CalendarInv' /\ (events' # events => events' \in deleted /\ scope' = s)
    BY <1>2, <1>3, <2>1, <2>3, CommitKeeps
  <2>5. QED
    BY <1>4, <1>5, <2>3, <2>4 DEF OneDate, Chosen
<1>6. CASE calendar.ask = "save" /\ SaveEvent(calendar.edit, s, Unasked("editor"))
  <2>1. Commit(saved, s, [ClosedView EXCEPT !.mode = "day", !.date = calendar.edit[1]], Unasked("editor"))
    BY <1>1, <1>6 DEF SaveEvent, Chosen
  <2>2. calendar.edit \in Edits /\ calendar.edit[1] \in Date
    BY <1>2, <1>6, SeriesIs
  <2>3. \A es \in saved : /\ EventsOK(es)
                          /\ s = "occurrence" => /\ es[c] = Exclude(c, d)
                                                 /\ \E j \in DOMAIN es \ DOMAIN events : es[j].parent = c
    BY <1>2, <2>2, ChangesAre, OverriddenIs
  <2> HIDE DEF saved
  <2>4. CalendarInv' /\ (events' # events => events' \in saved /\ scope' = s)
    BY <1>2, <1>3, <2>1, <2>2, <2>3, CommitKeeps
  <2>5. QED
    BY <1>4, <2>3, <2>4 DEF OneDate, Chosen
<1>7. QED
  BY <1>1, <1>5, <1>6

\* Without a question the whole event is changed.
LEMMA SingleKeeps ==
  ASSUME CalendarInv, NEW edit \in Edits, ChangeSingle(edit)
  PROVE  CalendarInv' /\ OneDate
<1> DEFINE c == calendar.chosen
           saved == IF c = NoEvent THEN Created(edit) ELSE Updated(c, edit)
<1>1. /\ EventsOK(events) /\ calendar \in View /\ Questioned(calendar) /\ calendar.date \in Date
      /\ c # NoEvent => c \in DOMAIN events
  BY DEF CalendarInv, ViewOK, ChosenOccurs, View
<1>2. CASE calendar.mode = "editor" /\ SaveEvent(edit, "series", calendar)
  <2>1. Commit(saved, "series", [ClosedView EXCEPT !.mode = "day", !.date = edit[1]], calendar)
    BY <1>2 DEF SaveEvent, Chosen
  <2>2. edit[1] \in Date
    BY SeriesIs
  <2>3. \A es \in saved : EventsOK(es)
    BY <1>1, ChangesAre
  <2> HIDE DEF saved
  <2>4. CalendarInv' /\ (events' # events => scope' = "series")
    BY <1>1, <2>1, <2>2, <2>3, CommitKeeps
  <2>5. QED
    BY <2>4 DEF OneDate
<1>3. CASE calendar.mode = "day" /\ c # NoEvent /\ DeleteEvent("series")
  <2>1. Commit(Deleted(c), "series", [ClosedView EXCEPT !.mode = "day", !.date = calendar.date], Unasked("day"))
    BY <1>3 DEF DeleteEvent, Chosen
  <2>2. \A es \in Deleted(c) : EventsOK(es)
    BY <1>1, DeletedIs
  <2>3. Unasked("day") \in View /\ Questioned(Unasked("day")) /\ Unasked("day").mode = "day"
    BY <1>1, UnaskedIs
  <2>4. CalendarInv' /\ (events' # events => scope' = "series")
    BY <1>1, <2>1, <2>2, <2>3, CommitKeeps
  <2>5. QED
    BY <2>4 DEF OneDate
<1>4. QED
  BY <1>2, <1>3 DEF ChangeSingle, Chosen

\* Turning pages, choosing, editing and asking change no event.
LEMMA PagesKeep ==
  ASSUME CalendarInv,
         \/ OpenCalendar \/ CloseCalendar \/ CancelEdit
         \/ \E d \in Date : GoTo(d)
         \/ \E i \in EventId : Select(i)
         \/ \E adding \in BOOLEAN : Edit(adding)
         \/ \E edit \in Edits : Ask("save", edit)
         \/ Ask("delete", AnyEdit)
  PROVE  CalendarInv' /\ events' = events
<1>1. /\ calendar \in View /\ Questioned(calendar) /\ ChosenOccurs(calendar, events)
      /\ calendar.date \in Date /\ calendar.chosen \in EventId \union {NoEvent}
      /\ calendar.ask \in {"none", "save", "delete"} /\ calendar.edit \in Edits \union {AnyEdit}
  BY DEF CalendarInv, ViewOK, View
<1>2. ASSUME NEW v \in View, Turn(v), v.mode # "scope" PROVE CalendarInv' /\ events' = events
  <2>1. Questioned(v)
    BY <1>2 DEF Questioned
  <2>2. QED
    BY <1>2, <2>1, TurnKeeps
<1>3. CASE OpenCalendar
  <2>1. PICK d \in Date : Turn([ClosedView EXCEPT !.mode = "day", !.date = d])
    BY <1>3 DEF OpenCalendar
  <2>2. "day" # "scope"
    OBVIOUS
  <2>3. QED
    BY <1>2, <2>1, <2>2, ViewFields
<1>4. CASE CloseCalendar
  <2>1. Turn(ClosedView)
    BY <1>4 DEF CloseCalendar
  <2>2. QED
    BY <1>1, <1>2, <2>1, ViewFields
<1>5. CASE CancelEdit
  <2>1. PICK m \in {"day", "editor"} : Turn(Unasked(m))
    BY <1>5 DEF CancelEdit
  <2>2. m # "scope"
    OBVIOUS
  <2>3. QED
    BY <1>1, <1>2, <2>1, <2>2, UnaskedIs
<1>6. ASSUME NEW d \in Date, GoTo(d) PROVE CalendarInv' /\ events' = events
  <2> DEFINE v == [calendar EXCEPT !.date = d, !.chosen = NoEvent]
  <2>1. Turn(v) /\ calendar.mode = "day"
    BY <1>6 DEF GoTo
  <2>2. v \in View /\ v.mode = calendar.mode
    BY <1>1 DEF View
  <2> HIDE DEF v
  <2>3. QED
    BY <1>2, <2>1, <2>2
<1>7. ASSUME NEW i \in EventId, Select(i) PROVE CalendarInv' /\ events' = events
  <2> DEFINE v == [calendar EXCEPT !.chosen = i]
  <2>1. Turn(v) /\ calendar.mode = "day"
    BY <1>7 DEF Select
  <2>2. v \in View /\ v.mode = calendar.mode
    BY <1>1 DEF View
  <2> HIDE DEF v
  <2>3. QED
    BY <1>2, <2>1, <2>2
<1>8. ASSUME NEW adding \in BOOLEAN, Edit(adding) PROVE CalendarInv' /\ events' = events
  <2> DEFINE v == [calendar EXCEPT !.mode = "editor", !.chosen = IF adding THEN NoEvent ELSE @]
  <2>1. Turn(v)
    BY <1>8 DEF Edit
  <2>2. v \in View /\ v.mode = "editor"
    BY <1>1 DEF View
  <2> HIDE DEF v
  <2>3. QED
    BY <1>2, <2>1, <2>2
<1>9. ASSUME NEW kind \in {"save", "delete"}, NEW edit \in Edits \union {AnyEdit}, kind = "save" => edit \in Edits,
             Ask(kind, edit)
      PROVE  CalendarInv' /\ events' = events
  <2> DEFINE v == [calendar EXCEPT !.mode = "scope", !.ask = kind, !.edit = edit]
  <2>1. Turn(v) /\ calendar.chosen # NoEvent
    BY <1>9 DEF Ask, Repeating, Chosen
  <2>2. /\ v \in View /\ v.ask = kind /\ v.edit = edit /\ v.chosen = calendar.chosen /\ v.date = calendar.date
    BY <1>1 DEF View
  <2> HIDE DEF v
  <2>3. Questioned(v) /\ v.chosen # NoEvent /\ ChosenOccurs(v, events)
    BY <1>1, <1>9, <2>1, <2>2 DEF Questioned, ChosenOccurs
  <2>4. QED
    BY <2>1, <2>2, <2>3, TurnKeeps
<1>10. CASE \E edit \in Edits : Ask("save", edit)
  BY <1>9, <1>10
<1>11. CASE Ask("delete", AnyEdit)
  BY <1>9, <1>11
<1>12. QED
  BY <1>3, <1>4, <1>5, <1>6, <1>7, <1>8, <1>10, <1>11

LEMMA CalendarStep == CalendarInv /\ [CalendarNext]_calendarVars => CalendarInv' /\ [OneDate]_calendarVars
<1> SUFFICES ASSUME CalendarInv, [CalendarNext]_calendarVars PROVE CalendarInv' /\ [OneDate]_calendarVars
  OBVIOUS
<1>1. CASE \E edit \in Edits : ChangeSingle(edit)
  BY <1>1, SingleKeeps
<1>2. CASE \E s \in {"occurrence", "series"} : CompleteScope(s)
  BY <1>2, ScopeKeeps
<1>3. CASE UNCHANGED calendarVars
  <2>1. UNCHANGED <<events, calendar>>
    BY <1>3 DEF calendarVars
  <2>2. CalendarInv'
    BY <2>1 DEF CalendarInv, EventsOK, ViewOK, ChosenOccurs
  <2>3. QED
    BY <1>3, <2>2
<1>4. CASE \/ OpenCalendar \/ CloseCalendar \/ CancelEdit
           \/ \E d \in Date : GoTo(d)
           \/ \E i \in EventId : Select(i)
           \/ \E adding \in BOOLEAN : Edit(adding)
           \/ \E edit \in Edits : Ask("save", edit)
           \/ Ask("delete", AnyEdit)
  <2>1. CalendarInv' /\ events' = events
    BY <1>4, PagesKeep
  <2>2. QED
    BY <2>1 DEF OneDate
<1>5. QED
  BY <1>1, <1>2, <1>3, <1>4 DEF CalendarNext

LEMMA CalendarBegins == CalendarInit => CalendarInv
<1> SUFFICES ASSUME CalendarInit PROVE CalendarInv
  OBVIOUS
<1>1. events = <<>> /\ calendar = ClosedView
  BY DEF CalendarInit
<1>2. EventsOK(events)
  BY <1>1 DEF EventsOK
<1>3. 0 \in Date
  BY CalendarConstants DEF CalendarConstants, Date
<1>4. ViewOK(calendar, events)
  BY <1>1, <1>3, ViewFields DEF ViewOK, ChosenOccurs
<1>5. QED
  BY <1>2, <1>4 DEF CalendarInv

\* Every event is a record the store accepts, and a question is about an event
\* that occurs on the day shown, for any events and edits (CalendarStore, the
\* touch view of the calendar).
THEOREM CalendarTyped == CalendarSpec => []CalendarTypeOK
<1>1. CalendarInv => CalendarTypeOK
  BY DEF CalendarInv, EventsOK, EventRecord, ViewOK, View, Questioned, CalendarTypeOK, Chosen
<1>2. CalendarInv /\ [CalendarNext]_calendarVars => CalendarInv'
  BY CalendarStep
<1>3. QED
  BY CalendarBegins, <1>1, <1>2, PTL DEF CalendarSpec

\* A change of one occurrence takes that date, and no other, from its series, and
\* an edited one is replaced in the same write, for any rule, count and earlier
\* exclusions (override_occurrence, exclude_occurrence).
THEOREM DatesChangeOneByOne == CalendarSpec => OneDateChanges
<1>1. CalendarInv /\ [CalendarNext]_calendarVars => CalendarInv' /\ [OneDate]_calendarVars
  BY CalendarStep
<1>2. QED
  BY CalendarBegins, <1>1, PTL DEF CalendarSpec, OneDateChanges, OneDate

(***************************************************************************)
(* The attentions of the calendar                                          *)
(***************************************************************************)

NoticeId == Entry \X (0..LastDay)

NoticeTyped ==
    /\ day \in 0..LastDay /\ (lastDate \in 0..day \/ lastDate = NoDay) /\ occurring \subseteq Entry
    /\ acknowledged \subseteq NoticeId /\ published \subseteq NoticeId /\ noticed \subseteq NoticeId
    /\ publishing \in [PublishThread -> [pc : {"idle", "tell", "record"}, current : SUBSET NoticeId]]
    /\ overlapped \in BOOLEAN
    /\ \A t \in PublishThread : publishing[t].pc = "idle" => publishing[t] = Resting

\* Without an overlap one thread at most publishes, what is due by now; what it
\* has told is on the face, and what was published before is all there is else.
Alone ==
    /\ \A t, u \in PublishThread : publishing[t] # Resting /\ publishing[u] # Resting => t = u
    /\ \A t \in PublishThread : publishing[t] # Resting => publishing[t].current = NoticeDue(occurring)
    /\ \A t \in PublishThread : publishing[t].pc = "tell" => noticed = published
    /\ \A t \in PublishThread : publishing[t].pc = "record" => noticed = publishing[t].current
    /\ Nobody => noticed = published
NoticeInv == NoticeTyped /\ (~overlapped => Alone /\ Settled)

LEMMA NoticeBegins == NoticeInit => NoticeInv
<1> SUFFICES ASSUME NoticeInit PROVE NoticeInv
  OBVIOUS
<1>1. /\ day = 0 /\ occurring \in SUBSET Entry /\ acknowledged = {} /\ published = {} /\ noticed = {}
      /\ lastDate = NoDay /\ overlapped = FALSE
      /\ publishing = [t \in PublishThread |-> [pc |-> "idle", current |-> {}]]
  BY DEF NoticeInit, Resting
<1>2. LastDay \in Nat
  BY CalendarAttentionsConstants DEF CalendarAttentionsConstants
<1>3. NoticeTyped
  <2>1. publishing \in [PublishThread -> [pc : {"idle", "tell", "record"}, current : SUBSET NoticeId]]
    BY <1>1
  <2>2. \A t \in PublishThread : publishing[t] = Resting
    BY <1>1 DEF Resting
  <2>3. day \in 0..LastDay /\ occurring \subseteq Entry
    BY <1>1, <1>2
  <2>4. QED
    BY <1>1, <2>1, <2>2, <2>3 DEF NoticeTyped
<1>4. lastDate # day
  BY <1>1, <1>2 DEF NoDay
<1>5. Alone /\ Settled
  BY <1>1, <1>4 DEF Alone, Settled, Resting
<1>6. QED
  BY <1>3, <1>5 DEF NoticeInv

\* What is due is of the day and not acknowledged.
LEMMA DueIs ==
  ASSUME NoticeTyped, NEW entries \in SUBSET Entry
  PROVE  NoticeDue(entries) \subseteq NoticeId
  BY DEF NoticeTyped, NoticeDue, NoticeId

\* A publication begins.
LEMMA ComputeKeeps ==
  ASSUME NoticeInv, NEW t \in PublishThread, NEW entries \in SUBSET Entry, Compute(t, entries),
         occurring' = entries, UNCHANGED <<day, acknowledged, published, noticed>>,
         lastDate' \in {lastDate, day}
  PROVE  NoticeInv'
<1> DEFINE dueNow == NoticeDue(entries)
<1>1. /\ publishing[t] = Resting /\ publishing' = [publishing EXCEPT ![t] = [pc |-> "tell", current |-> dueNow]]
      /\ overlapped' = (overlapped \/ ~Nobody)
  BY DEF Compute
<1>2. dueNow \subseteq NoticeId
  BY DueIs DEF NoticeInv
<1>3. NoticeDue(occurring)' = dueNow
  BY DEF NoticeDue
<1> HIDE DEF dueNow
<1>4. /\ publishing'[t] = [pc |-> "tell", current |-> dueNow]
      /\ \A u \in PublishThread : u # t => publishing'[u] = publishing[u]
  BY <1>1 DEF NoticeInv, NoticeTyped
<1>5. [pc |-> "tell", current |-> dueNow] # Resting
  BY DEF Resting
<1>6. NoticeTyped'
  <2>1. publishing' \in [PublishThread -> [pc : {"idle", "tell", "record"}, current : SUBSET NoticeId]]
    BY <1>1, <1>2 DEF NoticeInv, NoticeTyped
  <2>2. \A u \in PublishThread : publishing'[u].pc = "idle" => publishing'[u] = Resting
    BY <1>4 DEF NoticeInv, NoticeTyped
  <2>3. lastDate' \in 0..day \/ lastDate' = NoDay
    BY DEF NoticeInv, NoticeTyped
  <2>4. QED
    BY <1>1, <2>1, <2>2, <2>3 DEF NoticeInv, NoticeTyped
<1>7. ASSUME ~overlapped' PROVE Alone' /\ Settled'
  <2>1. Nobody /\ noticed = published
    BY <1>1, <1>7 DEF NoticeInv, Alone
  <2>2. \A u \in PublishThread : u # t => publishing'[u] = Resting
    BY <1>4, <2>1 DEF Nobody
  <2>3. ~Nobody'
    BY <1>4, <1>5 DEF Nobody
  <2>4. \A u \in PublishThread : u # t => publishing'[u].pc = "idle"
    BY <2>2 DEF Resting
  <2>5. QED
    BY <1>3, <1>4, <2>1, <2>2, <2>3, <2>4 DEF Alone, Settled
<1>8. QED
  BY <1>6, <1>7 DEF NoticeInv

\* The second step of a publication.
LEMMA TellKeeps == ASSUME NoticeInv, NEW t \in PublishThread, Tell(t) PROVE NoticeInv'
<1> DEFINE current == publishing[t].current
           told == (noticed \ (published \ current)) \union current
<1>1. /\ publishing[t].pc = "tell" /\ noticed' = told /\ publishing' = [publishing EXCEPT ![t].pc = "record"]
      /\ UNCHANGED <<day, occurring, acknowledged, published, lastDate, overlapped>>
  BY DEF Tell
<1>2. publishing[t] # Resting /\ current \subseteq NoticeId
  BY <1>1 DEF NoticeInv, NoticeTyped, Resting
<1>3. /\ publishing'[t].pc = "record" /\ publishing'[t].current = current
      /\ \A u \in PublishThread : u # t => publishing'[u] = publishing[u]
  BY <1>1 DEF NoticeInv, NoticeTyped
<1>4. publishing'[t] # Resting
  BY <1>3 DEF Resting
<1>5. NoticeTyped'
  <2>1. publishing' \in [PublishThread -> [pc : {"idle", "tell", "record"}, current : SUBSET NoticeId]]
    BY <1>1 DEF NoticeInv, NoticeTyped
  <2>2. \A u \in PublishThread : publishing'[u].pc = "idle" => publishing'[u] = Resting
    BY <1>3 DEF NoticeInv, NoticeTyped
  <2>3. told \subseteq NoticeId
    BY <1>2 DEF NoticeInv, NoticeTyped
  <2> HIDE DEF told
  <2>4. QED
    BY <1>1, <2>1, <2>2, <2>3 DEF NoticeInv, NoticeTyped, NoDay
<1>6. ASSUME ~overlapped' PROVE Alone' /\ Settled'
  <2>1. Alone
    BY <1>1, <1>6 DEF NoticeInv
  <2>2. noticed = published /\ current = NoticeDue(occurring)
    BY <1>1, <1>2, <2>1 DEF Alone
  <2>3. told = current
    BY <2>2
  <2>4. \A u \in PublishThread : u # t => publishing'[u] = Resting
    BY <1>2, <1>3, <2>1 DEF Alone
  <2>5. NoticeDue(occurring)' = NoticeDue(occurring)
    BY <1>1 DEF NoticeDue
  <2>6. ~Nobody'
    BY <1>4 DEF Nobody
  <2>7. \A u \in PublishThread : u # t => publishing'[u].pc = "idle"
    BY <2>4 DEF Resting
  <2> HIDE DEF told, current
  <2>8. QED
    BY <1>1, <1>3, <2>2, <2>3, <2>4, <2>5, <2>6, <2>7 DEF Alone, Settled
<1>7. QED
  BY <1>5, <1>6 DEF NoticeInv

\* The last step of a publication.
LEMMA RecordKeeps == ASSUME NoticeInv, NEW t \in PublishThread, RecordPublished(t) PROVE NoticeInv'
<1> DEFINE current == publishing[t].current
<1>1. /\ publishing[t].pc = "record" /\ published' = current /\ publishing' = [publishing EXCEPT ![t] = Resting]
      /\ UNCHANGED <<day, occurring, acknowledged, lastDate, noticed, overlapped>>
  BY DEF RecordPublished
<1>2. publishing[t] # Resting /\ current \subseteq NoticeId
  BY <1>1 DEF NoticeInv, NoticeTyped, Resting
<1>3. publishing'[t] = Resting /\ \A u \in PublishThread : u # t => publishing'[u] = publishing[u]
  BY <1>1 DEF NoticeInv, NoticeTyped
<1>4. NoticeTyped'
  <2>1. publishing' \in [PublishThread -> [pc : {"idle", "tell", "record"}, current : SUBSET NoticeId]]
    BY <1>1 DEF NoticeInv, NoticeTyped, Resting
  <2>2. \A u \in PublishThread : publishing'[u].pc = "idle" => publishing'[u] = Resting
    BY <1>3 DEF NoticeInv, NoticeTyped
  <2> HIDE DEF current
  <2>3. QED
    BY <1>1, <1>2, <2>1, <2>2 DEF NoticeInv, NoticeTyped, NoDay
<1>5. ASSUME ~overlapped' PROVE Alone' /\ Settled'
  <2>1. Alone
    BY <1>1, <1>5 DEF NoticeInv
  <2>2. noticed = current /\ current = NoticeDue(occurring)
    BY <1>1, <1>2, <2>1 DEF Alone
  <2>3. \A u \in PublishThread : publishing'[u] = Resting
    BY <1>2, <1>3, <2>1 DEF Alone
  <2>4. NoticeDue(occurring)' = NoticeDue(occurring)
    BY <1>1 DEF NoticeDue
  <2>5. \A u \in PublishThread : publishing'[u].pc = "idle"
    BY <2>3 DEF Resting
  <2> HIDE DEF current
  <2>6. QED
    BY <1>1, <2>2, <2>3, <2>4, <2>5 DEF Alone, Settled
<1>6. QED
  BY <1>4, <1>5 DEF NoticeInv

\* An attention acknowledged while nobody publishes is not due any more.
LEMMA AcknowledgedKeeps == ASSUME NoticeInv, NEW o \in noticed, AcknowledgeOccurrence(o) PROVE NoticeInv'
<1>1. /\ acknowledged' = acknowledged \union {o} /\ noticed' = noticed \ {o} /\ published' = published \ {o}
      /\ overlapped' = (overlapped \/ ~Nobody) /\ UNCHANGED <<day, occurring, publishing, lastDate>>
  BY DEF AcknowledgeOccurrence, StoreAcknowledgement
<1>2. NoticeTyped'
  BY <1>1 DEF NoticeInv, NoticeTyped, NoDay
<1>3. ASSUME ~overlapped' PROVE Alone' /\ Settled'
  <2>1. Nobody /\ Alone /\ Settled
    BY <1>1, <1>3 DEF NoticeInv
  <2>2. NoticeDue(occurring)' = NoticeDue(occurring) \ {o}
    BY <1>1 DEF NoticeDue
  <2>3. noticed = published /\ \A t \in PublishThread : publishing[t] = Resting
    BY <2>1 DEF Alone, Nobody
  <2>4. \A t \in PublishThread : publishing'[t] = Resting /\ publishing'[t].pc = "idle"
    BY <1>1, <2>3 DEF Resting
  <2>5. QED
    BY <1>1, <2>1, <2>2, <2>3, <2>4 DEF Alone, Settled
<1>4. QED
  BY <1>2, <1>3 DEF NoticeInv

\* At midnight the worker has not published the new day.
LEMMA MidnightKeeps == ASSUME NoticeInv, Midnight PROVE NoticeInv'
<1>1. /\ day < LastDay /\ day' = day + 1 /\ occurring' \in SUBSET Entry /\ overlapped' = (overlapped \/ ~Nobody)
      /\ UNCHANGED <<acknowledged, publishing, published, lastDate, noticed>>
  BY DEF Midnight
<1>2. LastDay \in Nat /\ day \in 0..LastDay /\ (lastDate \in 0..day \/ lastDate = LastDay + 1)
  BY CalendarAttentionsConstants DEF CalendarAttentionsConstants, NoticeInv, NoticeTyped, NoDay
<1>3. day' \in 0..LastDay /\ (lastDate' \in 0..day' \/ lastDate' = LastDay + 1) /\ lastDate' # day'
  BY <1>1, <1>2
<1>4. NoticeTyped'
  BY <1>1, <1>3 DEF NoticeInv, NoticeTyped, NoDay
<1>5. ASSUME ~overlapped' PROVE Alone' /\ Settled'
  <2>1. Nobody /\ Alone
    BY <1>1, <1>5 DEF NoticeInv
  <2>2. noticed = published /\ \A t \in PublishThread : publishing[t] = Resting
    BY <2>1 DEF Alone, Nobody
  <2>3. \A t \in PublishThread : publishing'[t] = Resting /\ publishing'[t].pc = "idle"
    BY <1>1, <2>2 DEF Resting
  <2>4. QED
    BY <1>1, <1>3, <2>2, <2>3 DEF Alone, Settled
<1>6. QED
  BY <1>4, <1>5 DEF NoticeInv

\* After a restart nothing is on the face, and the worker has today to publish.
LEMMA NoticesRestart == ASSUME NoticeInv, CalendarRestarts PROVE NoticeInv'
<1>1. /\ publishing' = [t \in PublishThread |-> [pc |-> "idle", current |-> {}]] /\ published' = {}
      /\ lastDate' = NoDay /\ noticed' = {} /\ UNCHANGED <<day, occurring, acknowledged>>
  BY DEF CalendarRestarts, Resting
<1>2. lastDate' # day' /\ overlapped' = FALSE
  <2>1. LastDay \in Nat /\ day \in 0..LastDay
    BY CalendarAttentionsConstants DEF CalendarAttentionsConstants, NoticeInv, NoticeTyped
  <2>2. day # LastDay + 1
    BY <2>1
  <2>3. QED
    BY <1>1, <2>2 DEF NoDay, CalendarRestarts
<1>3. \A t \in PublishThread : publishing'[t] = Resting /\ publishing'[t].pc = "idle"
  BY <1>1 DEF Resting
<1>4. publishing' \in [PublishThread -> [pc : {"idle", "tell", "record"}, current : SUBSET NoticeId]]
  BY <1>1
<1>5. NoticeTyped'
  BY <1>1, <1>2, <1>3, <1>4 DEF NoticeInv, NoticeTyped, NoDay
<1>6. Alone' /\ Settled'
  BY <1>1, <1>2, <1>3 DEF Alone, Settled
<1>7. QED
  BY <1>5, <1>6 DEF NoticeInv

LEMMA NoticeStep == NoticeInv /\ [NoticeNext]_noticeVars => NoticeInv'
<1> SUFFICES ASSUME NoticeInv, [NoticeNext]_noticeVars PROVE NoticeInv'
  OBVIOUS
<1>1. CASE WorkerChecks
  <2>1. /\ Compute("worker", occurring) /\ lastDate' = day
        /\ UNCHANGED <<day, occurring, acknowledged, published, noticed>>
    BY <1>1 DEF WorkerChecks
  <2>2. "worker" \in PublishThread /\ occurring \in SUBSET Entry
    BY DEF PublishThread, NoticeInv, NoticeTyped
  <2>3. QED
    BY <2>1, <2>2, ComputeKeeps
<1>2. CASE EventsChange
  <2>1. PICK entries \in SUBSET Entry : Compute("touch", entries) /\ occurring' = entries
    BY <1>2 DEF EventsChange
  <2>2. UNCHANGED <<day, acknowledged, published, lastDate, noticed>> /\ "touch" \in PublishThread
    BY <1>2 DEF EventsChange, PublishThread
  <2>3. QED
    BY <2>1, <2>2, ComputeKeeps
<1>3. CASE \E t \in PublishThread : Tell(t) \/ RecordPublished(t)
  BY <1>3, TellKeeps, RecordKeeps
<1>4. CASE \E o \in noticed : AcknowledgeOccurrence(o)
  BY <1>4, AcknowledgedKeeps
<1>5. CASE UNCHANGED noticeVars
  <2>1. UNCHANGED <<day, occurring, acknowledged, publishing, published, lastDate, noticed, overlapped>>
    BY <1>5 DEF noticeVars
  <2>2. NoticeTyped' /\ (Alone' <=> Alone) /\ (Settled' <=> Settled)
    BY <2>1 DEF NoticeInv, NoticeTyped, Alone, Settled, Nobody, NoticeDue
  <2>3. QED
    BY <2>1, <2>2 DEF NoticeInv
<1>6. QED
  BY <1>1, <1>2, <1>3, <1>4, <1>5, MidnightKeeps, NoticesRestart DEF NoticeNext

\* Whenever the worker has published today and nobody is publishing, the face
\* shows what is due today, as long as no two changes overlapped, for any events
\* and days (check, _publish_attentions, _acknowledge).
THEOREM TodayShown == NoticeSpec => [](NoticeTypeOK /\ TodayIsNoticed)
<1>1. NoticeInv => NoticeTypeOK /\ TodayIsNoticed
  <2>1. SUFFICES ASSUME NoticeInv PROVE NoticeTypeOK /\ TodayIsNoticed
    OBVIOUS
  <2>2. LastDay \in Nat
    BY CalendarAttentionsConstants DEF CalendarAttentionsConstants
  <2>3. lastDate \in 0..NoDay
    BY <2>1, <2>2 DEF NoticeInv, NoticeTyped, NoDay
  <2>4. QED
    BY <2>1, <2>3 DEF NoticeInv, NoticeTyped, NoticeTypeOK, TodayIsNoticed, NoticeId
<1>2. QED
  BY NoticeBegins, NoticeStep, <1>1, PTL DEF NoticeSpec
===============================================================================
