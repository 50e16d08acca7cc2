----------------------------- MODULE AlarmClock -----------------------------
(* bmo.features.alarm_clock and alarm_store: alarms kept in one JSON file, a  *)
(* worker that looks at the wall clock and rings what is due, and the changes *)
(* made meanwhile by voice (the runtime's worker) and by touch (the Qt        *)
(* thread).  Every change is saved under the tool's lock; marking an alarm as *)
(* ringing, raising its attention and dismissing it happen outside that       *)
(* critical section.  Time is in minutes of a short day; labels are left out. *)
EXTENDS Integers, FiniteSets, FiniteSetsExt

CONSTANTS MaxAlarms,    \* alarms kept at a time
          LastAlarm,    \* bounds next_id
          Day, Week,    \* minutes in a day, days in a week
          Repeats,      \* the sets of weekdays asked for; {} is a one-time alarm
          Grace,        \* LATE_RING_GRACE
          Snooze,       \* snooze_minutes
          LastMinute    \* bounds the clock
ASSUME AlarmConstants ==
    /\ {MaxAlarms, LastAlarm, Day, Week, Grace, Snooze, LastMinute} \subseteq Nat \ {0}
    /\ Repeats \subseteq SUBSET (0..Week - 1)
    /\ Grace <= 2 * Day /\ Day <= LastMinute

VARIABLES minute,     \* the wall clock
          alarms,     \* the saved AlarmState's alarms, by id
          alarmNext,  \* its next_id
          fired,      \* _fired_occurrences
          looked,     \* the minute the worker read for the check it is about to make
          due,        \* alarms taken by the check in progress
          ringer,     \* the one marked ringing whose attention is not raised yet
          ringing,    \* _ringing
          dismissing, \* dismissals under way: before and after the pop, or of all that ring
          shownAlarms,\* alarm attentions the runtime holds
          rang,       \* ghost: occurrences fired since the start, and those whose
                      \* one-time alarm was saved as spent
          editor      \* the touch editor: [on, id], id 0 for a new alarm

alarmStore == <<alarms, alarmNext>>
worker == <<looked, due, ringer>>
alarmVars == <<minute, alarmStore, fired, worker, ringing, dismissing, shownAlarms, rang, editor>>

AlarmId == 1..LastAlarm
Off == -1  \* no date, not snoozed, or no time read
NoEditor == [on |-> FALSE, id |-> 0]

AlarmInit ==
    /\ minute = Day /\ alarms = <<>> /\ alarmNext = 1
    /\ fired = {} /\ looked = Off /\ due = {} /\ ringer = 0 /\ ringing = {} /\ dismissing = {}
    /\ shownAlarms = {} /\ rang = {} /\ editor = NoEditor

DayOf(time) == time \div Day

\* _next_one_time_date
NextDate(at) == IF DayOf(minute) * Day + at > minute THEN DayOf(minute) ELSE DayOf(minute) + 1

DateFor(at, days) == IF days = {} THEN NextDate(at) ELSE Off

\* the last time a repeating alarm was for, or the time of a one-time alarm
RegularTarget(a, now) ==
    IF a.days = {} THEN a.date * Day + a.at
    ELSE LET t == DayOf(now) * Day + a.at IN IF t > now THEN t - Day ELSE t

Late(t, now) == now - t \in 0..(Grace - 1)
IsSnooze(a, now) == a.snoozed # Off /\ Late(a.snoozed, now)
IsRegular(a, now) ==
    /\ a.enabled /\ Late(RegularTarget(a, now), now)
    /\ a.days # {} => DayOf(RegularTarget(a, now)) % Week \in a.days
Occurrence(i, now) ==
    <<i, IF IsSnooze(alarms[i], now) THEN alarms[i].snoozed ELSE RegularTarget(alarms[i], now)>>

-----------------------------------------------------------------------------
(* The worker *)

DueAt(now) == {i \in DOMAIN alarms : /\ IsSnooze(alarms[i], now) \/ IsRegular(alarms[i], now)
                                     /\ Occurrence(i, now) \notin fired}

\* an alarm the check has fired is spent, and a snooze it came too late for is dropped
Checked(i, now) ==
    LET a == alarms[i]
    IN  CASE i \in DueAt(now) -> [a EXCEPT !.enabled = @ /\ a.days # {}, !.snoozed = Off]
          [] i \notin DueAt(now) /\ a.snoozed # Off /\ now - a.snoozed >= Grace -> [a EXCEPT !.snoozed = Off]
          [] OTHER -> a

\* slip: what has rung is not remembered
Forgotten(occurrences, now) == {o \in fired : o[2] >= now - 2 * Day}
\* _fired_occurrences after a check, without what is older than two days
Remembered(occurrences, now) == {o \in fired \union occurrences : o[2] >= now - 2 * Day}

\* The worker reads the clock, then asks for the lock.  It may come late to
\* either: a callback of the last alarm was slow, or the machine was.
LookAtClock ==
    /\ looked = Off /\ due = {} /\ ringer = 0
    /\ looked' = minute
    /\ UNCHANGED <<minute, alarmStore, fired, due, ringer, ringing, dismissing, shownAlarms, rang, editor>>

\* _check_due under the lock; a failed save is reported and the alarms ring all
\* the same, but another start will not know that a one-time alarm is spent.
CheckDue ==
    /\ looked # Off
    /\ \E saved \in BOOLEAN :
          /\ alarms' = IF saved THEN [i \in DOMAIN alarms |-> Checked(i, looked)] ELSE alarms
          /\ rang' = rang \union {[of |-> Occurrence(i, looked), thisRun |-> TRUE,
                                   spent |-> saved /\ alarms[i].days = {}] : i \in DueAt(looked)}
    /\ fired' = Remembered({Occurrence(i, looked) : i \in DueAt(looked)}, looked)
    /\ due' = DueAt(looked) /\ looked' = Off
    /\ UNCHANGED <<minute, alarmNext, ringer, ringing, dismissing, shownAlarms, editor>>

\* _ring, in the order of the list: marked under the lock, then announced
RingAlarm ==
    /\ due # {} /\ ringer = 0
    /\ ringer' = Min(due) /\ due' = due \ {ringer'} /\ ringing' = ringing \union {ringer'}
    /\ UNCHANGED <<minute, alarmStore, fired, looked, dismissing, shownAlarms, rang, editor>>

AnnounceAlarm ==
    /\ ringer # 0 /\ ringer' = 0
    /\ shownAlarms' = shownAlarms \union {ringer}
    /\ UNCHANGED <<minute, alarmStore, fired, looked, due, ringing, dismissing, rang, editor>>

-----------------------------------------------------------------------------
(* Changes, each saved under the lock.  A failed save changes nothing and      *)
(* leaves the editor open; it is not a step here.                              *)

Unringing == <<minute, fired, worker, ringing, shownAlarms, rang>>

\* _set: by voice, or by the editor for a new alarm
SetAlarm(at, days) ==
    /\ Cardinality(DOMAIN alarms) < MaxAlarms /\ alarmNext <= LastAlarm
    /\ LET new == [at |-> at, days |-> days, date |-> DateFor(at, days),
                   enabled |-> TRUE, snoozed |-> Off]
       IN  /\ alarms' = [i \in DOMAIN alarms \union {alarmNext} |->
                            IF i = alarmNext THEN new ELSE alarms[i]]
           /\ alarmNext' = alarmNext + 1
    /\ editor' \in {editor, IF editor = [on |-> TRUE, id |-> 0] THEN NoEditor ELSE editor}
    /\ UNCHANGED <<Unringing, dismissing>>

\* alarm_add, and alarm_edit of an alarm that exists: either starts the draft over
OpenEditor ==
    /\ \E i \in DOMAIN alarms \union {0} : editor' = [on |-> TRUE, id |-> i]
    /\ UNCHANGED <<Unringing, alarmStore, dismissing>>

\* alarm_editor_cancel, or the page is closed
CloseEditor ==
    /\ editor.on /\ editor' = NoEditor
    /\ UNCHANGED <<Unringing, alarmStore, dismissing>>

\* alarm_save of an existing alarm; of one deleted meanwhile it is refused
UpdateAlarm(at, days) ==
    /\ editor.on /\ editor.id \in DOMAIN alarms
    /\ alarms' = [alarms EXCEPT ![editor.id] =
                    [@ EXCEPT !.at = at, !.days = days, !.date = DateFor(at, days), !.snoozed = Off]]
    /\ editor' = NoEditor
    /\ UNCHANGED <<Unringing, alarmNext, dismissing>>

\* _toggle_alarm: switching off ends by dismissing what rings
ToggleAlarm(i, on) ==
    /\ i \in DOMAIN alarms
    /\ LET a == alarms[i]
       IN  alarms' = [alarms EXCEPT ![i] =
                        [a EXCEPT !.enabled = on, !.snoozed = Off,
                                  !.date = IF a.days = {} /\ on THEN NextDate(a.at) ELSE @]]
    /\ dismissing' = IF on THEN dismissing ELSE dismissing \union {<<"pop", i>>}
    /\ UNCHANGED <<Unringing, alarmNext, editor>>

\* _delete_alarm
DeleteAlarm(i) ==
    /\ i \in DOMAIN alarms
    /\ alarms' = [j \in DOMAIN alarms \ {i} |-> alarms[j]]
    /\ dismissing' = dismissing \union {<<"pop", i>>}
    /\ UNCHANGED <<Unringing, alarmNext, editor>>

\* _delete_all, even when there is none; what rings is looked up after the save
DeleteAllAlarms ==
    /\ alarms' = <<>>
    /\ dismissing' = dismissing \union {<<"all", 0>>}
    /\ UNCHANGED <<Unringing, alarmNext, editor>>

DismissAllRinging ==
    /\ <<"all", 0>> \in dismissing
    /\ dismissing' = (dismissing \ {<<"all", 0>>}) \union {<<"pop", i>> : i \in ringing}
    /\ UNCHANGED <<Unringing, alarmStore, editor>>

\* _snooze_alarm of a ringing alarm, which may have been deleted meanwhile
SnoozeAlarm(i) ==
    /\ i \in ringing /\ minute + Snooze <= LastMinute
    /\ alarms' = [j \in DOMAIN alarms |->
                    IF j = i THEN [alarms[j] EXCEPT !.snoozed = minute + Snooze] ELSE alarms[j]]
    /\ dismissing' = dismissing \union {<<"pop", i>>}
    /\ UNCHANGED <<Unringing, alarmNext, editor>>

\* dismissed by voice, by touch, or by acknowledging its attention
DismissAlarm(i) ==
    /\ i \in ringing
    /\ dismissing' = dismissing \union {<<"pop", i>>}
    /\ UNCHANGED <<Unringing, alarmStore, editor>>

\* _dismiss_ringing: the pop is locked, what follows it is not
PopRinging(i) ==
    /\ <<"pop", i>> \in dismissing
    /\ ringing' = ringing \ {i}
    /\ dismissing' = (dismissing \ {<<"pop", i>>}) \union (IF i \in ringing THEN {<<"tell", i>>} ELSE {})
    /\ UNCHANGED <<minute, alarmStore, fired, worker, shownAlarms, rang, editor>>

DropAttention(i) ==
    /\ <<"tell", i>> \in dismissing
    /\ dismissing' = dismissing \ {<<"tell", i>>} /\ shownAlarms' = shownAlarms \ {i}
    /\ UNCHANGED <<minute, alarmStore, fired, worker, ringing, rang, editor>>

-----------------------------------------------------------------------------
\* The wall clock, which is taken never to be set back.
MinutePasses ==
    /\ minute < LastMinute
    /\ minute' = minute + 1
    /\ UNCHANGED <<alarmStore, fired, worker, ringing, dismissing, shownAlarms, rang, editor>>

\* The kiosk stops at any moment and starts again from the file, maybe minutes later.
RestartClock ==
    /\ minute' \in minute..LastMinute
    /\ fired' = {} /\ looked' = Off /\ due' = {} /\ ringer' = 0 /\ ringing' = {} /\ dismissing' = {}
    /\ shownAlarms' = {} /\ editor' = NoEditor
    /\ rang' = {[r EXCEPT !.thisRun = FALSE] : r \in {q \in rang : q.spent}}
    /\ UNCHANGED alarmStore

AlarmChange ==
    \/ \E at \in 0..Day - 1, days \in Repeats : SetAlarm(at, days) \/ UpdateAlarm(at, days)
    \/ \E i \in AlarmId : DeleteAlarm(i) \/ SnoozeAlarm(i) \/ \E on \in BOOLEAN : ToggleAlarm(i, on)
    \/ DeleteAllAlarms

AlarmNext ==
    \/ LookAtClock \/ CheckDue \/ RingAlarm \/ AnnounceAlarm
    \/ AlarmChange \/ OpenEditor \/ CloseEditor \/ DismissAllRinging
    \/ \E i \in AlarmId : DismissAlarm(i) \/ PopRinging(i) \/ DropAttention(i)
    \/ MinutePasses \/ RestartClock

AlarmSpec == AlarmInit /\ [][AlarmNext]_alarmVars

-----------------------------------------------------------------------------
(* What is asked for, in the hours and days of a real clock.  Texts are records: *)
(* a time has an hour, a minute and "am", "pm" or neither; a minute left out is  *)
(* Off.                                                                          *)

TimeText(hour, min, meridiem) == [hour |-> hour, minute |-> min, meridiem |-> meridiem]

\* _parse_time_text: the hour and minute meant, {} for a refusal
ParseTimeText(text) ==
    LET min == IF text.minute = Off THEN 0 ELSE text.minute
        hour == IF text.meridiem = "none" THEN text.hour
                ELSE (text.hour % 12) + (IF text.meridiem = "pm" THEN 12 ELSE 0)
    IN {x \in {<<hour, min>>} : /\ min <= 59
                               /\ text.hour \in IF text.meridiem = "none" THEN 0..23 ELSE 1..12}

\* parse_alarm_time: a text, or an hour and a minute with or without "am" and "pm"
ParseAlarmTime(isText, text) ==
    IF isText \/ text.meridiem # "none" THEN ParseTimeText(text)
    ELSE {x \in {<<text.hour, IF text.minute = Off THEN 0 ELSE text.minute>>} : x \in (0..23) \X (0..59)}

FormatAlarmTime(hour, min, use24Hour) ==
    IF use24Hour THEN TimeText(hour, min, "none")
    ELSE TimeText(IF hour % 12 = 0 THEN 12 ELSE hour % 12, min, IF hour < 12 THEN "am" ELSE "pm")

\* the words for several days at once; other words name a weekday by its number
DaysOf == [day |-> 0..6, weekday |-> 0..4, weekend |-> {5, 6}]

\* format_repeat of an alarm that repeats
FormatRepeat(days) ==
    IF \E w \in DOMAIN DaysOf : DaysOf[w] = days
    THEN [word |-> CHOOSE w \in DOMAIN DaysOf : DaysOf[w] = days, names |-> {}]
    ELSE [word |-> "none", names |-> days]

\* parse_weekdays: one such word stands alone; {} is a refusal, and no days are once
ParseWeekdays(said) ==
    IF said.word # "none" THEN {DaysOf[said.word] : x \in {y \in {0} : said.names = {}}}
    ELSE {x \in {said.names} : said.names \subseteq 0..6}

\* match_direct_action: the first of the words in the sentence, in this order, or its weekdays
DirectRepeat(words, names) ==
    LET first == CASE "weekday" \in words -> "weekday" [] "day" \in words -> "day"
                   [] "weekend" \in words -> "weekend" [] OTHER -> "none"
    IN [word |-> first, names |-> IF first = "none" THEN names ELSE {}]

\* AlarmRecord: what a file may hold
ValidAlarm(a) == a.at \in 0..Day - 1 /\ a.days \subseteq 0..Week - 1 /\ (a.days # {} => a.date = Off)

-----------------------------------------------------------------------------
(* Properties *)

AlarmOK(a) ==
    /\ a \in [at : 0..Day - 1, days : Repeats, date : Int, enabled : BOOLEAN, snoozed : Int]
    /\ ValidAlarm(a) /\ (a.days = {} => a.date # Off)

StoreOK ==
    /\ alarmNext \in 1..(LastAlarm + 1) /\ DOMAIN alarms \subseteq 1..(alarmNext - 1)
    /\ \A i \in DOMAIN alarms : AlarmOK(alarms[i])

\* What the state is made of.
AlarmTypeOK ==
    /\ StoreOK /\ minute \in 0..LastMinute /\ looked \in {Off} \union 0..minute
    /\ due \union ringing \union shownAlarms \subseteq AlarmId /\ ringer \in AlarmId \union {0}
    /\ dismissing \subseteq ({"pop", "tell"} \X AlarmId) \union {<<"all", 0>>}
    /\ editor \in [on : BOOLEAN, id : AlarmId \union {0}]

\* An occurrence is fired once, however the alarm is edited, switched, snoozed
\* or checked late; and a one-time alarm that was saved as spent is not fired for
\* that occurrence again by a later start.
FiresOnce ==
    [][\A i \in due' \ due : due = {} =>
          \A r \in rang : r.of = Occurrence(i, looked) => ~r.thisRun /\ alarms[i].days # {}]_alarmVars

\* An attention left on the face belongs to an alarm that rings, so that
\* acknowledging it removes it.
AttentionIsRinging ==
    dismissing = {} => shownAlarms \subseteq ringing

\* A time or a repetition BMO says is one it understands as the same, at
\* midnight and at noon too; a time given as numbers means what its text does;
\* and a sentence that is taken without the model never asks for refused days.
SayingIsMeaning ==
    /\ \A hour \in 0..23, min \in {0, 1, 30, 59}, use24Hour \in BOOLEAN :
          ParseTimeText(FormatAlarmTime(hour, min, use24Hour)) = {<<hour, min>>}
    /\ \A hour \in 0..25, min \in {Off, 0, 59, 60}, meridiem \in {"none", "am", "pm"} :
          LET text == TimeText(hour, min, meridiem)
          IN /\ ParseAlarmTime(TRUE, text) = ParseAlarmTime(FALSE, text)
             /\ ParseAlarmTime(TRUE, text) \subseteq (0..23) \X (0..59)
    /\ \A days \in SUBSET (0..6) : ParseWeekdays(FormatRepeat(days)) = {days}
    /\ \A words \in SUBSET DOMAIN DaysOf, names \in SUBSET {0, 4, 5} :
          \E days \in ParseWeekdays(DirectRepeat(words, names)) : (words = {} /\ names = {}) \/ days # {}

\* What the alarm clock promises of each occurrence of an alarm, and of what is
\* asked of it.
AlarmsFireOnce == [](AlarmTypeOK /\ SayingIsMeaning) /\ FiresOnce
=============================================================================
