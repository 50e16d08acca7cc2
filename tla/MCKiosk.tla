------------------------------- MODULE MCKiosk -------------------------------
(* The kiosk and the features of its menu for TLC, side by side: one module is *)
(* in focus in each behaviour, the others stay as they begin.  None reads      *)
(* another's state, so nothing is lost by taking them one at a time.           *)
EXTENDS KioskPresentation, KioskShell, ExtensionLoading, CountdownTimers, AlarmClock,
        Calendar, CalendarAttentions, CalendarRules, MusicPlayer, MusicShelf, RoverRemote,
        WeatherPage, TLC

CONSTANTS t1, t2, t3, hello, bye

\* t2's alias is t1's action, and t3, a menu item, has the same action as t1
MCTool == {t1, t2, t3}
MCName == {hello, bye}
MCActionOf == t1 :> hello @@ t2 :> bye @@ t3 :> hello
MCAliasesOf == t1 :> {} @@ t2 :> {hello} @@ t3 :> {}
MCMenuOnly == {t3}

MCRepeats == {{}, {0}}

\* a series without an end, the same begun a day later, one with an end, and a single day
MCEdits == {<<0, 1, 4>>, <<1, 1, 4>>, <<1, 1, 3>>, <<1, 0, 4>>}

\* the days around the ends of months, leap years and a century without one
MCStarts == {<<2096, 1, 29>>, <<2096, 1, 30>>, <<2096, 1, 31>>, <<2096, 2, 29>>,
             <<2098, 12, 31>>, <<2097, 3, 5>>}
MCCounts == {0, 1, 40}
MCEnds == {<<>>, <<2100, 3, 30>>}
MCExclusions == {{}, {Ordinal(<<2099, 12, 31>>)}}
MCWindows == {<<<<2096, 1, 30>>, <<2096, 4, 1>>>>, <<<<2099, 12, 15>>, <<2100, 4, 1>>>>,
              <<<<2103, 12, 31>>, <<2104, 3, 2>>>>}
MCYears == 2096..2104
MCHolidayYears == 1900..2199

\* before dawn, at dawn, at noon, before dusk, after dusk, at night
MCQuarters == {20, 30, 50, 64, 72, 75}

VARIABLE focus

Init ==
    /\ focus \in {"face", "shell", "loading", "timers", "alarms", "calendar", "notices",
                  "rules", "music", "shelf", "rover", "weather", "sky"}
    /\ KioskInit /\ (focus # "face" => clock.minute = 0)
    /\ ShellInit /\ ExtensionInit /\ TimerInit /\ AlarmInit /\ CalendarInit /\ MusicInit /\ RoverInit
    /\ NoticeInit /\ (focus # "notices" => occurring = {})
    /\ IF focus = "rules" THEN RulesInit ELSE query = <<>> /\ reply = {}
    /\ ShelfInit /\ (focus # "shelf" => libraryFile = EmptyShelf)
    /\ WeatherInit /\ (focus # "weather" => spot = 1)
    /\ IF focus = "sky" THEN SkyInit ELSE sky = WeatherViewState(CHOOSE r \in Readings : TRUE)

surfaceVars == <<kioskVars, shellVars, loadVars>>
timeVars == <<timerVars, alarmVars>>
dateVars == <<calendarVars, noticeVars, rulesVars>>
playVars == <<musicVars, shelfVars, roverVars>>
lookVars == <<weatherVars, sky>>

Face == focus = "face" /\ KioskNext /\ UNCHANGED <<focus, shellVars, loadVars, timeVars, dateVars, playVars, lookVars>>
Shell == focus = "shell" /\ ShellNext /\ UNCHANGED <<focus, kioskVars, loadVars, timeVars, dateVars, playVars, lookVars>>
Loading == focus = "loading" /\ ExtensionNext /\ UNCHANGED <<focus, kioskVars, shellVars, timeVars, dateVars, playVars, lookVars>>
Timers == focus = "timers" /\ TimerNext /\ UNCHANGED <<focus, surfaceVars, alarmVars, dateVars, playVars, lookVars>>
Alarms == focus = "alarms" /\ AlarmNext /\ UNCHANGED <<focus, surfaceVars, timerVars, dateVars, playVars, lookVars>>
Events == focus = "calendar" /\ CalendarNext /\ UNCHANGED <<focus, surfaceVars, timeVars, noticeVars, rulesVars, playVars, lookVars>>
Notices == focus = "notices" /\ NoticeNext /\ UNCHANGED <<focus, surfaceVars, timeVars, calendarVars, rulesVars, playVars, lookVars>>
Rules == focus = "rules" /\ RulesNext /\ UNCHANGED <<focus, surfaceVars, timeVars, calendarVars, noticeVars, playVars, lookVars>>
Music == focus = "music" /\ MusicNext /\ UNCHANGED <<focus, surfaceVars, timeVars, dateVars, shelfVars, roverVars, lookVars>>
Shelf == focus = "shelf" /\ ShelfNext /\ UNCHANGED <<focus, surfaceVars, timeVars, dateVars, musicVars, roverVars, lookVars>>
Rover == focus = "rover" /\ RoverNext /\ UNCHANGED <<focus, surfaceVars, timeVars, dateVars, musicVars, shelfVars, lookVars>>
Weather == focus = "weather" /\ WeatherNext /\ UNCHANGED <<focus, surfaceVars, timeVars, dateVars, playVars, sky>>

Next ==
    \/ Face \/ Shell \/ Loading \/ Timers \/ Alarms \/ Events \/ Notices \/ Rules
    \/ Music \/ Shelf \/ Rover \/ Weather

Spec == Init /\ [][Next]_<<focus, surfaceVars, timeVars, dateVars, playVars, lookVars>>

\* What the calendar promises: its answers are exact, a change of one date
\* touches that date only, and today's events are on the face.
CalendarIsKept ==
    [](CalendarTypeOK /\ NoticeTypeOK /\ TodayIsNoticed /\ AnswersAreExact) /\ OneDateChanges
=============================================================================
