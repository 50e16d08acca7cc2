\* Two attentions over two days of three minutes, with quiet periods over
\* midnight; two menu pages and three views; three tools in two modules, nested
\* two deep; two timers of at most two ticks; an alarm over two days of two minutes; two
\* events on three dates; a face that two threads publish to for two days; three
\* songs of two seconds; a library of two songs and two playlist names; two
\* colours; two places.
SPECIFICATION Spec
CONSTANTS
    Notice = {n1, n2}
    QuietStart = 2
    QuietEnd = 1
    DayEnd = 3
    QuietDays = {1, 2}
    PinLength = 2
    LastQuietDay = 2
    MaxPosted = 2
    MenuItems = 16
    MaxViews = 3
    MaxCalls = 2
    t1 = t1
    t2 = t2
    t3 = t3
    hello = hello
    bye = bye
    Tool <- MCTool
    Name <- MCName
    Module = {k1, k2}
    ActionOf <- MCActionOf
    AliasesOf <- MCAliasesOf
    MenuOnly <- MCMenuOnly
    MaxDepth = 2
    LastTimer = 2
    MaxActive = 2
    MaxDuration = 2
    LastTick = 3
    MaxAlarms = 1
    LastAlarm = 1
    Day = 2
    Week = 2
    Grace = 2
    Snooze = 1
    LastMinute = 5
    Repeats <- MCRepeats
    EventId = {e1, e2}
    NoEvent = NoEvent
    LastDate = 2
    Forever = 4
    Edits <- MCEdits
    Entry = {d1, d2}
    LastDay = 1
    Starts <- MCStarts
    Counts <- MCCounts
    Ends <- MCEnds
    Exclusions <- MCExclusions
    Windows <- MCWindows
    Years <- MCYears
    HolidayYears <- MCHolidayYears
    LastSong = 3
    Duration = 2
    Tune = {s1, s2}
    Playlist = {p1, p2}
    NoPlaylist = NoPlaylist
    MaxRecent = 1
    MaxPlaylists = 1
    MaxTunes = 1
    Color = {red, blue}
    NoColor = NoColor
    PlaceCount = 2
    RefreshAfter = 1
    HourLimit = 2
    LastHour = 1
    MaxFetches = 3
    Sunrise = 24
    Sunset = 70
    None = None
    Quarters <- MCQuarters
INVARIANTS
    FaceIsTrue
    TimersKeepTime
    RoverIsSafe
    WeatherIsHonest
PROPERTIES
    ShellKeepsViews
    LoadingIsClean
    AlarmsFireOnce
    CalendarIsKept
    MusicIsAsShown
CHECK_DEADLOCK FALSE
